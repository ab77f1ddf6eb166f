---------------------------- MODULE MemcachedProofs ----------------------------
(***************************************************************************)
(* Memcached.  The store, for any clients, keys, values and sizes: its     *)
(* types, what a gets reply announces, that outdated items stay unread.    *)
(* A connection of the server, for any scripts and any way to cut them:    *)
(* what is executed is what was sent, and what a crash comes from.  The    *)
(* client, for any callers and kinds of calls: each is answered with what  *)
(* the server said to it.                                                  *)
(***************************************************************************)
EXTENDS MemcachedStore, MemcachedServer, MemcachedClient,
        TLAPS, SequenceTheorems, NaturalsInduction, WellFoundedInduction

-----------------------------------------------------------------------------
(* the store                                                                   *)

StoreInv == StoreTypeOK /\ AnnouncedBytesPresent

LEMMA CommandItemsAreItems ==
  \A item \in CommandItems : item \in Items /\ item.bytes = Len(item.value) /\ ~item.extended
<1> SUFFICES ASSUME NEW block \in DataBlocks, NEW casId \in CasIds \cup {Nothing},
                    NEW live \in BOOLEAN
             PROVE  /\ NewItem(block, casId, live) \in Items
                    /\ NewItem(block, casId, live).bytes = Len(NewItem(block, casId, live).value)
                    /\ ~NewItem(block, casId, live).extended
  BY DEF CommandItems
<1>1. block \in Seq(Blocks) /\ Len(block) \in Nat
  BY StoreAssumption
<1> QED
  BY <1>1 DEF NewItem, Items

LEMMA StoreInitInv == StoreInit => StoreInv
BY DEF StoreInit, StoreInv, StoreTypeOK, AnnouncedBytesPresent, NoReply

LEMMA AnswerType ==
  ASSUME NEW c \in Clients, NEW k \in Keys,
         NEW command \in {"set", "add", "replace", "append", "prepend", "cas", "gets", "delete"},
         NEW status \in {"STORED", "NOT_STORED", "EXISTS", "NOT_FOUND",
                         "CLIENT_ERROR", "END", "DELETED"},
         Answer(c, command, k, status)
  PROVE  reply' \in [client : Clients \cup {Nothing}, key : Keys \cup {Nothing},
                     command : {"set", "add", "replace", "append", "prepend", "cas",
                                "gets", "delete", Nothing},
                     status : {"STORED", "NOT_STORED", "EXISTS", "NOT_FOUND",
                               "CLIENT_ERROR", "END", "DELETED", Nothing}]
BY DEF Answer

(* A command that refuses keeps the invariant. *)
LEMMA RefuseInv ==
  ASSUME StoreInv, NEW c \in Clients, NEW k \in Keys,
         NEW command \in {"set", "add", "replace", "append", "prepend", "cas", "gets", "delete"},
         NEW status \in {"STORED", "NOT_STORED", "EXISTS", "NOT_FOUND",
                         "CLIENT_ERROR", "END", "DELETED"},
         Refuse(c, command, k, status)
  PROVE  StoreInv'
BY AnswerType DEF StoreInv, StoreTypeOK, AnnouncedBytesPresent, Refuse

(* So does one that overwrites the item of a key with a new one. *)
LEMMA WriteInv ==
  ASSUME StoreInv, NEW c \in Clients, NEW k \in Keys, NEW item \in CommandItems,
         NEW command \in {"set", "add", "cas"}, NEW status \in {"STORED", "EXISTS"},
         record' = [record EXCEPT ![k] = item],
         totalSize' \in Int, UNCHANGED fetched, Answer(c, command, k, status)
  PROVE  StoreInv'
<1>1. item \in Items /\ item.bytes = Len(item.value) /\ item.bytes <= Len(item.value)
  BY CommandItemsAreItems DEF Items
<1>2. StoreTypeOK'
  BY <1>1, AnswerType DEF StoreInv, StoreTypeOK
<1>3. AnnouncedBytesPresent'
  BY <1>1 DEF StoreInv, StoreTypeOK, AnnouncedBytesPresent
<1> QED BY <1>2, <1>3 DEF StoreInv

(* And one that adds a piece to the value of a readable item. *)
LEMMA ExtendInv ==
  ASSUME StoreInv, NEW c \in Clients, NEW k \in Keys, NEW piece \in Seq(Blocks),
         NEW longer \in Seq(Blocks), Len(longer) >= Len(record[k].value), Readable(k),
         NEW command \in {"append", "prepend"},
         ExtendValue(k, longer, piece), Answer(c, command, k, "STORED"), UNCHANGED fetched
  PROVE  StoreInv'
<1>1. record[k] \in Items
  BY DEF StoreInv, StoreTypeOK, Readable
<1> DEFINE new == [record[k] EXCEPT !.value = longer, !.extended = TRUE]
<1>2. new \in Items /\ record' = [record EXCEPT ![k] = new]
  BY <1>1 DEF Items, ExtendValue
<1>3. totalSize' \in Int
  BY DEF StoreInv, StoreTypeOK, ExtendValue
<1>4. StoreTypeOK'
  BY <1>2, <1>3, AnswerType DEF StoreInv, StoreTypeOK
<1>5. new.bytes <= Len(new.value) /\ new.extended
  BY <1>1 DEF Items, Readable, StoreInv, AnnouncedBytesPresent
<1>6. AnnouncedBytesPresent'
  BY <1>2, <1>5 DEF StoreInv, StoreTypeOK, AnnouncedBytesPresent
<1> QED BY <1>4, <1>6 DEF StoreInv

LEMMA ConcatIsSeq ==
  ASSUME NEW S, NEW a \in Seq(S), NEW b \in Seq(S)
  PROVE  a \o b \in Seq(S) /\ Len(a \o b) >= Len(a) /\ Len(a \o b) >= Len(b)
OBVIOUS

LEMMA SaveInv ==
  ASSUME StoreInv, NEW c \in Clients, NEW k \in Keys, NEW item \in CommandItems,
         SaveCommand(c, k, item)
  PROVE  StoreInv'
<1>1. item \in Items /\ item.value \in Seq(Blocks) /\ item.bytes \in Nat
  BY CommandItemsAreItems DEF Items
<1>2. totalSize \in Int /\ StoredBytes(k) \in Int
  BY DEF StoreInv, StoreTypeOK, StoredBytes, Items
<1>3. Readable(k) => record[k] \in Items /\ record[k].value \in Seq(Blocks)
  BY DEF StoreInv, StoreTypeOK, Readable, Items
<1>4. CASE Set(c, k, item)
  <2>1. totalSize' \in Int
    BY <1>1, <1>2, <1>4 DEF Set, Put
  <2> QED BY <1>4, <2>1, WriteInv DEF Set, Put
<1>5. CASE Add(c, k, item)
  <2>1. totalSize' \in Int
    BY <1>1, <1>2, <1>5 DEF Add
  <2> QED BY <1>5, <2>1, WriteInv DEF Add
<1>6. CASE Replace(c, k, item)
  BY <1>6, RefuseInv DEF Replace, Refuse
<1>7. CASE AppendTo(c, k, item.value)
  <2>0. record[k].value \in Seq(Blocks)
    BY <1>3, <1>7 DEF AppendTo
  <2>1. item.value \o record[k].value \in Seq(Blocks)
        /\ Len(item.value \o record[k].value) >= Len(record[k].value)
    BY <1>1, <2>0, ConcatIsSeq
  <2> QED BY <1>1, <1>7, <2>1, ExtendInv DEF AppendTo
<1>8. CASE PrependTo(c, k, item.value)
  <2>0. record[k].value \in Seq(Blocks)
    BY <1>3, <1>8 DEF PrependTo
  <2>1. record[k].value \o item.value \in Seq(Blocks)
        /\ Len(record[k].value \o item.value) >= Len(record[k].value)
    BY <1>1, <2>0, ConcatIsSeq
  <2> QED BY <1>1, <1>8, <2>1, ExtendInv DEF PrependTo
<1>9. CASE Cas(c, k, item)
  <2>1. totalSize' \in Int
    BY <1>1, <1>2, <1>9 DEF Cas, Put
  <2> QED BY <1>9, <2>1, WriteInv DEF Cas, Put
<1>10. CASE CasRefused(c, k, item) \/ CasWithoutId(c, k, item)
  BY <1>10, RefuseInv DEF CasRefused, CasWithoutId
<1> QED BY <1>4, <1>5, <1>6, <1>7, <1>8, <1>9, <1>10 DEF SaveCommand

LEMMA OtherInv ==
  ASSUME StoreInv, NEW c \in Clients, NEW k \in Keys, OtherCommand(c, k)
  PROVE  StoreInv'
<1>1. CASE AddRefused(c, k) \/ ReplaceRefused(c, k) \/ DeleteRefused(c, k)
  BY <1>1, RefuseInv DEF AddRefused, ReplaceRefused, DeleteRefused
<1>2. CASE ExtendRefused(c, k)
  BY <1>2, RefuseInv DEF ExtendRefused
<1>3. CASE Gets(c, k)
  BY <1>3, AnswerType DEF Gets, StoreInv, StoreTypeOK, AnnouncedBytesPresent
<1>4. CASE Delete(c, k)
  <2>1. totalSize' \in Int
    BY <1>4 DEF Delete, StoredBytes, StoreInv, StoreTypeOK, Items
  <2> QED BY <1>4, <2>1, AnswerType
          DEF Delete, StoreInv, StoreTypeOK, AnnouncedBytesPresent
<1> QED BY <1>1, <1>2, <1>3, <1>4 DEF OtherCommand

LEMMA ExpireInv ==
  ASSUME StoreInv, NEW k \in Keys, Expire(k)
  PROVE  StoreInv'
<1>1. /\ record[k] \in Items /\ record[k].bytes <= Len(record[k].value)
      /\ ~record[k].extended => record[k].bytes = Len(record[k].value)
  BY DEF Expire, Readable, StoreInv, StoreTypeOK, AnnouncedBytesPresent
<1> DEFINE new == [record[k] EXCEPT !.live = FALSE]
<1>2. /\ new \in Items /\ new.bytes <= Len(new.value) /\ record' = [record EXCEPT ![k] = new]
      /\ ~new.extended => new.bytes = Len(new.value)
  BY <1>1 DEF Items, Expire
<1> QED BY <1>2 DEF Expire, StoreInv, StoreTypeOK, AnnouncedBytesPresent

(* The invariant holds through every sequence of commands and expiries.       *)
THEOREM StoreInvariance == StoreSpec => []StoreInv
<1>1. StoreInv /\ [StoreNext]_storeVars => StoreInv'
  <2> SUFFICES ASSUME StoreInv, [StoreNext]_storeVars PROVE StoreInv'
    OBVIOUS
  <2>1. CASE \E c \in Clients, k \in Keys, item \in CommandItems : SaveCommand(c, k, item)
    BY <2>1, SaveInv
  <2>2. CASE \E c \in Clients, k \in Keys : OtherCommand(c, k)
    BY <2>2, OtherInv
  <2>3. CASE \E k \in Keys : Expire(k)
    BY <2>3, ExpireInv
  <2>4. CASE UNCHANGED storeVars
    BY <2>4 DEF storeVars, StoreInv, StoreTypeOK, AnnouncedBytesPresent
  <2> QED BY <2>1, <2>2, <2>3, <2>4 DEF StoreNext
<1> QED BY <1>1, StoreInitInv, PTL DEF StoreSpec

(* Every variable of the store keeps its type (store.ts:13-24).               *)
THEOREM StoreTypeCorrect == StoreSpec => []StoreTypeOK
BY StoreInvariance, PTL DEF StoreInv

(* A gets reply announces the data that follows it, and no more than that for *)
(* an item that was appended or prepended to (syntax.ts:153-162).             *)
THEOREM StoreAnnouncesWhatItHolds == StoreSpec => []AnnouncedBytesPresent
BY StoreInvariance, PTL DEF StoreInv

Revives(j) == ~Readable(j) /\ Readable(j)'
SetOrAdd(j) == reply'.key = j /\ reply'.command \in {"set", "add"}

LEMMA SaveRevives ==
  ASSUME StoreInv, NEW c \in Clients, NEW k \in Keys, NEW item \in CommandItems,
         SaveCommand(c, k, item), NEW j \in Keys, Revives(j)
  PROVE  SetOrAdd(j)
<1>1. CASE Set(c, k, item)
  BY <1>1 DEF Set, Put, Answer, Revives, SetOrAdd, Readable, StoreInv, StoreTypeOK
<1>2. CASE Add(c, k, item)
  BY <1>2 DEF Add, Answer, Revives, SetOrAdd, Readable, StoreInv, StoreTypeOK
<1>3. CASE Replace(c, k, item)
  BY <1>3 DEF Replace, Revives, Readable
<1>4. CASE AppendTo(c, k, item.value) \/ PrependTo(c, k, item.value)
  BY <1>4 DEF AppendTo, PrependTo, ExtendValue, Revives, Readable, StoreInv, StoreTypeOK
<1>5. CASE Cas(c, k, item)
  BY <1>5 DEF Cas, CasMatches, Put, Revives, Readable, StoreInv, StoreTypeOK
<1>6. CASE CasRefused(c, k, item) \/ CasWithoutId(c, k, item)
  BY <1>6 DEF CasRefused, CasWithoutId, Refuse, Revives, Readable
<1> QED BY <1>1, <1>2, <1>3, <1>4, <1>5, <1>6 DEF SaveCommand

LEMMA OtherRevives ==
  ASSUME StoreInv, NEW c \in Clients, NEW k \in Keys, OtherCommand(c, k),
         NEW j \in Keys, Revives(j)
  PROVE  SetOrAdd(j)
<1>1. CASE Delete(c, k)
  BY <1>1 DEF Delete, Revives, Readable, StoreInv, StoreTypeOK
<1>2. CASE AddRefused(c, k) \/ ReplaceRefused(c, k) \/ DeleteRefused(c, k)
           \/ ExtendRefused(c, k) \/ Gets(c, k)
  BY <1>2 DEF AddRefused, ReplaceRefused, DeleteRefused, ExtendRefused, Refuse, Gets,
              Revives, Readable
<1> QED BY <1>1, <1>2 DEF OtherCommand

(* What was outdated is read again only after a set or an add (store.ts:32-91). *)
THEOREM StoreRevivesNothing == StoreSpec => OnlySetOrAddRevives
<1>1. StoreInv /\ [StoreNext]_storeVars =>
        [\A j \in Keys : Revives(j) => SetOrAdd(j)]_storeVars
  <2> SUFFICES ASSUME StoreInv, StoreNext, NEW j \in Keys, Revives(j)
               PROVE  SetOrAdd(j)
    OBVIOUS
  <2>1. CASE \E c \in Clients, k \in Keys, item \in CommandItems : SaveCommand(c, k, item)
    BY <2>1, SaveRevives
  <2>2. CASE \E c \in Clients, k \in Keys : OtherCommand(c, k)
    BY <2>2, OtherRevives
  <2>3. CASE \E k \in Keys : Expire(k)
    BY <2>3 DEF Expire, Revives, Readable, StoreInv, StoreTypeOK
  <2> QED BY <2>1, <2>2, <2>3 DEF StoreNext
<1>2. StoreInv /\ [StoreNext]_storeVars =>
        [\A k \in Keys : ~Readable(k) /\ Readable(k)' =>
           reply'.key = k /\ reply'.command \in {"set", "add"}]_storeVars
  BY <1>1 DEF Revives, SetOrAdd
<1> QED BY <1>2, StoreInvariance, PTL DEF StoreSpec, OnlySetOrAddRevives

-----------------------------------------------------------------------------
(* sequences of messages                                                       *)

LEMMA LeastOf ==
  ASSUME NEW S \in SUBSET Nat, S # {}
  PROVE  \E m \in S : \A n \in S : m <= n
<1>1. PICK m \in S : \A n \in S : ~ (<<n, m>> \in OpToRel(<, Nat))
  BY WFMin, NatLessThanWellFounded, Zenon
<1>2. \A n \in S : ~ (n < m)
  BY <1>1 DEF OpToRel
<1>q. QED BY <1>2

(* A stream w holds n messages one behind the other; message k begins after   *)
(* at[k] tokens.                                                              *)
Layout(w, at, msgs, n) ==
  /\ at \in [1..n + 1 -> 0..Len(w)] /\ at[1] = 0 /\ at[n + 1] = Len(w)
  /\ \A k \in 1..n : /\ at[k + 1] = at[k] + Len(msgs[k])
                     /\ \A j \in 1..Len(msgs[k]) : w[at[k] + j] = msgs[k][j]

Joins(w, s, t) ==
  /\ Len(w) = Len(s) + Len(t) /\ Len(s) \in Nat /\ Len(t) \in Nat
  /\ \A i \in 1..Len(s) : w[i] = s[i]
  /\ \A i \in 1..Len(t) : w[Len(s) + i] = t[i]

LEMMA Appended ==
  ASSUME NEW S, NEW s \in Seq(S), NEW t \in Seq(S)
  PROVE  s \o t \in Seq(S) /\ Joins(s \o t, s, t)
<1>1. /\ s \o t \in Seq(S) /\ Len(s \o t) = Len(s) + Len(t)
      /\ \A i \in 1..Len(s) + Len(t) : (s \o t)[i] = IF i <= Len(s) THEN s[i] ELSE t[i - Len(s)]
  BY ConcatProperties, Zenon
<1>2. Len(s) \in Nat /\ Len(t) \in Nat
  BY LenProperties
<1>3. ASSUME NEW i \in 1..Len(t) PROVE (s \o t)[Len(s) + i] = t[i]
  <2>1. Len(s) + i \in 1..Len(s) + Len(t) /\ ~(Len(s) + i <= Len(s)) /\ Len(s) + i - Len(s) = i
    BY <1>2
  <2>q. QED BY <1>1, <2>1
<1>q. QED BY <1>1, <1>2, <1>3 DEF Joins

LEMMA LayoutGrows ==
  ASSUME NEW S, NEW n \in Nat, NEW w \in Seq(S), NEW at, NEW msgs, Layout(w, at, msgs, n),
         NEW m \in Seq(S), NEW more, \A k \in 1..n : more[k] = msgs[k], more[n + 1] = m
  PROVE  /\ w \o m \in Seq(S)
         /\ Layout(w \o m, [k \in 1..n + 2 |-> IF k <= n + 1 THEN at[k] ELSE Len(w) + Len(m)],
                   more, n + 1)
<1> DEFINE v == w \o m
           to == [k \in 1..n + 2 |-> IF k <= n + 1 THEN at[k] ELSE Len(w) + Len(m)]
<1>0. v \in Seq(S) /\ Joins(v, w, m)
  BY Appended, Zenon
<1> HIDE DEF v
<1>1. /\ v \in Seq(S) /\ Len(v) = Len(w) + Len(m) /\ Len(w) \in Nat /\ Len(m) \in Nat
      /\ \A i \in 1..Len(w) : v[i] = w[i]
      /\ \A i \in 1..Len(m) : v[Len(w) + i] = m[i]
  BY <1>0 DEF Joins
<1>2. /\ at \in [1..n + 1 -> 0..Len(w)] /\ at[1] = 0 /\ at[n + 1] = Len(w)
      /\ \A k \in 1..n : /\ at[k + 1] = at[k] + Len(msgs[k])
                         /\ \A j \in 1..Len(msgs[k]) : w[at[k] + j] = msgs[k][j]
  BY DEF Layout
<1>3. to \in [1..(n + 1) + 1 -> 0..Len(v)] /\ to[1] = 0 /\ to[(n + 1) + 1] = Len(v)
  BY <1>1, <1>2
<1>4. ASSUME NEW k \in 1..n
      PROVE  to[k + 1] = to[k] + Len(more[k]) /\ \A j \in 1..Len(more[k]) : v[to[k] + j] = more[k][j]
  <2>1. to[k + 1] = at[k + 1] /\ to[k] = at[k] /\ more[k] = msgs[k]
    OBVIOUS
  <2>2. at[k] \in Nat /\ at[k + 1] \in Nat /\ at[k] + Len(msgs[k]) = at[k + 1] /\ at[k + 1] <= Len(w)
    BY <1>1, <1>2
  <2>3. ASSUME NEW j \in 1..Len(msgs[k]) PROVE v[at[k] + j] = msgs[k][j]
    <3>1. at[k] + j \in 1..Len(w)
      <4>1. at[k] \in Nat /\ at[k] + Len(msgs[k]) <= Len(w) /\ Len(w) \in Nat
        BY <1>1, <2>2
      <4>q. QED BY <4>1
    <3>q. QED BY <1>1, <1>2, <3>1
  <2>q. QED BY <2>1, <2>2, <2>3
<1>5. to[n + 1] = Len(w) /\ to[(n + 1) + 1] = Len(w) + Len(more[n + 1])
      /\ \A j \in 1..Len(more[n + 1]) : v[to[n + 1] + j] = more[n + 1][j]
  <2>1. to[n + 1] = Len(w) /\ to[(n + 1) + 1] = Len(w) + Len(m)
    BY <1>2
  <2>q. QED BY <1>1, <2>1
<1>6. \A k \in 1..n + 1 : k \in 1..n \/ k = n + 1
  OBVIOUS
<1> HIDE DEF to
<1>7. \A k \in 1..n + 1 : /\ to[k + 1] = to[k] + Len(more[k])
                          /\ \A j \in 1..Len(more[k]) : v[to[k] + j] = more[k][j]
  BY <1>4, <1>5, <1>6
<1>8. Layout(v, to, more, n + 1)
  BY <1>3, <1>7 DEF Layout
<1>q. QED BY <1>1, <1>8 DEF to, v

Flattening(f, msgs, n) ==
  f = [i \in 1..n |-> IF i = 1 THEN msgs[i] ELSE f[i - 1] \o msgs[i]]

LEMMA FlatteningExists ==
  ASSUME NEW msgs, NEW n \in Nat
  PROVE  \E f : Flattening(f, msgs, n)
<1> DEFINE Bad == {k \in Nat : ~\E f : Flattening(f, msgs, k)}
<1>1. ASSUME NEW k \in Nat, NEW f, Flattening(f, msgs, k)
      PROVE  \E g : Flattening(g, msgs, k + 1)
  <2> DEFINE g == [i \in 1..k + 1 |-> IF i <= k THEN f[i] ELSE IF i = 1 THEN msgs[i] ELSE f[i - 1] \o msgs[i]]
  <2>1. ASSUME NEW i \in 1..k + 1 PROVE g[i] = IF i = 1 THEN msgs[i] ELSE g[i - 1] \o msgs[i]
    <3>1. CASE i <= k
      <4>1. i \in 1..k /\ g[i] = f[i] /\ (i # 1 => i - 1 \in 1..k + 1 /\ g[i - 1] = f[i - 1])
        BY <3>1
      <4>2. f[i] = IF i = 1 THEN msgs[i] ELSE f[i - 1] \o msgs[i]
        BY <1>1, <4>1 DEF Flattening
      <4>q. QED BY <4>1, <4>2
    <3>2. CASE i = k + 1
      BY <3>2
    <3>q. QED BY <3>1, <3>2
  <2>2. g = [i \in 1..k + 1 |-> g[i]]
    OBVIOUS
  <2> HIDE DEF g
  <2>3. g = [i \in 1..k + 1 |-> IF i = 1 THEN msgs[i] ELSE g[i - 1] \o msgs[i]]
    BY <2>1, <2>2
  <2>q. QED BY <2>3 DEF Flattening
<1>2. 0 \notin Bad
  <2>1. Flattening(<<>>, msgs, 0)
    BY DEF Flattening
  <2>q. QED BY <2>1
<1>3. Bad = {}
  <2> SUFFICES ASSUME Bad # {} PROVE FALSE
    OBVIOUS
  <2>1. Bad \in SUBSET Nat
    OBVIOUS
  <2>2. PICK k \in Bad : \A j \in Bad : k <= j
    BY <2>1, LeastOf
  <2>3. k - 1 \in Nat /\ k - 1 \notin Bad /\ k = (k - 1) + 1
    BY <1>2, <2>2
  <2>q. QED BY <1>1, <2>2, <2>3
<1>q. QED BY <1>3

(* FlattenSeq puts messages one behind the other.                             *)
LEMMA FlattenLayout ==
  ASSUME NEW S, NEW msgs \in Seq(Seq(S))
  PROVE  FlattenSeq(msgs) \in Seq(S) /\ \E at : Layout(FlattenSeq(msgs), at, msgs, Len(msgs))
<1>0. Len(msgs) \in Nat /\ \A k \in 1..Len(msgs) : msgs[k] \in Seq(S)
  OBVIOUS
<1>1. CASE Len(msgs) = 0
  <2>1. msgs = <<>> /\ FlattenSeq(msgs) = msgs
    BY <1>1 DEF FlattenSeq
  <2>2. Layout(<<>>, [k \in 1..1 |-> 0], <<>>, 0)
    BY DEF Layout
  <2>3. <<>> \in Seq(S) /\ Len(msgs) = 0
    BY <1>1
  <2>q. QED BY <2>1, <2>2, <2>3
<1>2. CASE Len(msgs) # 0
  <2>1. PICK f : Flattening(f, msgs, Len(msgs)) /\ FlattenSeq(msgs) = f[Len(msgs)]
    <3> DEFINE F == CHOOSE f : Flattening(f, msgs, Len(msgs))
    <3>1. FlattenSeq(msgs) = F[Len(msgs)]
      BY <1>2 DEF FlattenSeq, Flattening
    <3>2. Flattening(F, msgs, Len(msgs))
      BY <1>0, FlatteningExists
    <3>q. QED BY <3>1, <3>2
  <2>0. \A i \in 1..Len(msgs) : f[i] = IF i = 1 THEN msgs[i] ELSE f[i - 1] \o msgs[i]
    BY <2>1 DEF Flattening
  <2> DEFINE Good(k) == f[k] \in Seq(S) /\ \E at : Layout(f[k], at, msgs, k)
             Bad == {k \in 1..Len(msgs) : ~Good(k)}
  <2>2. Good(1)
    <3>1. f[1] = msgs[1] /\ msgs[1] \in Seq(S) /\ Len(msgs[1]) \in Nat
      BY <1>0, <1>2, <2>0
    <3>2. Layout(msgs[1], [k \in 1..2 |-> IF k = 1 THEN 0 ELSE Len(msgs[1])], msgs, 1)
      BY <3>1 DEF Layout
    <3>q. QED BY <3>1, <3>2
  <2>3. ASSUME NEW k \in 1..Len(msgs), k + 1 \in 1..Len(msgs), Good(k) PROVE Good(k + 1)
    <3>1. PICK at : Layout(f[k], at, msgs, k)
      BY <2>3
    <3>2. k + 1 # 1 /\ (k + 1) - 1 = k
      OBVIOUS
    <3>3. f[k + 1] = f[k] \o msgs[k + 1]
      BY <2>0, <2>3, <3>2
    <3>4. f[k] \in Seq(S) /\ msgs[k + 1] \in Seq(S) /\ k \in Nat
      BY <1>0, <2>3
    <3> DEFINE to == [i \in 1..k + 2 |-> IF i <= k + 1 THEN at[i] ELSE Len(f[k]) + Len(msgs[k + 1])]
    <3>5. f[k] \o msgs[k + 1] \in Seq(S) /\ Layout(f[k] \o msgs[k + 1], to, msgs, k + 1)
      BY <3>1, <3>4, LayoutGrows
    <3> HIDE DEF to
    <3>q. QED BY <3>3, <3>5
  <2> HIDE DEF Good
  <2>4. Bad = {}
    <3> SUFFICES ASSUME Bad # {} PROVE FALSE
      OBVIOUS
    <3>1. Bad \in SUBSET Nat
      OBVIOUS
    <3>2. PICK k \in Bad : \A j \in Bad : k <= j
      BY <3>1, LeastOf
    <3>3. k \in 1..Len(msgs) /\ k # 1
      BY <2>2, <3>2
    <3> HIDE DEF Bad
    <3>4. k - 1 \in 1..Len(msgs) /\ k = (k - 1) + 1 /\ ~(k <= k - 1)
      <4>1. Len(msgs) \in Nat
        BY <1>0
      <4>q. QED BY <3>3, <4>1
    <3>5. k - 1 \notin Bad
      BY <3>2, <3>4
    <3>6. Good(k - 1)
      BY <3>4, <3>5 DEF Bad
    <3>7. Good((k - 1) + 1)
      BY <2>3, <3>3, <3>4, <3>6
    <3>8. ~Good(k)
      BY <3>2 DEF Bad
    <3>q. QED BY <3>4, <3>7, <3>8
  <2>5. Good(Len(msgs))
    <3>1. Len(msgs) \in 1..Len(msgs)
      BY <1>0, <1>2
    <3>q. QED BY <2>4, <3>1
  <2>q. QED BY <2>1, <2>5 DEF Good
<1>q. QED BY <1>1, <1>2

-----------------------------------------------------------------------------
(* cutting lines and blocks from a buffer                                      *)

(* How much of a block the buffer has, and how much of its line end is behind *)
(* that: none, the CR, or both.                                               *)
Had(v, bytes, buffer) == IF bytes - Len(v) <= Len(buffer) THEN bytes - Len(v) ELSE Len(buffer)
CrBehind(buffer, n) == IF n < Len(buffer) /\ buffer[n + 1].byte = CR THEN 1 ELSE 0
LfBehind(buffer, n) == IF n < Len(buffer) /\ buffer[n + 1].byte = LF THEN 1 ELSE 0
EndBehind(buffer, n) == CrBehind(buffer, n) + LfBehind(buffer, n + CrBehind(buffer, n))

LEMMA SuffixOf ==
  ASSUME NEW S, NEW s \in Seq(S), NEW k \in 0..Len(s)
  PROVE  /\ SubSeq(s, k + 1, Len(s)) \in Seq(S) /\ Len(SubSeq(s, k + 1, Len(s))) = Len(s) - k
         /\ \A i \in 1..Len(s) - k : SubSeq(s, k + 1, Len(s))[i] = s[k + i]
<1>1. Len(s) \in Nat
  BY LenProperties
<1>2. k + 1 \in 1..Len(s) + 1 /\ Len(s) \in k..Len(s)
  BY <1>1
<1>3. SubSeq(s, k + 1, Len(s)) = [i \in 1..Len(s) - k |-> s[k + i]]
  BY <1>1, <1>2
<1>4. \A i \in 1..Len(s) - k : s[k + i] \in S
  BY <1>1
<1>q. QED BY <1>1, <1>3, <1>4

LEMMA PrefixOf ==
  ASSUME NEW S, NEW s \in Seq(S), NEW k \in 0..Len(s)
  PROVE  /\ SubSeq(s, 1, k) \in Seq(S) /\ Len(SubSeq(s, 1, k)) = k
         /\ \A i \in 1..k : SubSeq(s, 1, k)[i] = s[i]
<1>1. Len(s) \in Nat
  BY LenProperties
<1>2. SubSeq(s, 1, k) = [i \in 1..k |-> s[i]]
  BY <1>1
<1>3. \A i \in 1..k : s[i] \in S
  BY <1>1
<1>q. QED BY <1>1, <1>2, <1>3

LEMMA MinOfTwo ==
  ASSUME NEW a \in Nat, NEW b \in Nat
  PROVE  Min({a, b}) = IF a <= b THEN a ELSE b
BY DEF Min

(* s is what b has behind its first k.                                        *)
RestOf(s, b, k) ==
  k \in 0..Len(b) /\ Len(s) = Len(b) - k /\ \A i \in 1..Len(b) - k : s[i] = b[k + i]

LEMMA TailIsRest ==
  ASSUME NEW T, NEW b \in Seq(T), NEW s \in Seq(T), NEW k, RestOf(s, b, k), s # <<>>
  PROVE  k + 1 \in 1..Len(b) /\ s[1] = b[k + 1] /\ Tail(s) \in Seq(T) /\ RestOf(Tail(s), b, k + 1)
<1>1. Len(b) \in Nat /\ Len(s) \in Nat /\ Len(s) # 0
  OBVIOUS
<1>2. k \in 0..Len(b) /\ Len(s) = Len(b) - k /\ \A i \in 1..Len(b) - k : s[i] = b[k + i]
  BY DEF RestOf
<1>3. k \in Int /\ k + 1 \in 1..Len(b) /\ s[1] = b[k + 1]
  BY <1>1, <1>2
<1>4. /\ Tail(s) \in Seq(T) /\ Len(Tail(s)) = Len(s) - 1
      /\ \A i \in 1..Len(s) - 1 : Tail(s)[i] = s[i + 1]
  BY HeadTailProperties
<1>5. ASSUME NEW i \in 1..Len(b) - (k + 1) PROVE Tail(s)[i] = b[k + 1 + i]
  <2>1. i \in 1..Len(s) - 1 /\ i + 1 \in 1..Len(b) - k /\ k + (i + 1) = k + 1 + i
    BY <1>1, <1>2, <1>3
  <2>q. QED BY <1>2, <1>4, <2>1
<1>q. QED BY <1>1, <1>2, <1>3, <1>4, <1>5 DEF RestOf

LEMMA HeadOfRest ==
  ASSUME NEW T, NEW b \in Seq(T), NEW s \in Seq(T), NEW k, RestOf(s, b, k)
  PROVE  s # <<>> <=> k < Len(b)
BY DEF RestOf

LEMMA WithoutCRIsRest ==
  ASSUME NEW T, NEW b \in Seq(T), NEW s \in Seq(T), NEW k, RestOf(s, b, k)
  PROVE  WithoutCR(s) \in Seq(T) /\ RestOf(WithoutCR(s), b, k + CrBehind(b, k))
<1>1. k \in Int
  BY DEF RestOf
<1>2. CASE s # <<>> /\ s[1].byte = CR
  <2>1. WithoutCR(s) = Tail(s) /\ CrBehind(b, k) = 1
    BY <1>2, HeadOfRest, TailIsRest DEF WithoutCR, CrBehind
  <2>q. QED BY <1>2, <2>1, TailIsRest
<1>3. CASE ~(s # <<>> /\ s[1].byte = CR)
  <2>1. WithoutCR(s) = s /\ CrBehind(b, k) = 0
    BY <1>3, HeadOfRest, TailIsRest DEF WithoutCR, CrBehind
  <2>q. QED BY <1>1, <2>1
<1>q. QED BY <1>2, <1>3

LEMMA WithoutLFIsRest ==
  ASSUME NEW T, NEW b \in Seq(T), NEW s \in Seq(T), NEW k, RestOf(s, b, k)
  PROVE  WithoutLF(s) \in Seq(T) /\ RestOf(WithoutLF(s), b, k + LfBehind(b, k))
<1>1. k \in Int
  BY DEF RestOf
<1>2. CASE s # <<>> /\ s[1].byte = LF
  <2>1. WithoutLF(s) = Tail(s) /\ LfBehind(b, k) = 1
    BY <1>2, HeadOfRest, TailIsRest DEF WithoutLF, LfBehind
  <2>q. QED BY <1>2, <2>1, TailIsRest
<1>3. CASE ~(s # <<>> /\ s[1].byte = LF)
  <2>1. WithoutLF(s) = s /\ LfBehind(b, k) = 0
    BY <1>3, HeadOfRest, TailIsRest DEF WithoutLF, LfBehind
  <2>q. QED BY <1>1, <2>1
<1>q. QED BY <1>2, <1>3

LEMMA TakeBlockTakes ==
  ASSUME NEW S, NEW T, \A t \in T : t.byte \in S, NEW v \in Seq(S),
         NEW bytes \in Nat, Len(v) <= bytes, NEW buffer \in Seq(T)
  PROVE  LET n == Had(v, bytes, buffer)
             taken == TakeBlock(v, bytes, buffer)
         IN  /\ n \in 0..Len(buffer)
             /\ taken.value \in Seq(S) /\ Len(taken.value) = Len(v) + n
             /\ \A i \in 1..Len(v) : taken.value[i] = v[i]
             /\ \A i \in 1..n : taken.value[Len(v) + i] = buffer[i].byte
             /\ taken.rest \in Seq(T) /\ RestOf(taken.rest, buffer, n + EndBehind(buffer, n))
<1> DEFINE n == Had(v, bytes, buffer)
           taken == SubSeq(buffer, 1, n)
           rest == SubSeq(buffer, n + 1, Len(buffer))
<1>1. Len(buffer) \in Nat /\ Len(v) \in Nat /\ n \in 0..Len(buffer)
  BY DEF Had
<1>2. Min({bytes - Len(v), Len(buffer)}) = n
  <2>1. bytes - Len(v) \in Nat
    BY <1>1
  <2>q. QED BY <1>1, <2>1, MinOfTwo DEF Had
<1>3. taken \in Seq(T) /\ Len(taken) = n /\ \A i \in 1..n : taken[i] = buffer[i]
  BY <1>1, PrefixOf
<1>4. TakeBlock(v, bytes, buffer) = [value |-> v \o BytesOf(taken), rest |-> WithoutLF(WithoutCR(rest))]
  BY <1>2, <1>3 DEF TakeBlock
<1>5. rest \in Seq(T) /\ RestOf(rest, buffer, n)
  BY <1>1, SuffixOf DEF RestOf
<1> HIDE DEF n, taken, rest
<1>6. BytesOf(taken) \in Seq(S) /\ Len(BytesOf(taken)) = n /\ \A i \in 1..n : BytesOf(taken)[i] = buffer[i].byte
  <2>1. \A i \in 1..n : taken[i] \in T
    BY <1>1, <1>3
  <2>2. BytesOf(taken) = [i \in 1..n |-> taken[i].byte] /\ \A i \in 1..n : taken[i].byte \in S
    BY <1>3, <2>1 DEF BytesOf
  <2>q. QED BY <1>1, <1>3, <2>2
<1>7. /\ v \o BytesOf(taken) \in Seq(S) /\ Len(v \o BytesOf(taken)) = Len(v) + n
      /\ \A i \in 1..Len(v) : (v \o BytesOf(taken))[i] = v[i]
      /\ \A i \in 1..n : (v \o BytesOf(taken))[Len(v) + i] = buffer[i].byte
  <2> DEFINE u == BytesOf(taken)
  <2>1. u \in Seq(S) /\ Len(u) = n /\ \A i \in 1..n : u[i] = buffer[i].byte
    BY <1>6
  <2> HIDE DEF u
  <2>2. v \o u \in Seq(S) /\ Joins(v \o u, v, u)
    BY <2>1, Appended, Zenon
  <2>q. QED BY <2>1, <2>2 DEF Joins, u
<1>8. LET c == CrBehind(buffer, n)
      IN  /\ WithoutCR(rest) \in Seq(T) /\ RestOf(WithoutCR(rest), buffer, n + c)
          /\ WithoutLF(WithoutCR(rest)) \in Seq(T)
          /\ RestOf(WithoutLF(WithoutCR(rest)), buffer, (n + c) + LfBehind(buffer, n + c))
  BY <1>5, WithoutCRIsRest, WithoutLFIsRest
<1>9. (n + CrBehind(buffer, n)) + LfBehind(buffer, n + CrBehind(buffer, n)) = n + EndBehind(buffer, n)
  BY <1>1 DEF EndBehind, CrBehind, LfBehind
<1>q. QED BY <1>1, <1>4, <1>7, <1>8, <1>9 DEF n

(* A line is found where its three tokens are.                                *)
LEMMA LineStarts ==
  ASSUME NEW T, NEW buffer \in Seq(T)
  PROVE  /\ StartsWithLine(buffer) => Len(buffer) >= 3 /\ buffer[1].byte = HEAD
         /\ /\ Len(buffer) >= 3 /\ buffer[1].byte = HEAD
            /\ buffer[2].byte = CR /\ buffer[3].byte = LF
            => StartsWithLine(buffer)
<1>1. Len(buffer) \in Nat
  BY LenProperties
<1>2. ASSUME StartsWithLine(buffer) PROVE Len(buffer) >= 3 /\ buffer[1].byte = HEAD
  <2>1. CrlfAt(buffer) # {} /\ Min(CrlfAt(buffer)) = 2 /\ buffer[1].byte = HEAD
    BY <1>2 DEF StartsWithLine
  <2>2. CrlfAt(buffer) \in SUBSET Nat
    BY <1>1 DEF CrlfAt
  <2>3. \E m \in CrlfAt(buffer) : \A i \in CrlfAt(buffer) : m <= i
    BY <2>1, <2>2, LeastOf
  <2>4. Min(CrlfAt(buffer)) \in CrlfAt(buffer)
    BY <2>3 DEF Min
  <2>q. QED BY <1>1, <2>1, <2>4 DEF CrlfAt
<1>3. ASSUME Len(buffer) >= 3, buffer[1].byte = HEAD, buffer[2].byte = CR, buffer[3].byte = LF
      PROVE  StartsWithLine(buffer)
  <2>1. 2 \in CrlfAt(buffer)
    BY <1>1, <1>3 DEF CrlfAt
  <2>2. \A i \in CrlfAt(buffer) : i \in Nat /\ 2 <= i
    BY <1>1, <1>3, ByteAssumption DEF CrlfAt
  <2>3. Min(CrlfAt(buffer)) = 2
    BY <2>1, <2>2 DEF Min
  <2>q. QED BY <1>3, <2>1, <2>3 DEF StartsWithLine
<1>q. QED BY <1>2, <1>3

(* A line and a block, token by token.                                        *)
TokensOf(B, I) == [byte : B, part : Parts, id : I]

Begins(w, i) ==
  /\ w[1] = Token(HEAD, "head", i) /\ w[2] = Token(CR, "line", i) /\ w[3] = Token(LF, "line", i)

LEMMA LineIs ==
  ASSUME NEW B, HEAD \in B, CR \in B, LF \in B, NEW I, NEW i \in I
  PROVE  Line(i) \in Seq(TokensOf(B, I)) /\ Len(Line(i)) = 3 /\ Begins(Line(i), i)
<1>1. /\ Token(HEAD, "head", i) \in TokensOf(B, I) /\ Token(CR, "line", i) \in TokensOf(B, I)
      /\ Token(LF, "line", i) \in TokensOf(B, I)
  BY DEF Token, TokensOf, Parts
<1> DEFINE a == Token(HEAD, "head", i)
           b == Token(CR, "line", i)
           c == Token(LF, "line", i)
<1>2. Line(i) = <<a, b, c>>
  BY DEF Line
<1>3. a \in TokensOf(B, I) /\ b \in TokensOf(B, I) /\ c \in TokensOf(B, I)
  BY <1>1
<1> HIDE DEF a, b, c
<1>4. Line(i) \in Seq(TokensOf(B, I)) /\ Len(Line(i)) = 3 /\ Line(i)[1] = a /\ Line(i)[2] = b /\ Line(i)[3] = c
  BY <1>2, <1>3
<1>q. QED BY <1>4 DEF Begins, a, b, c

LEMMA BlockIs ==
  ASSUME NEW B, CR \in B, LF \in B, NEW I, NEW i \in I, NEW bytes \in Seq(B)
  PROVE  /\ Block(bytes, i) \in Seq(TokensOf(B, I)) /\ Len(Block(bytes, i)) = Len(bytes) + 2
         /\ \A j \in 1..Len(bytes) : Block(bytes, i)[j] = Token(bytes[j], "block", i)
         /\ Block(bytes, i)[Len(bytes) + 1] = Token(CR, "end", i)
         /\ Block(bytes, i)[Len(bytes) + 2] = Token(LF, "end", i)
<1> DEFINE u == [j \in 1..Len(bytes) |-> Token(bytes[j], "block", i)]
           v == <<Token(CR, "end", i), Token(LF, "end", i)>>
<1>1. Len(bytes) \in Nat /\ \A j \in 1..Len(bytes) : bytes[j] \in B
  OBVIOUS
<1>2. \A j \in 1..Len(bytes) : Token(bytes[j], "block", i) \in TokensOf(B, I)
  BY <1>1 DEF Token, TokensOf, Parts
<1>3. Token(CR, "end", i) \in TokensOf(B, I) /\ Token(LF, "end", i) \in TokensOf(B, I)
  BY DEF Token, TokensOf, Parts
<1>4. u \in Seq(TokensOf(B, I)) /\ Len(u) = Len(bytes) /\ \A j \in 1..Len(bytes) : u[j] = Token(bytes[j], "block", i)
  BY <1>1, <1>2
<1>5. v \in Seq(TokensOf(B, I)) /\ Len(v) = 2 /\ v[1] = Token(CR, "end", i) /\ v[2] = Token(LF, "end", i)
  BY <1>3
<1>6. Block(bytes, i) = u \o v
  BY DEF Block
<1> HIDE DEF u, v
<1>7. u \o v \in Seq(TokensOf(B, I)) /\ Joins(u \o v, u, v)
  BY <1>4, <1>5, Appended, Zenon
<1>8. (u \o v)[Len(u) + 1] = v[1] /\ (u \o v)[Len(u) + 2] = v[2]
  BY <1>5, <1>7 DEF Joins
<1>q. QED BY <1>4, <1>5, <1>6, <1>7, <1>8 DEF Joins

-----------------------------------------------------------------------------
(* a connection of the server                                                  *)

Bytes == {HEAD, CR, LF} \cup UNION {UNION {Range(s[i]) : i \in DOMAIN s} : s \in Scripts}
Tokens == TokensOf(Bytes, Nat)

Wires == [i \in DOMAIN script |-> Wire(i)]
Sent == FlattenSeq(Wires)
At == CHOOSE at : Layout(Sent, at, Wires, Len(script))

(* How much of what is sent has arrived, and how much the handler has done.   *)
Arrived == Len(Sent) - Len(stream)
Done == Arrived - Len(cachedBuffer)

ServerTypes ==
  /\ script \in Scripts
  /\ stream \in Seq(Tokens) /\ cachedBuffer \in Seq(Tokens) /\ value \in Seq(Bytes)
  /\ executed \in Seq([id : Nat, block : Seq(Bytes)])
  /\ crashed \in BOOLEAN /\ harmed \in BOOLEAN

(* What is under way and what is in the buffer are the end of what is sent.   *)
Undone ==
  /\ Done \in Nat
  /\ \A i \in 1..Len(stream) : stream[i] = Sent[Arrived + i]
  /\ \A i \in 1..Len(cachedBuffer) : cachedBuffer[i] = Sent[Done + i]

(* All that is executed is done, but for the line end of the last block, which *)
(* only harm leaves behind; an awaited command is done as far as its value is. *)
Caught ==
  LET e == Len(executed)
  IN  IF commandInfo = 0
      THEN /\ value = <<>>
           /\ \/ Done = At[e + 1]
              \/ e # 0 /\ script[e] # NoBlock /\ Done \in {At[e + 1] - 2, At[e + 1] - 1} /\ harmed
      ELSE /\ commandInfo = e + 1 /\ e + 1 \in DOMAIN script /\ script[e + 1] # NoBlock
           /\ Len(value) < Len(script[e + 1])
           /\ \A i \in 1..Len(value) : value[i] = script[e + 1][i]
           /\ Done = At[e + 1] + 3 + Len(value)

Unharmed ==
  ~harmed => /\ stream # <<>> => stream[1].part \in {"head", "block"}
             /\ \A i \in DOMAIN script : script[i] # <<>>

ServerInv == ServerTypes /\ Undone /\ ExecutedAsSent /\ Caught /\ Unharmed /\ CrashOnlyIfHarmed

LEMMA ScriptsAre ==
  ASSUME NEW s \in Scripts
  PROVE  /\ s \in Seq(Seq(Bytes)) /\ DOMAIN s = 1..Len(s) /\ Len(s) \in Nat
         /\ \A i \in 1..Len(s) : s[i] \in Seq(Bytes) /\ Len(s[i]) \in Nat
<1>1. s \in Seq(Range(s)) /\ DOMAIN s = 1..Len(s) /\ Len(s) \in Nat
  BY ScriptAssumption
<1>2. ASSUME NEW i \in 1..Len(s) PROVE s[i] \in Seq(Bytes)
  <2>1. s[i] \in Seq(Range(s[i]))
    BY <1>1, ScriptAssumption
  <2>2. Range(s[i]) \subseteq Bytes
    BY <1>1 DEF Bytes
  <2>3. /\ s[i] = [k \in 1..Len(s[i]) |-> s[i][k]] /\ Len(s[i]) \in Nat
        /\ \A k \in 1..Len(s[i]) : s[i][k] \in Range(s[i])
    BY <2>1
  <2>q. QED BY <2>2, <2>3
<1>3. s = [i \in 1..Len(s) |-> s[i]]
  BY <1>1
<1>q. QED BY <1>1, <1>2, <1>3

LEMMA WireIs ==
  ASSUME script \in Scripts, NEW i \in DOMAIN script
  PROVE  /\ Wire(i) \in Seq(Tokens) /\ Begins(Wire(i), i)
         /\ script[i] = NoBlock => Len(Wire(i)) = 3
         /\ script[i] # NoBlock =>
              /\ Len(Wire(i)) = Len(script[i]) + 5
              /\ \A j \in 1..Len(script[i]) : Wire(i)[3 + j] = Token(script[i][j], "block", i)
              /\ Wire(i)[3 + (Len(script[i]) + 1)] = Token(CR, "end", i)
              /\ Wire(i)[3 + (Len(script[i]) + 2)] = Token(LF, "end", i)
<1>1. i \in Nat /\ script[i] \in Seq(Bytes) /\ Len(script[i]) \in Nat
  BY ScriptsAre
<1>b. HEAD \in Bytes /\ CR \in Bytes /\ LF \in Bytes
  BY DEF Bytes
<1>2. CASE script[i] = NoBlock
  BY <1>1, <1>2, <1>b, LineIs DEF Wire, Tokens
<1>3. CASE script[i] # NoBlock
  <2> DEFINE u == Line(i)
             v == Block(script[i], i)
  <2>1. u \in Seq(Tokens) /\ Len(u) = 3 /\ Begins(u, i)
    BY <1>1, <1>b, LineIs DEF Tokens
  <2>2. /\ v \in Seq(Tokens) /\ Len(v) = Len(script[i]) + 2
        /\ \A j \in 1..Len(script[i]) : v[j] = Token(script[i][j], "block", i)
        /\ v[Len(script[i]) + 1] = Token(CR, "end", i)
        /\ v[Len(script[i]) + 2] = Token(LF, "end", i)
    BY <1>1, <1>b, BlockIs DEF Tokens
  <2>3. Wire(i) = u \o v
    BY <1>3 DEF Wire
  <2> HIDE DEF u, v
  <2>3a. u \o v \in Seq(Tokens) /\ Joins(u \o v, u, v)
    BY <2>1, <2>2, Appended, Zenon
  <2>4. /\ u \o v \in Seq(Tokens) /\ Len(u \o v) = Len(u) + Len(v)
        /\ \A j \in 1..Len(u) : (u \o v)[j] = u[j]
        /\ \A j \in 1..Len(v) : (u \o v)[Len(u) + j] = v[j]
    BY <2>3a DEF Joins
  <2>5. Begins(u \o v, i)
    BY <2>1, <2>4 DEF Begins
  <2>6. \A j \in 1..Len(script[i]) + 2 : (u \o v)[3 + j] = v[j]
    BY <2>1, <2>2, <2>4
  <2>7. /\ Len(u \o v) = Len(script[i]) + 5
        /\ \A j \in 1..Len(script[i]) : (u \o v)[3 + j] = Token(script[i][j], "block", i)
        /\ (u \o v)[3 + (Len(script[i]) + 1)] = Token(CR, "end", i)
        /\ (u \o v)[3 + (Len(script[i]) + 2)] = Token(LF, "end", i)
    BY <1>1, <2>1, <2>2, <2>4, <2>6
  <2>q. QED BY <1>3, <2>3, <2>4, <2>5, <2>7
<1>q. QED BY <1>2, <1>3

LEMMA ScriptStays ==
  ASSUME script' = script
  PROVE  Wires' = Wires /\ Sent' = Sent /\ At' = At
<1>1. Wires' = Wires
  BY DEF Wires, Wire
<1>q. QED BY <1>1 DEF Sent, At

(* What is sent, message by message.                                          *)
LEMMA SentIs ==
  ASSUME script \in Scripts
  PROVE  /\ Sent \in Seq(Tokens) /\ Len(Sent) \in Nat
         /\ At \in [1..Len(script) + 1 -> 0..Len(Sent)] /\ At[1] = 0 /\ At[Len(script) + 1] = Len(Sent)
         /\ \A i \in 1..Len(script) :
              /\ Sent[At[i] + 1] = Token(HEAD, "head", i)
              /\ Sent[At[i] + 2] = Token(CR, "line", i)
              /\ Sent[At[i] + 3] = Token(LF, "line", i)
              /\ script[i] = NoBlock => At[i + 1] = At[i] + 3
              /\ script[i] # NoBlock =>
                   /\ At[i + 1] = At[i] + (Len(script[i]) + 5)
                   /\ \A j \in 1..Len(script[i]) : Sent[At[i] + (3 + j)] = Token(script[i][j], "block", i)
                   /\ Sent[At[i] + (3 + (Len(script[i]) + 1))] = Token(CR, "end", i)
                   /\ Sent[At[i] + (3 + (Len(script[i]) + 2))] = Token(LF, "end", i)
<1>1. /\ DOMAIN script = 1..Len(script) /\ Len(script) \in Nat
      /\ \A i \in 1..Len(script) : Len(script[i]) \in Nat
  BY ScriptsAre
<1>2. Wires \in Seq(Seq(Tokens)) /\ Len(Wires) = Len(script) /\ \A i \in 1..Len(script) : Wires[i] = Wire(i)
  <2>1. \A i \in 1..Len(script) : Wire(i) \in Seq(Tokens)
    BY <1>1, WireIs
  <2>2. Wires = [i \in 1..Len(script) |-> Wire(i)]
    BY <1>1 DEF Wires
  <2>q. QED BY <1>1, <2>1, <2>2
<1>3. Sent \in Seq(Tokens) /\ Layout(Sent, At, Wires, Len(script))
  <2>1. FlattenSeq(Wires) \in Seq(Tokens) /\ \E at : Layout(FlattenSeq(Wires), at, Wires, Len(Wires))
    BY <1>2, FlattenLayout
  <2>q. QED BY <1>2, <2>1 DEF Sent, At
<1>4. /\ At \in [1..Len(script) + 1 -> 0..Len(Sent)] /\ At[1] = 0 /\ At[Len(script) + 1] = Len(Sent)
      /\ \A i \in 1..Len(script) : /\ At[i + 1] = At[i] + Len(Wire(i))
                                   /\ \A j \in 1..Len(Wire(i)) : Sent[At[i] + j] = Wire(i)[j]
  BY <1>2, <1>3 DEF Layout
<1>5. ASSUME NEW i \in 1..Len(script)
      PROVE  /\ Sent[At[i] + 1] = Token(HEAD, "head", i)
             /\ Sent[At[i] + 2] = Token(CR, "line", i)
             /\ Sent[At[i] + 3] = Token(LF, "line", i)
             /\ script[i] = NoBlock => At[i + 1] = At[i] + 3
             /\ script[i] # NoBlock =>
                   /\ At[i + 1] = At[i] + (Len(script[i]) + 5)
                   /\ \A j \in 1..Len(script[i]) : Sent[At[i] + (3 + j)] = Token(script[i][j], "block", i)
                   /\ Sent[At[i] + (3 + (Len(script[i]) + 1))] = Token(CR, "end", i)
                   /\ Sent[At[i] + (3 + (Len(script[i]) + 2))] = Token(LF, "end", i)
  <2>1. /\ Begins(Wire(i), i)
        /\ script[i] = NoBlock => Len(Wire(i)) = 3
        /\ script[i] # NoBlock =>
             /\ Len(Wire(i)) = Len(script[i]) + 5
             /\ \A j \in 1..Len(script[i]) : Wire(i)[3 + j] = Token(script[i][j], "block", i)
             /\ Wire(i)[3 + (Len(script[i]) + 1)] = Token(CR, "end", i)
             /\ Wire(i)[3 + (Len(script[i]) + 2)] = Token(LF, "end", i)
    BY <1>1, WireIs
  <2>2. Len(Wire(i)) >= 3 /\ Len(Wire(i)) \in Nat
    <3>1. Len(Wire(i)) = 3 \/ Len(Wire(i)) = Len(script[i]) + 5
      BY <2>1
    <3>2. \A n : n = 3 => n >= 3 /\ n \in Nat
      OBVIOUS
    <3>3. \A n, m : m \in Nat /\ n = m + 5 => n >= 3 /\ n \in Nat
      OBVIOUS
    <3>4. Len(script[i]) \in Nat
      BY <1>1
    <3>q. QED BY <3>1, <3>2, <3>3, <3>4, Zenon
  <2>3. \A j \in 1..Len(Wire(i)) : Sent[At[i] + j] = Wire(i)[j]
    BY <1>4
  <2>4. 1 \in 1..Len(Wire(i)) /\ 2 \in 1..Len(Wire(i)) /\ 3 \in 1..Len(Wire(i))
    BY <2>2
  <2>5. script[i] # NoBlock => \A j \in 1..Len(script[i]) + 2 : 3 + j \in 1..Len(Wire(i))
    BY <1>1, <2>1
  <2>6. script[i] # NoBlock => /\ Len(script[i]) + 1 \in 1..Len(script[i]) + 2
                               /\ Len(script[i]) + 2 \in 1..Len(script[i]) + 2
                               /\ \A j \in 1..Len(script[i]) : j \in 1..Len(script[i]) + 2
    BY <1>1
  <2>q. QED BY <1>4, <2>1, <2>3, <2>4, <2>5, <2>6 DEF Begins
<1>q. QED BY <1>3, <1>4, <1>5

LEMMA ServerInitInv == ServerInit => ServerInv
<1> SUFFICES ASSUME ServerInit PROVE ServerInv
  OBVIOUS
<1>1. /\ script \in Scripts /\ stream = Sent /\ cachedBuffer = <<>> /\ commandInfo = 0 /\ value = <<>>
      /\ executed = <<>> /\ crashed = FALSE
  BY DEF ServerInit, Sent, Wires
<1>h. harmed \in BOOLEAN /\ (~harmed => \A i \in DOMAIN script : script[i] # <<>>)
  BY DEF ServerInit
<1>2. /\ Sent \in Seq(Tokens) /\ Len(Sent) \in Nat /\ Len(script) \in Nat
      /\ At[1] = 0 /\ At[Len(script) + 1] = Len(Sent)
      /\ \A i \in 1..Len(script) : Sent[At[i] + 1] = Token(HEAD, "head", i)
  BY <1>1, SentIs, ScriptsAre
<1>3. Arrived = 0 /\ Done = 0
  <2>1. stream = Sent /\ Len(cachedBuffer) = 0 /\ Len(Sent) \in Nat
    BY <1>1, <1>2
  <2>q. QED BY <2>1 DEF Arrived, Done
<1>4. ServerTypes
  <2>1. stream \in Seq(Tokens) /\ script \in Scripts /\ crashed \in BOOLEAN
    BY <1>1, <1>2
  <2>2. cachedBuffer \in Seq(Tokens) /\ value \in Seq(Bytes)
        /\ executed \in Seq([id : Nat, block : Seq(Bytes)])
    BY <1>1, EmptySeq
  <2>q. QED BY <1>h, <2>1, <2>2 DEF ServerTypes
<1>5. Undone
  BY <1>1, <1>2, <1>3 DEF Undone
<1>6. ExecutedAsSent
  BY <1>1, <1>2 DEF ExecutedAsSent
<1>7. Caught
  BY <1>1, <1>2, <1>3 DEF Caught
<1>8. Unharmed
  <2>1. stream # <<>> => stream[1].part = "head"
    <3>1. Len(script) = 0 => stream = <<>>
      BY <1>1, <1>2
    <3>2. Len(script) # 0 => Sent[1] = Token(HEAD, "head", 1)
      BY <1>2
    <3>q. QED BY <1>1, <1>2, <3>1, <3>2 DEF Token
  <2>q. QED BY <1>h, <2>1 DEF Unharmed
<1>q. QED BY <1>1, <1>4, <1>5, <1>6, <1>7, <1>8 DEF ServerInv, CrashOnlyIfHarmed

LEMMA ReceiveChunkKeeps ==
  ASSUME ServerInv, NEW n \in 1..Len(stream), ReceiveChunk(n)
  PROVE  ServerInv'
<1>1. /\ ~crashed /\ cachedBuffer = <<>> /\ stream \in Seq(Tokens) /\ script \in Scripts
      /\ cachedBuffer' = SubSeq(stream, 1, n) /\ stream' = SubSeq(stream, n + 1, Len(stream))
      /\ harmed' = (harmed \/ ~HarmlessCut(stream, n))
      /\ UNCHANGED <<script, commandInfo, value, executed, crashed>>
  BY DEF ReceiveChunk, ServerInv, ServerTypes
<1>2. Len(stream) \in Nat /\ n \in 0..Len(stream)
  BY <1>1
<1>3. /\ cachedBuffer' \in Seq(Tokens) /\ Len(cachedBuffer') = n
      /\ \A i \in 1..n : cachedBuffer'[i] = stream[i]
  <2>1. LET s == SubSeq(stream, 1, n)
        IN  s \in Seq(Tokens) /\ Len(s) = n /\ \A i \in 1..n : s[i] = stream[i]
    BY <1>1, <1>2, PrefixOf, Zenon
  <2>q. QED BY <1>1, <2>1, Zenon
<1>4. /\ stream' \in Seq(Tokens) /\ Len(stream') = Len(stream) - n
      /\ \A i \in 1..Len(stream) - n : stream'[i] = stream[n + i]
  <2>1. LET s == SubSeq(stream, n + 1, Len(stream))
        IN  /\ s \in Seq(Tokens) /\ Len(s) = Len(stream) - n
            /\ \A i \in 1..Len(stream) - n : s[i] = stream[n + i]
    BY <1>1, <1>2, SuffixOf, Zenon
  <2>q. QED BY <1>1, <2>1, Zenon
<1>5. Sent' = Sent /\ At' = At /\ Len(Sent) \in Nat
  BY <1>1, ScriptStays, SentIs
<1>6. Arrived' = Arrived + n /\ Arrived \in Int /\ Done = Arrived /\ Done' = Done
  <2>1. /\ Len(cachedBuffer) = 0 /\ Len(cachedBuffer') = n /\ Len(stream') = Len(stream) - n
        /\ Len(stream) \in Nat /\ n \in Nat /\ Len(Sent) \in Nat
    BY <1>1, <1>2, <1>3, <1>4, <1>5
  <2>2. Arrived' = Len(Sent) - Len(stream') /\ Done' = Arrived' - Len(cachedBuffer')
    BY <1>5 DEF Arrived, Done
  <2>q. QED BY <2>1, <2>2 DEF Arrived, Done
<1>7. ServerTypes'
  BY <1>1, <1>3, <1>4 DEF ServerInv, ServerTypes
<1>8. Undone'
  <2>1. \A i \in 1..Len(stream) : stream[i] = Sent[Arrived + i]
    BY DEF ServerInv, Undone
  <2>2. ASSUME NEW i \in 1..Len(stream') PROVE stream'[i] = Sent[Arrived' + i]
    <3>1. n + i \in 1..Len(stream) /\ Arrived + (n + i) = Arrived' + i
      BY <1>2, <1>4, <1>6
    <3>q. QED BY <1>4, <2>1, <3>1
  <2>3. \A i \in 1..Len(cachedBuffer') : cachedBuffer'[i] = Sent[Done' + i]
    BY <1>2, <1>3, <1>6, <2>1
  <2>q. QED BY <1>5, <1>6, <2>2, <2>3 DEF ServerInv, Undone
<1>9. ExecutedAsSent'
  BY <1>1 DEF ServerInv, ExecutedAsSent, BlockOf
<1>10. Caught'
  BY <1>1, <1>5, <1>6 DEF ServerInv, Caught
<1>11. Unharmed'
  <2>1. stream' # <<>> => n < Len(stream) /\ stream'[1] = stream[n + 1]
    BY <1>2, <1>4
  <2>q. QED BY <1>1, <2>1 DEF ServerInv, Unharmed, HarmlessCut
<1>q. QED BY <1>1, <1>7, <1>8, <1>9, <1>10, <1>11 DEF ServerInv, CrashOnlyIfHarmed

(* Command i awaits its block: v is what it has, b the buffer that has come.  *)
BlockAwaited(i, v, b) ==
  /\ i = Len(executed) + 1 /\ i \in 1..Len(script) /\ script[i] # NoBlock
  /\ v \in Seq(Bytes) /\ Len(v) < Len(script[i]) /\ \A k \in 1..Len(v) : v[k] = script[i][k]
  /\ b \in Seq(Tokens) /\ At[i] + 3 + Len(v) + Len(b) = Arrived
  /\ \A k \in 1..Len(b) : b[k] = Sent[At[i] + 3 + Len(v) + k]

(* However much of a block the buffer has, what it had before and what is     *)
(* taken now is a beginning of the block.                                     *)
LEMMA BlockStep ==
  ASSUME ServerInv, ~crashed, NEW i, NEW v, NEW b, BlockAwaited(i, v, b),
         ContinueCommand(i, TakeBlock(v, BytesOfCommand(i), b)),
         UNCHANGED <<script, stream, crashed, harmed>>
  PROVE  ServerInv'
<1> DEFINE L == Len(script[i])
           taken == TakeBlock(v, L, b)
           n == Had(v, L, b)
           d == EndBehind(b, n)
<1>0. /\ script \in Scripts /\ i \in Nat /\ script[i] \in Seq(Bytes) /\ L \in Nat
      /\ Len(script) \in Nat /\ executed \in Seq([id : Nat, block : Seq(Bytes)])
      /\ DOMAIN script = 1..Len(script) /\ Len(executed) \in Nat
      /\ stream \in Seq(Tokens) /\ Len(stream) \in Nat
      /\ i = Len(executed) + 1 /\ i \in 1..Len(script) /\ script[i] # NoBlock
  BY ScriptsAre DEF ServerInv, ServerTypes, BlockAwaited
<1>t. v \in Seq(Bytes) /\ b \in Seq(Tokens)
  BY DEF BlockAwaited
<1>1. /\ Len(v) < L
      /\ Len(v) \in Nat /\ Len(b) \in Nat /\ BytesOfCommand(i) = L
      /\ At[i] + 3 + Len(v) + Len(b) = Arrived
  BY DEF BytesOfCommand, BlockAwaited
<1>b. \A k \in 1..Len(b) : b[k] = Sent[At[i] + 3 + Len(v) + k]
  BY DEF BlockAwaited
<1>v. \A k \in 1..Len(v) : v[k] = script[i][k]
  BY DEF BlockAwaited
<1>j. L \in Nat /\ Len(v) <= L
  BY <1>0, <1>1
<1>2. /\ n \in 0..Len(b)
      /\ taken.value \in Seq(Bytes) /\ Len(taken.value) = Len(v) + n
      /\ \A k \in 1..Len(v) : taken.value[k] = v[k]
      /\ \A k \in 1..n : taken.value[Len(v) + k] = b[k].byte
      /\ taken.rest \in Seq(Tokens) /\ RestOf(taken.rest, b, n + d)
  <2>1. \A t \in Tokens : t.byte \in Bytes
    BY DEF Tokens, TokensOf
  <2>q. QED BY <1>t, <1>1, <1>j, <2>1, TakeBlockTakes
<1>3. n = IF L - Len(v) <= Len(b) THEN L - Len(v) ELSE Len(b)
  BY DEF Had
<1>i. i \in Nat /\ Len(script) \in Nat /\ i \in 1..Len(script) /\ L \in Nat
  BY <1>0
<1>4. /\ Len(Sent) \in Nat /\ At \in [1..Len(script) + 1 -> 0..Len(Sent)]
      /\ At[i + 1] = At[i] + (L + 5)
      /\ \A k \in 1..L : Sent[At[i] + (3 + k)] = Token(script[i][k], "block", i)
      /\ Sent[At[i] + (3 + (L + 1))] = Token(CR, "end", i)
      /\ Sent[At[i] + (3 + (L + 2))] = Token(LF, "end", i)
  BY <1>0, SentIs
<1>5. At[i] \in Nat /\ At[i + 1] \in 0..Len(Sent)
  <2>1. At \in [1..Len(script) + 1 -> 0..Len(Sent)] /\ Len(Sent) \in Nat
    BY <1>4
  <2>q. QED BY <1>i, <2>1
<1>6. cachedBuffer' = taken.rest
      /\ IF Len(taken.value) = L
         THEN executed' = Append(executed, [id |-> i, block |-> taken.value]) /\ commandInfo' = 0 /\ value' = <<>>
         ELSE commandInfo' = i /\ value' = taken.value /\ executed' = executed
  BY <1>1 DEF ContinueCommand
<1> HIDE DEF taken, n, L
<1>7. \A k \in 1..Len(v) + n : taken.value[k] = script[i][k]
  <2>1. ASSUME NEW k \in 1..n PROVE b[k].byte = script[i][Len(v) + k]
    <3>1. Len(v) \in Nat /\ Len(b) \in Nat /\ L \in Nat /\ n \in 0..Len(b) /\ n <= L - Len(v) /\ At[i] \in Nat
      <4>1. n \in 0..Len(b) /\ Len(v) \in Nat /\ Len(b) \in Nat /\ L \in Nat
        BY <1>1, <1>2, <1>i
      <4>q. QED BY <1>3, <1>5, <4>1
    <3>2. k \in 1..Len(b) /\ Len(v) + k \in 1..L /\ At[i] + 3 + Len(v) + k = At[i] + (3 + (Len(v) + k))
      BY <3>1
    <3>3. b[k] = Sent[At[i] + (3 + (Len(v) + k))]
      BY <1>b, <3>2
    <3>4. \A m \in 1..L : Sent[At[i] + (3 + m)] = Token(script[i][m], "block", i)
      BY <1>4
    <3>5. b[k] = Token(script[i][Len(v) + k], "block", i)
      BY <3>2, <3>3, <3>4
    <3>q. QED BY <3>5 DEF Token
  <2>2. ASSUME NEW k \in 1..Len(v) + n PROVE k \in 1..Len(v) \/ \E m \in 1..n : k = Len(v) + m
    <3>1. k \in 1..Len(v) \/ (k - Len(v) \in 1..n /\ k = Len(v) + (k - Len(v)))
      BY <1>1, <1>2
    <3>q. QED BY <3>1
  <2>3. ASSUME NEW k \in 1..Len(v) + n PROVE taken.value[k] = script[i][k]
    <3>1. CASE k \in 1..Len(v)
      BY <1>2, <1>v, <3>1
    <3>2. CASE \E m \in 1..n : k = Len(v) + m
      BY <1>2, <2>1, <3>2
    <3>q. QED BY <2>2, <3>1, <3>2
  <2>q. QED BY <2>3
<1>8. n + d \in 0..Len(b) /\ Len(taken.rest) = Len(b) - (n + d)
      /\ \A k \in 1..Len(b) - (n + d) : taken.rest[k] = b[n + d + k]
  BY <1>2 DEF RestOf
<1>9. Sent' = Sent /\ At' = At /\ Arrived' = Arrived /\ Arrived = Len(Sent) - Len(stream)
  BY <1>0, ScriptStays DEF Arrived
<1>10. d \in {0, 1, 2}
  BY DEF EndBehind, CrBehind, LfBehind
<1>c. L \in Nat /\ At[i] \in Nat /\ At[i + 1] = At[i] + (L + 5) /\ At[i + 1] <= Len(Sent) /\ Len(Sent) \in Nat
  BY <1>i, <1>4, <1>5
<1> DEFINE pos == At[i] + 3 + Len(v) + (n + d)
<1> HIDE DEF d
<1>11. Done' = pos /\ pos \in Nat
  <2>1. /\ cachedBuffer' = taken.rest /\ Len(taken.rest) = Len(b) - (n + d) /\ Arrived' = Arrived
        /\ At[i] \in Nat /\ Len(v) \in Nat /\ Len(b) \in Nat /\ n \in Nat /\ d \in Nat
        /\ At[i] + 3 + Len(v) + Len(b) = Arrived
    BY <1>1, <1>2, <1>5, <1>6, <1>8, <1>9, <1>10
  <2>q. QED BY <2>1 DEF Done
<1>N. /\ L \in Nat /\ At[i] \in Nat /\ At[i + 1] = At[i] + (L + 5) /\ At[i + 1] <= Len(Sent)
      /\ Len(Sent) \in Nat /\ Len(v) \in Nat /\ Len(b) \in Nat /\ n \in 0..Len(b) /\ d \in {0, 1, 2}
      /\ n + d \in 0..Len(b) /\ At[i] + 3 + Len(v) + Len(b) = Arrived /\ Len(v) < L
      /\ Done' = pos /\ Arrived = Len(Sent) - Len(stream) /\ Len(stream) \in Nat
  BY <1>0, <1>1, <1>2, <1>c, <1>8, <1>9, <1>10, <1>11
<1>12. Undone'
  <2>1. ASSUME NEW k \in 1..Len(taken.rest) PROVE taken.rest[k] = Sent[pos + k]
    <3>1. n + d + k \in 1..Len(b) /\ k \in 1..Len(b) - (n + d)
          /\ At[i] + 3 + Len(v) + (n + d + k) = pos + k
      <4>1. Len(taken.rest) = Len(b) - (n + d)
        BY <1>8
      <4>2. n + d \in Nat /\ n + d <= Len(b) /\ Len(b) \in Nat /\ k \in 1..Len(b) - (n + d)
        BY <1>N, <4>1
      <4>3. n + d + k \in 1..Len(b)
        BY <4>2
      <4>4. /\ At[i] \in Int /\ Len(v) \in Int /\ n \in Int /\ d \in Int /\ k \in Int
            /\ pos = At[i] + 3 + Len(v) + (n + d)
        BY <1>N, <4>2
      <4>q. QED BY <4>2, <4>3, <4>4
    <3>q. QED BY <1>8, <1>b, <3>1
  <2>q. QED BY <1>6, <1>9, <1>11, <2>1 DEF ServerInv, Undone
<1>13. Unharmed' /\ CrashOnlyIfHarmed'
  BY DEF ServerInv, Unharmed, CrashOnlyIfHarmed
<1>14. CASE Len(v) + n = L
  <2>1. taken.value = script[i]
    <3>1. taken.value = [k \in 1..Len(taken.value) |-> taken.value[k]]
          /\ script[i] = [k \in 1..L |-> script[i][k]]
      BY <1>0, <1>2 DEF L
    <3>q. QED BY <1>2, <1>7, <1>14, <3>1
  <2>2. /\ executed' = Append(executed, [id |-> i, block |-> script[i]])
        /\ commandInfo' = 0 /\ value' = <<>>
    BY <1>2, <1>6, <1>14, <2>1
  <2>3. /\ executed' \in Seq([id : Nat, block : Seq(Bytes)]) /\ Len(executed') = i
        /\ \A j \in 1..i : executed'[j] = IF j = i THEN [id |-> i, block |-> script[i]] ELSE executed[j]
    BY <1>0, <2>2
  <2>4. ServerTypes'
    BY <1>2, <1>6, <2>2, <2>3 DEF ServerInv, ServerTypes
  <2>5. ExecutedAsSent'
    <3>1. Len(executed) <= Len(script) /\ \A j \in 1..Len(executed) : executed[j] = [id |-> j, block |-> BlockOf(j)]
      BY <1>0 DEF ServerInv, ExecutedAsSent
    <3>2. BlockOf(i) = script[i] /\ \A j : BlockOf(j)' = BlockOf(j)
      BY <1>0 DEF BlockOf
    <3>3. \A j \in 1..i : j = i \/ j \in 1..Len(executed)
      BY <1>0
    <3>4. \A j \in 1..i : executed'[j] = [id |-> j, block |-> BlockOf(j)']
      BY <2>3, <3>1, <3>2, <3>3
    <3>5. DOMAIN executed' = 1..i /\ Len(executed') <= Len(script)'
      BY <1>0, <2>3
    <3>q. QED BY <3>4, <3>5 DEF ExecutedAsSent
  <2>n. n \in 0..Len(b) /\ Len(b) \in Nat /\ At[i] \in Nat /\ Len(v) \in Nat /\ L \in Nat /\ L = Len(v) + n
    BY <1>N, <1>14
  <2>6. /\ n < Len(b) => b[n + 1] = Token(CR, "end", i)
        /\ n + 1 < Len(b) => b[n + 2] = Token(LF, "end", i)
    <3>1. n < Len(b) => n + 1 \in 1..Len(b) /\ At[i] + 3 + Len(v) + (n + 1) = At[i] + (3 + (L + 1))
      BY <2>n
    <3>2. n + 1 < Len(b) => n + 2 \in 1..Len(b) /\ At[i] + 3 + Len(v) + (n + 2) = At[i] + (3 + (L + 2))
      BY <2>n
    <3>q. QED BY <1>4, <1>b, <3>1, <3>2
  <2>7. d = IF Len(b) - n >= 2 THEN 2 ELSE Len(b) - n
    <3>1. CASE Len(b) = n
      BY <1>1, <1>2, <3>1 DEF d, EndBehind, CrBehind, LfBehind
    <3>2. CASE Len(b) = n + 1
      <4>1. CrBehind(b, n) = 1
        BY <1>1, <1>2, <2>6, <3>2 DEF CrBehind, Token
      <4>2. LfBehind(b, n + 1) = 0
        BY <1>1, <1>2, <3>2 DEF LfBehind
      <4>q. QED BY <1>1, <1>2, <3>2, <4>1, <4>2 DEF d, EndBehind
    <3>3. CASE Len(b) > n + 1
      <4>1. CrBehind(b, n) = 1
        BY <1>1, <1>2, <2>6, <3>3 DEF CrBehind, Token
      <4>2. LfBehind(b, n + 1) = 1
        <5>1. n + 1 < Len(b) /\ b[(n + 1) + 1].byte = LF
          BY <1>1, <1>2, <2>6, <3>3 DEF Token
        <5>q. QED BY <5>1 DEF LfBehind
      <4>q. QED BY <1>1, <1>2, <3>3, <4>1, <4>2 DEF d, EndBehind
    <3>q. QED BY <1>1, <1>2, <3>1, <3>2, <3>3
  <2>8. Done' = At[i + 1] - 2 + d
    <3>1. d \in {0, 1, 2} /\ Done' = At[i] + 3 + Len(v) + (n + d) /\ At[i + 1] = At[i] + (L + 5)
      BY <1>N
    <3>q. QED BY <2>n, <3>1
  <2>9. ASSUME d # 2 PROVE harmed
    <3>1. Len(b) = n + d /\ d \in {0, 1}
      BY <1>1, <1>2, <1>10, <2>7, <2>9
    <3>2. Arrived = At[i] + (3 + L) + d
      <4>1. At[i] + 3 + Len(v) + Len(b) = Arrived
        BY <1>N
      <4>q. QED BY <2>n, <3>1, <4>1
    <3>3. Len(stream) # 0
      <4>1. /\ Arrived = Len(Sent) - Len(stream) /\ Len(stream) \in Nat /\ Len(Sent) \in Nat
            /\ At[i] + (L + 5) <= Len(Sent)
        BY <1>N
      <4>q. QED BY <2>n, <3>1, <3>2, <4>1
    <3>4. stream # <<>> /\ stream[1] = Sent[Arrived + 1]
      BY <1>0, <3>3 DEF ServerInv, Undone
    <3>5. Arrived + 1 = At[i] + (3 + (L + 1)) \/ Arrived + 1 = At[i] + (3 + (L + 2))
      <4>1. Arrived = At[i] + (3 + L) + d /\ At[i] \in Nat /\ L \in Nat
        BY <2>n, <3>2
      <4>2. CASE d = 0
        BY <4>1, <4>2
      <4>3. CASE d = 1
        BY <4>1, <4>3
      <4>q. QED BY <3>1, <4>2, <4>3
    <3>6. stream[1].part = "end"
      BY <1>4, <3>4, <3>5 DEF Token
    <3>q. QED BY <3>4, <3>6 DEF ServerInv, Unharmed
  <2>10. Caught'
    <3>1. Done' = At[i + 1] \/ (Done' \in {At[i + 1] - 2, At[i + 1] - 1} /\ harmed)
      <4>1. At[i + 1] \in Int
        BY <1>5
      <4>2. CASE d = 2
        <5>1. Done' = At[i + 1]
          BY <2>8, <4>1, <4>2
        <5>q. QED BY <5>1
      <4>3. CASE d = 1
        <5>1. Done' = At[i + 1] - 1
          BY <2>8, <4>1, <4>3
        <5>q. QED BY <2>9, <4>3, <5>1
      <4>4. CASE d = 0
        <5>1. Done' = At[i + 1] - 2
          BY <2>8, <4>1, <4>4
        <5>q. QED BY <2>9, <4>4, <5>1
      <4>q. QED BY <1>10, <4>2, <4>3, <4>4
    <3>q. QED BY <1>0, <1>9, <2>2, <2>3, <3>1 DEF Caught
  <2>q. QED BY <1>12, <1>13, <2>4, <2>5, <2>10 DEF ServerInv
<1>15. CASE Len(v) + n # L
  <2>1. n = Len(b) /\ Len(v) + n < L
    BY <1>0, <1>1, <1>2, <1>3, <1>15 DEF L
  <2>2. d = 0
    BY <1>1, <2>1 DEF d, EndBehind, CrBehind, LfBehind
  <2>3. commandInfo' = i /\ value' = taken.value /\ executed' = executed
    BY <1>2, <1>6, <1>15
  <2>4. ServerTypes'
    BY <1>2, <1>6, <2>3 DEF ServerInv, ServerTypes
  <2>5. ExecutedAsSent'
    BY <2>3 DEF ServerInv, ExecutedAsSent, BlockOf
  <2>6. Done' = At[i] + 3 + Len(value')
    BY <1>1, <1>2, <1>5, <1>11, <2>2, <2>3
  <2>7. Caught'
    <3>1. /\ Len(executed') + 1 = i /\ i \in DOMAIN script' /\ script'[i] # NoBlock
          /\ Len(value') < Len(script'[i]) /\ \A k \in 1..Len(value') : value'[k] = script'[i][k]
      BY <1>0, <1>2, <1>7, <2>1, <2>3 DEF L
    <3>2. commandInfo' # 0 /\ commandInfo' = Len(executed') + 1 /\ Done' = At'[Len(executed') + 1] + 3 + Len(value')
      BY <1>0, <1>9, <2>3, <2>6, <3>1
    <3>q. QED BY <3>1, <3>2 DEF Caught
  <2>q. QED BY <1>12, <1>13, <2>4, <2>5, <2>7 DEF ServerInv
<1>q. QED BY <1>14, <1>15

(* Where no command is awaited the buffer begins with the next command line,  *)
(* or with what harm has left of the last one's line end.                     *)
LEMMA FrontOfBuffer ==
  ASSUME ServerInv, commandInfo = 0, cachedBuffer # <<>>, NEW i, i = Len(executed) + 1
  PROVE  \/ /\ i \in 1..Len(script) /\ Done = At[i] /\ cachedBuffer[1] = Token(HEAD, "head", i)
            /\ Len(cachedBuffer) >= 2 => cachedBuffer[2] = Token(CR, "line", i)
            /\ Len(cachedBuffer) >= 3 => cachedBuffer[3] = Token(LF, "line", i)
         \/ harmed /\ cachedBuffer[1].byte # HEAD
<1>1. /\ script \in Scripts /\ Len(script) \in Nat /\ Len(executed) \in Nat /\ Len(executed) <= Len(script)
      /\ DOMAIN script = 1..Len(script)
  BY ScriptsAre DEF ServerInv, ServerTypes, ExecutedAsSent
<1>2. /\ cachedBuffer \in Seq(Tokens) /\ Len(cachedBuffer) \in Nat /\ Len(cachedBuffer) # 0
      /\ Len(stream) \in Nat
  BY DEF ServerInv, ServerTypes
<1>3. \A k \in 1..Len(cachedBuffer) : cachedBuffer[k] = Sent[Done + k]
  BY DEF ServerInv, Undone
<1>4. cachedBuffer[1] = Sent[Done + 1] /\ Done \in Nat /\ Done + Len(cachedBuffer) + Len(stream) = Len(Sent)
      /\ Len(Sent) \in Nat
  <2>1. cachedBuffer[1] = Sent[Done + 1]
    BY <1>2, <1>3
  <2>2. Len(Sent) \in Nat /\ Done \in Nat
    BY <1>1, SentIs DEF ServerInv, Undone
  <2>q. QED BY <1>2, <2>1, <2>2 DEF Done, Arrived
<1>5. \/ Done = At[i]
      \/ Len(executed) # 0 /\ script[Len(executed)] # NoBlock /\ Done \in {At[i] - 2, At[i] - 1} /\ harmed
  BY DEF ServerInv, Caught
<1>6. CASE Done = At[i]
  <2>1. At[Len(script) + 1] = Len(Sent)
    BY <1>1, SentIs
  <2>2. i # Len(script) + 1
    BY <1>2, <1>4, <1>6, <2>1
  <2>3. i \in 1..Len(script)
    BY <1>1, <2>2
  <2>4. /\ Sent[At[i] + 1] = Token(HEAD, "head", i) /\ Sent[At[i] + 2] = Token(CR, "line", i)
        /\ Sent[At[i] + 3] = Token(LF, "line", i)
    BY <1>1, <2>3, SentIs
  <2>5. /\ Len(cachedBuffer) >= 2 => 2 \in 1..Len(cachedBuffer)
        /\ Len(cachedBuffer) >= 3 => 3 \in 1..Len(cachedBuffer)
    BY <1>2
  <2>q. QED BY <1>3, <1>4, <1>6, <2>3, <2>4, <2>5
<1>7. CASE /\ Len(executed) # 0 /\ script[Len(executed)] # NoBlock
           /\ Done \in {At[i] - 2, At[i] - 1} /\ harmed
  <2> DEFINE e == Len(executed)
             L == Len(script[e])
  <2>1. e \in 1..Len(script) /\ i = e + 1 /\ L \in Nat
    BY <1>1, <1>7, ScriptsAre
  <2>2. /\ At[e + 1] = At[e] + (L + 5)
        /\ Sent[At[e] + (3 + (L + 1))] = Token(CR, "end", e)
        /\ Sent[At[e] + (3 + (L + 2))] = Token(LF, "end", e)
    BY <1>1, <1>7, <2>1, SentIs
  <2>3. At[e] \in Nat
    <3>1. At \in [1..Len(script) + 1 -> 0..Len(Sent)] /\ Len(Sent) \in Nat
      BY <1>1, SentIs
    <3>2. e \in 1..Len(script) + 1
      BY <1>1, <2>1
    <3>q. QED BY <3>1, <3>2
  <2> HIDE DEF L, e
  <2>4. Done \in {At[e + 1] - 2, At[e + 1] - 1}
    BY <1>7, <2>1
  <2>5. Done + 1 = At[e] + (3 + (L + 1)) \/ Done + 1 = At[e] + (3 + (L + 2))
    <3>1. L \in Nat /\ At[e] \in Nat /\ At[e + 1] = At[e] + (L + 5)
      BY <2>1, <2>2, <2>3
    <3>q. QED BY <2>4, <3>1
  <2>6. cachedBuffer[1] = Token(CR, "end", e) \/ cachedBuffer[1] = Token(LF, "end", e)
    BY <1>4, <2>2, <2>5
  <2>7. cachedBuffer[1].byte # HEAD
    BY <2>6, ByteAssumption DEF Token
  <2>q. QED BY <1>7, <2>7
<1>q. QED BY <1>5, <1>6, <1>7

LEMMA ParseThrowsKeeps == ASSUME ServerInv, ParseThrows PROVE ServerInv'
<1>1. /\ commandInfo = 0 /\ cachedBuffer # <<>> /\ ~StartsWithLine(cachedBuffer) /\ crashed' = TRUE
      /\ UNCHANGED <<script, stream, cachedBuffer, commandInfo, value, executed, harmed>>
  BY DEF ParseThrows
<1>2. harmed
  <2> SUFFICES ASSUME ~harmed PROVE FALSE
    BY DEF ServerInv, ServerTypes
  <2> DEFINE i == Len(executed) + 1
  <2>1. /\ i \in 1..Len(script) /\ Done = At[i] /\ cachedBuffer[1] = Token(HEAD, "head", i)
        /\ Len(cachedBuffer) >= 2 => cachedBuffer[2] = Token(CR, "line", i)
        /\ Len(cachedBuffer) >= 3 => cachedBuffer[3] = Token(LF, "line", i)
    BY <1>1, FrontOfBuffer
  <2> HIDE DEF i
  <2>2. cachedBuffer \in Seq(Tokens) /\ Len(cachedBuffer) \in Nat /\ Len(cachedBuffer) # 0 /\ script \in Scripts
        /\ stream \in Seq(Tokens) /\ Len(stream) \in Nat
    BY <1>1 DEF ServerInv, ServerTypes
  <2>3. Len(cachedBuffer) = 1 \/ Len(cachedBuffer) = 2
    <3>1. Len(cachedBuffer) >= 3 => StartsWithLine(cachedBuffer)
      <4>1. Len(cachedBuffer) >= 3 => Len(cachedBuffer) >= 2
        BY <2>2
      <4>2. Len(cachedBuffer) >= 3 => /\ cachedBuffer[1].byte = HEAD /\ cachedBuffer[2].byte = CR
                                      /\ cachedBuffer[3].byte = LF
        BY <2>1, <4>1 DEF Token
      <4>q. QED BY <2>2, <4>2, LineStarts
    <3>2. ~(Len(cachedBuffer) >= 3)
      BY <1>1, <3>1
    <3>3. Len(cachedBuffer) \in Nat /\ Len(cachedBuffer) # 0
      BY <2>2
    <3>4. \A n \in Nat : n # 0 /\ ~(n >= 3) => n = 1 \/ n = 2
      OBVIOUS
    <3>q. QED BY <3>2, <3>3, <3>4, Zenon
  <2>4. At[i] \in Nat /\ At[i + 1] \in Nat /\ At[i + 1] <= Len(Sent) /\ At[i + 1] >= At[i] + 3 /\ Len(Sent) \in Nat
    <3>1. /\ At \in [1..Len(script) + 1 -> 0..Len(Sent)] /\ Len(Sent) \in Nat /\ Len(script) \in Nat
          /\ Len(script[i]) \in Nat
      BY <2>1, <2>2, SentIs, ScriptsAre
    <3>2. At[i] \in 0..Len(Sent) /\ At[i + 1] \in 0..Len(Sent)
      BY <2>1, <3>1
    <3>3. At[i + 1] = At[i] + 3 \/ At[i + 1] = At[i] + (Len(script[i]) + 5)
      BY <2>1, <2>2, SentIs
    <3>q. QED BY <3>1, <3>2, <3>3
  <2>5. Arrived = At[i] + Len(cachedBuffer) /\ Len(stream) = Len(Sent) - Arrived
    <3>1. Done = Arrived - Len(cachedBuffer) /\ Arrived = Len(Sent) - Len(stream) /\ Done = At[i]
      BY <2>1 DEF Done, Arrived
    <3>q. QED BY <2>2, <2>4, <3>1
  <2>6. Len(stream) # 0
    <3>1. Arrived \in Int /\ Arrived < Len(Sent)
      <4>1. /\ At[i] \in Nat /\ At[i + 1] \in Nat /\ At[i + 1] <= Len(Sent) /\ At[i + 1] >= At[i] + 3
            /\ Len(Sent) \in Nat /\ Arrived = At[i] + Len(cachedBuffer)
        BY <2>4, <2>5
      <4>2. CASE Len(cachedBuffer) = 1
        BY <4>1, <4>2
      <4>3. CASE Len(cachedBuffer) = 2
        BY <4>1, <4>3
      <4>q. QED BY <2>3, <4>2, <4>3
    <3>q. QED BY <2>4, <2>5, <3>1
  <2>7. stream # <<>> /\ stream[1] = Sent[Arrived + 1]
    BY <2>2, <2>6 DEF ServerInv, Undone
  <2>8. Arrived + 1 = At[i] + 2 \/ Arrived + 1 = At[i] + 3
    <3>1. Arrived = At[i] + Len(cachedBuffer) /\ At[i] \in Nat
      BY <2>4, <2>5
    <3>2. CASE Len(cachedBuffer) = 1
      BY <3>1, <3>2
    <3>3. CASE Len(cachedBuffer) = 2
      BY <3>1, <3>3
    <3>q. QED BY <2>3, <3>2, <3>3
  <2>9. Sent[At[i] + 2] = Token(CR, "line", i) /\ Sent[At[i] + 3] = Token(LF, "line", i)
    BY <2>1, <2>2, SentIs
  <2>10. stream[1].part = "line"
    BY <2>7, <2>8, <2>9 DEF Token
  <2>q. QED BY <2>7, <2>10 DEF ServerInv, Unharmed
<1>3. Sent' = Sent /\ At' = At
  BY <1>1, ScriptStays
<1>4. ServerTypes'
  BY <1>1 DEF ServerInv, ServerTypes
<1>5. Undone' /\ Caught'
  BY <1>1, <1>3 DEF ServerInv, Undone, Caught, Done, Arrived
<1>6. ExecutedAsSent' /\ Unharmed' /\ CrashOnlyIfHarmed'
  BY <1>1, <1>2 DEF ServerInv, ExecutedAsSent, BlockOf, Unharmed, CrashOnlyIfHarmed
<1>q. QED BY <1>4, <1>5, <1>6 DEF ServerInv

LEMMA ConsumeBlockKeeps == ASSUME ServerInv, ConsumeBlock PROVE ServerInv'
<1>1. /\ ~crashed /\ commandInfo # 0 /\ UNCHANGED <<script, stream, crashed, harmed>>
      /\ ContinueCommand(commandInfo, TakeBlock(value, BytesOfCommand(commandInfo), cachedBuffer))
  BY DEF ConsumeBlock
<1>2. BlockAwaited(commandInfo, value, cachedBuffer)
  <2>1. /\ commandInfo = Len(executed) + 1 /\ commandInfo \in 1..Len(script) /\ script[commandInfo] # NoBlock
        /\ value \in Seq(Bytes) /\ Len(value) < Len(script[commandInfo])
        /\ \A k \in 1..Len(value) : value[k] = script[commandInfo][k]
        /\ cachedBuffer \in Seq(Tokens) /\ Done = At[commandInfo] + 3 + Len(value)
    BY <1>1, ScriptsAre DEF ServerInv, ServerTypes, Caught
  <2>2. \A k \in 1..Len(cachedBuffer) : cachedBuffer[k] = Sent[At[commandInfo] + 3 + Len(value) + k]
    BY <2>1 DEF ServerInv, Undone
  <2>3. Arrived \in Int /\ Len(cachedBuffer) \in Nat
    <3>1. script \in Scripts /\ stream \in Seq(Tokens) /\ cachedBuffer \in Seq(Tokens)
      BY DEF ServerInv, ServerTypes
    <3>2. Len(Sent) \in Nat /\ Len(stream) \in Nat
      BY <3>1, SentIs
    <3>q. QED BY <3>1, <3>2 DEF Arrived
  <2>4. Done + Len(cachedBuffer) = Arrived
    BY <2>3 DEF Done
  <2>q. QED BY <2>1, <2>2, <2>4 DEF BlockAwaited
<1>q. QED BY <1>1, <1>2, BlockStep

LEMMA ParseCommandLineKeeps == ASSUME ServerInv, ParseCommandLine PROVE ServerInv'
<1> DEFINE i == Len(executed) + 1
           rest == AfterLine(cachedBuffer)
<1>1. /\ ~crashed /\ commandInfo = 0 /\ cachedBuffer # <<>> /\ StartsWithLine(cachedBuffer)
      /\ UNCHANGED <<script, stream, crashed, harmed>>
  BY DEF ParseCommandLine
<1>2. /\ cachedBuffer \in Seq(Tokens) /\ Len(cachedBuffer) \in Nat /\ script \in Scripts /\ Len(script) \in Nat
      /\ stream \in Seq(Tokens) /\ Len(stream) \in Nat /\ Len(Sent) \in Nat
      /\ executed \in Seq([id : Nat, block : Seq(Bytes)]) /\ Len(executed) \in Nat
      /\ DOMAIN script = 1..Len(script)
  BY ScriptsAre, SentIs DEF ServerInv, ServerTypes
<1>3. Len(cachedBuffer) >= 3 /\ cachedBuffer[1].byte = HEAD
  BY <1>1, <1>2, LineStarts
<1>4. i \in 1..Len(script) /\ Done = At[i] /\ cachedBuffer[1].id = i
  <2>1. \/ i \in 1..Len(script) /\ Done = At[i] /\ cachedBuffer[1] = Token(HEAD, "head", i)
        \/ cachedBuffer[1].byte # HEAD
    BY <1>1, FrontOfBuffer, Zenon
  <2>2. i \in 1..Len(script) /\ Done = At[i] /\ cachedBuffer[1] = Token(HEAD, "head", i)
    BY <1>3, <2>1
  <2>3. Token(HEAD, "head", i).id = i
    BY DEF Token
  <2> HIDE DEF i
  <2>q. QED BY <2>2, <2>3
<1>5. rest \in Seq(Tokens) /\ Len(rest) = Len(cachedBuffer) - 3
      /\ \A k \in 1..Len(cachedBuffer) - 3 : rest[k] = cachedBuffer[3 + k]
  <2>1. 3 \in 0..Len(cachedBuffer) /\ 3 + 1 = 4
    BY <1>2, <1>3
  <2>2. /\ SubSeq(cachedBuffer, 3 + 1, Len(cachedBuffer)) \in Seq(Tokens)
        /\ Len(SubSeq(cachedBuffer, 3 + 1, Len(cachedBuffer))) = Len(cachedBuffer) - 3
        /\ \A k \in 1..Len(cachedBuffer) - 3 :
             SubSeq(cachedBuffer, 3 + 1, Len(cachedBuffer))[k] = cachedBuffer[3 + k]
    BY <1>2, <2>1, SuffixOf, Zenon
  <2>3. rest = SubSeq(cachedBuffer, 3 + 1, Len(cachedBuffer))
    BY <2>1 DEF AfterLine
  <2> HIDE DEF rest
  <2>q. QED BY <2>2, <2>3
<1>6. ContinueCommand(i, IF BytesOfCommand(i) = 0 THEN [value |-> <<>>, rest |-> rest]
                                                  ELSE TakeBlock(<<>>, BytesOfCommand(i), rest))
  BY <1>4 DEF ParseCommandLine
<1>7. /\ script[i] \in Seq(Bytes) /\ Len(script[i]) \in Nat /\ i \in Nat
      /\ At[i] \in Nat /\ At[i + 1] \in Nat /\ At[i + 1] <= Len(Sent)
      /\ At[i + 1] = At[i] + IF script[i] = NoBlock THEN 3 ELSE Len(script[i]) + 5
  <2>1. /\ At \in [1..Len(script) + 1 -> 0..Len(Sent)]
        /\ At[i + 1] = At[i] + IF script[i] = NoBlock THEN 3 ELSE Len(script[i]) + 5
    BY <1>2, <1>4, SentIs
  <2>2. i \in 1..Len(script) + 1 /\ i + 1 \in 1..Len(script) + 1
    BY <1>2, <1>4
  <2>3. At[i] \in 0..Len(Sent) /\ At[i + 1] \in 0..Len(Sent)
    BY <2>1, <2>2
  <2>q. QED BY <1>2, <1>4, <2>1, <2>3, ScriptsAre
<1>8. Arrived = At[i] + Len(cachedBuffer)
  BY <1>2, <1>4, <1>7 DEF Done, Arrived
<1>9. \A k \in 1..Len(rest) : rest[k] = Sent[At[i] + 3 + k]
  <2>1. ASSUME NEW k \in 1..Len(rest) PROVE rest[k] = Sent[At[i] + 3 + k]
    <3>1. k \in 1..Len(cachedBuffer) - 3 /\ 3 + k \in 1..Len(cachedBuffer) /\ At[i] + (3 + k) = At[i] + 3 + k
      <4>1. Len(cachedBuffer) \in Nat /\ Len(rest) = Len(cachedBuffer) - 3 /\ At[i] \in Nat
        BY <1>2, <1>5, <1>7
      <4> HIDE DEF rest, i
      <4>q. QED BY <4>1
    <3>2. cachedBuffer[3 + k] = Sent[At[i] + (3 + k)]
      BY <1>4, <3>1 DEF ServerInv, Undone
    <3>q. QED BY <1>5, <3>1, <3>2
  <2>q. QED BY <2>1
<1> HIDE DEF rest
<1>10. CASE BytesOfCommand(i) # 0
  <2>1. script[i] # NoBlock /\ Len(script[i]) # 0
    BY <1>10 DEF BytesOfCommand
  <2>2. ContinueCommand(i, TakeBlock(<<>>, BytesOfCommand(i), rest))
    BY <1>6, <1>10
  <2>3. BlockAwaited(i, <<>>, rest)
    <3>1. <<>> \in Seq(Bytes) /\ Len(<<>>) = 0
      OBVIOUS
    <3>2. At[i] + 3 + 0 + Len(rest) = Arrived
      BY <1>2, <1>5, <1>7, <1>8
    <3>3. \A k \in 1..Len(rest) : rest[k] = Sent[At[i] + 3 + 0 + k]
      BY <1>7, <1>9
    <3>4. 0 < Len(script[i])
      BY <1>7, <2>1
    <3>q. QED BY <1>4, <1>5, <2>1, <3>1, <3>2, <3>3, <3>4 DEF BlockAwaited
  <2>q. QED BY <1>1, <2>2, <2>3, BlockStep
<1>11. CASE BytesOfCommand(i) = 0
  <2>1. /\ cachedBuffer' = rest /\ commandInfo' = 0 /\ value' = <<>>
        /\ executed' = Append(executed, [id |-> i, block |-> <<>>])
    BY <1>6, <1>11 DEF ContinueCommand
  <2>2. BlockOf(i) = <<>> /\ (script[i] # NoBlock => script[i] = <<>>)
    BY <1>7, <1>11 DEF BytesOfCommand, BlockOf
  <2>3. /\ executed' \in Seq([id : Nat, block : Seq(Bytes)]) /\ Len(executed') = i
        /\ \A j \in 1..i : executed'[j] = IF j = i THEN [id |-> i, block |-> <<>>] ELSE executed[j]
    <3>1. [id |-> i, block |-> <<>>] \in [id : Nat, block : Seq(Bytes)]
      BY <1>7
    <3>q. QED BY <1>2, <2>1, <3>1
  <2>4. ServerTypes'
    BY <1>1, <1>5, <2>1, <2>3, EmptySeq DEF ServerInv, ServerTypes
  <2>5. Sent' = Sent /\ At' = At /\ Arrived' = Arrived
    BY <1>1, ScriptStays DEF Arrived
  <2>6. Done' = At[i] + 3
    <3>1. Done' = Arrived - Len(rest)
      BY <2>1, <2>5 DEF Done
    <3>q. QED BY <1>2, <1>5, <1>7, <1>8, <3>1
  <2>7. Undone'
    BY <1>1, <1>7, <1>9, <2>1, <2>5, <2>6 DEF ServerInv, Undone
  <2>8. ExecutedAsSent'
    <3>1. Len(executed) <= Len(script) /\ \A j \in 1..Len(executed) : executed[j] = [id |-> j, block |-> BlockOf(j)]
      BY <1>2 DEF ServerInv, ExecutedAsSent
    <3>2. \A j : BlockOf(j)' = BlockOf(j)
      BY <1>1 DEF BlockOf
    <3>3. \A j \in 1..i : j = i \/ j \in 1..Len(executed)
      BY <1>2
    <3>4. \A j \in 1..i : executed'[j] = [id |-> j, block |-> BlockOf(j)']
      BY <2>2, <2>3, <3>1, <3>2, <3>3
    <3>5. DOMAIN executed' = 1..i /\ Len(executed') <= Len(script)'
      BY <1>1, <1>2, <1>4, <2>3
    <3>q. QED BY <3>4, <3>5 DEF ExecutedAsSent
  <2>9. Caught'
    <3>1. CASE script[i] = NoBlock
      <4>1. Done' = At[i + 1]
        BY <1>7, <2>6, <3>1
      <4>q. QED BY <2>1, <2>3, <2>5, <4>1 DEF Caught
    <3>2. CASE script[i] # NoBlock
      <4>1. harmed
        BY <1>2, <1>4, <2>2, <3>2 DEF ServerInv, Unharmed
      <4>2. Len(script[i]) = 0
        BY <2>2, <3>2
      <4>3. Done' = At[i + 1] - 2
        BY <1>7, <2>6, <3>2, <4>2
      <4>4. i # 0 /\ script'[i] # NoBlock /\ harmed'
        BY <1>1, <1>7, <3>2, <4>1, <1>4
      <4>q. QED BY <2>1, <2>3, <2>5, <4>3, <4>4 DEF Caught
    <3>q. QED BY <3>1, <3>2
  <2>10. Unharmed' /\ CrashOnlyIfHarmed'
    BY <1>1 DEF ServerInv, Unharmed, CrashOnlyIfHarmed
  <2>q. QED BY <2>4, <2>7, <2>8, <2>9, <2>10 DEF ServerInv
<1>q. QED BY <1>10, <1>11

(* What is executed, what is in the buffer and what is under way make up what *)
(* was sent, through every chunk and every turn of onData (server/index.ts:   *)
(* 17-54).                                                                    *)
THEOREM ServerInvariance == ServerSpec => []ServerInv
<1>1. ServerInv /\ [ServerNext]_serverVars => ServerInv'
  <2> SUFFICES ASSUME ServerInv, [ServerNext]_serverVars PROVE ServerInv'
    OBVIOUS
  <2>1. CASE UNCHANGED serverVars
    <3>1. UNCHANGED <<script, stream, cachedBuffer, commandInfo, value, executed, crashed, harmed>>
      BY <2>1 DEF serverVars
    <3>2. Sent' = Sent /\ At' = At
      BY <3>1, ScriptStays
    <3>3. ServerTypes'
      BY <3>1 DEF ServerInv, ServerTypes
    <3>4. Undone' /\ Caught'
      BY <3>1, <3>2 DEF ServerInv, Undone, Caught, Done, Arrived
    <3>5. ExecutedAsSent' /\ Unharmed' /\ CrashOnlyIfHarmed'
      BY <3>1 DEF ServerInv, ExecutedAsSent, BlockOf, Unharmed, CrashOnlyIfHarmed
    <3>q. QED BY <3>3, <3>4, <3>5 DEF ServerInv
  <2>q. QED BY <2>1, ReceiveChunkKeeps, ParseCommandLineKeeps, ParseThrowsKeeps, ConsumeBlockKeeps
        DEF ServerNext, OnData
<1>q. QED BY <1>1, ServerInitInv, PTL DEF ServerSpec

(* However the stream is cut, the commands executed are those sent, in their  *)
(* order and each with its whole block (server/index.ts:17-54).               *)
THEOREM CommandsExecutedAsSent == ServerSpec => []ExecutedAsSent
BY ServerInvariance, PTL DEF ServerInv

(* No exception leaves onData unless a chunk has begun in a line or in the    *)
(* line end of a block, or a block was empty (service/syntax.ts:60-71).       *)
THEOREM ServerCrashHasCause == ServerSpec => []CrashOnlyIfHarmed
BY ServerInvariance, PTL DEF ServerInv

-----------------------------------------------------------------------------
(* the client                                                                  *)

CBytes == {HEAD, CR, LF, STATUS} \cup UNION {Range(b) : b \in Values}
CIds == [reply : Nat, line : {"END", "VALUE", "STATUS"}, bytes : Nat]
CTokens == TokensOf(CBytes, CIds)
Answers == Seq(CBytes) \cup Seq(Seq(CBytes))

(* The request that is answered next, and the requests answered by the server. *)
Now == Len(requests) - Len(dataHandlerQueue) + 1

(* What the server has written for a request it has answered so.              *)
ReplyTo(r, kind, answer) ==
  IF kind # "get" THEN StatusReply(r, kind)
  ELSE IF answer = <<>> THEN EndReply(r)
  ELSE ValueReply(r, answer[1])

Replies == [r \in 1..Len(sent) |-> ReplyTo(r, requests[r].kind, sent[r])]

IsAnswerTo(r, kind, answer) ==
  IF kind # "get" THEN answer = BytesOf(StatusReply(r, kind))
  ELSE answer = <<>> \/ \E b \in Values : answer = <<b>>

BookTypes ==
  /\ requests \in Seq([caller : Callers, kind : {"save", "get", "delete"}])
  /\ waiting \in [Callers -> Nat]
  /\ toServer \in Seq(Nat) /\ dataHandlerQueue \in Seq(Nat)
  /\ sent \in Seq(Answers) /\ answers \in Seq(Answers)

(* The server has answered the first requests and is owed the others; of      *)
(* those it has answered, the first are done with, and the queue has the rest. *)
Queued ==
  /\ Len(toServer) = Len(requests) - Len(sent)
  /\ \A i \in 1..Len(toServer) : toServer[i] = Len(sent) + i
  /\ Now \in 1..Len(sent) + 1
  /\ \A i \in 1..Len(dataHandlerQueue) : dataHandlerQueue[i] = Now + (i - 1)
  /\ \A r \in 1..Len(sent) : IsAnswerTo(r, requests[r].kind, sent[r])

(* Whoever called is waiting for an answer that has not come, and nobody else  *)
(* is.                                                                        *)
Awaited ==
  /\ \A r \in Now..Len(requests) : waiting[requests[r].caller] = r
  /\ \A c \in Callers : waiting[c] # 0 => /\ waiting[c] \in Now..Len(requests)
                                          /\ requests[waiting[c]].caller = c

(* Every answer given is the server's to that request.                        *)
Given ==
  /\ Len(answers) = Len(requests)
  /\ \A r \in 1..Now - 1 : answers[r] = sent[r]

Books == BookTypes /\ Queued /\ Awaited /\ Given

(* A stream w of n replies: which reply a token belongs to.                   *)
Belongs(w, at, n, i) ==
  LET r == w[i].id.reply IN r \in 1..n /\ at[r] < i /\ i <= at[r + 1]

(* The handler of request r, whose reply begins after `start' tokens, has got *)
(* as far as `pos': it has not begun; it is in the middle of the block b; it  *)
(* has the block; or b is empty and its line end cannot be read.              *)
HandlerStates ==
  [awaited : Nat, value : Seq(CBytes), results : Seq(Seq(CBytes)), done : BOOLEAN]

Begun(state, start, pos) == state = NewHandler /\ pos = start
InBlock(state, b, start, pos) ==
  /\ state \in HandlerStates /\ state.awaited = Len(b) /\ state.results = <<>> /\ state.done = FALSE
  /\ state.value \in Seq(CBytes) /\ Len(state.value) < Len(b)
  /\ \A k \in 1..Len(state.value) : state.value[k] = b[k]
  /\ pos = start + 3 + Len(state.value)
HasBlock(state, b, start, pos) ==
  /\ state \in HandlerStates /\ state.awaited = 0 /\ state.results = <<b>> /\ state.done = FALSE
  /\ pos = start + (Len(b) + 5)
Stuck(state, b, start, pos, buffer) ==
  b = <<>> /\ state.awaited = 0 /\ pos = start + 3 /\ buffer # <<>>

(* How far the handler of request r has got in its reply, the answer to it.   *)
HandlerAt(state, r, n, kind, answer, start, pos, buffer) ==
  \/ Begun(state, start, pos)
  \/ /\ r <= n /\ kind = "get"
     /\ \E b \in Values : /\ answer = <<b>>
                          /\ \/ InBlock(state, b, start, pos)
                             \/ HasBlock(state, b, start, pos)
                             \/ Stuck(state, b, start, pos, buffer)

Pos(w) == Len(w) - Len(fromServer) - Len(clientBuffer)

(* All that was ever written for the client is w: what is under way is its    *)
(* end, what is in the buffer comes before that and within one reply, and the *)
(* handler has done all before.                                               *)
Written(w, at) ==
  /\ fromServer \in Seq(CTokens) /\ clientBuffer \in Seq(CTokens)
  /\ w \in Seq(CTokens) /\ Layout(w, at, Replies, Len(sent))
  /\ \A i \in 1..Len(w) : Belongs(w, at, Len(sent), i)
  /\ Pos(w) \in Nat
  /\ \A i \in 1..Len(fromServer) : fromServer[i] = w[(Len(w) - Len(fromServer)) + i]
  /\ \A i \in 1..Len(clientBuffer) : clientBuffer[i] = w[Pos(w) + i]
  /\ clientBuffer # <<>> => Now <= Len(sent) /\ Pos(w) + Len(clientBuffer) <= at[Now + 1]
  /\ HandlerAt(getState, Now, Len(sent), requests[Now].kind, sent[Now], at[Now], Pos(w), clientBuffer)

NoneTorn == fromServer # <<>> => fromServer[1].part \in {"head", "block"}

ClientInv ==
  ~misread => Books /\ NoneTorn /\ \E w, at : Written(w, at)

CallKinds == {"save", "get", "delete"}

Appends(t, s, e) ==
  Len(t) = Len(s) + 1 /\ t[Len(s) + 1] = e /\ \A i \in 1..Len(s) : t[i] = s[i]

LEMMA Appending ==
  ASSUME NEW S, NEW s \in Seq(S), NEW e \in S
  PROVE  Append(s, e) \in Seq(S) /\ Appends(Append(s, e), s, e)
<1>1. /\ Append(s, e) \in Seq(S) /\ Len(Append(s, e)) = Len(s) + 1
      /\ \A i \in 1..Len(s) : Append(s, e)[i] = s[i]
      /\ Append(s, e)[Len(s) + 1] = e
  OBVIOUS
<1>q. QED BY <1>1 DEF Appends

LEMMA ElementIs ==
  ASSUME NEW S, NEW s \in Seq(S), NEW i \in 1..Len(s)
  PROVE  s[i] \in S
OBVIOUS

LEMMA ValueIs ==
  ASSUME NEW b \in Values
  PROVE  b \in Seq(CBytes)
<1>1. b \in Seq(Range(b)) /\ Range(b) \subseteq CBytes
  BY ClientAssumption DEF CBytes
<1>2. b = [i \in 1..Len(b) |-> b[i]] /\ Len(b) \in Nat /\ \A i \in 1..Len(b) : b[i] \in Range(b)
  BY <1>1
<1>q. QED BY <1>1, <1>2

(* What a reply is made of: all its tokens name it, and it begins with a line. *)
IdsOf(r) == {id \in CIds : id.reply = r}
RTokens(r) == TokensOf(CBytes, IdsOf(r))

LEMMA RTokensAre ==
  ASSUME NEW r, NEW s \in Seq(RTokens(r))
  PROVE  s \in Seq(CTokens) /\ \A i \in 1..Len(s) : s[i].id.reply = r
<1>1. RTokens(r) \subseteq CTokens /\ \A t \in RTokens(r) : t.id.reply = r
  BY DEF RTokens, TokensOf, IdsOf, CTokens
<1>2. s = [i \in 1..Len(s) |-> s[i]] /\ Len(s) \in Nat /\ \A i \in 1..Len(s) : s[i] \in RTokens(r)
  OBVIOUS
<1>q. QED BY <1>1, <1>2

LEMMA StatusIs ==
  ASSUME NEW r \in Nat, NEW kind
  PROVE  /\ StatusReply(r, kind) \in Seq(RTokens(r)) /\ Len(StatusReply(r, kind)) \in {2, 4}
         /\ StatusReply(r, kind)[1].part = "head"
         /\ \A i \in 2..Len(StatusReply(r, kind)) : StatusReply(r, kind)[i].part = "line"
<1> DEFINE id == ReplyLine(r, "STATUS", 0)
           h == Token(STATUS, "head", id)
           t == Token(STATUS, "line", id)
           c == Token(CR, "line", id)
           l == Token(LF, "line", id)
           T == RTokens(r)
<1>1. id \in IdsOf(r)
  BY DEF ReplyLine, IdsOf, CIds
<1>2. h \in T /\ t \in T /\ c \in T /\ l \in T
  BY <1>1 DEF Token, RTokens, TokensOf, Parts, CBytes
<1>3. h.part = "head" /\ t.part = "line" /\ c.part = "line" /\ l.part = "line"
  BY DEF Token
<1>4. StatusReply(r, kind) = <<h, t>> \o (IF kind = "save" THEN <<c, l>> ELSE <<>>)
  BY DEF StatusReply
<1> HIDE DEF h, t, c, l, T, id
<1>5. CASE kind = "save"
  <2> DEFINE u == <<h, t>>
             v == <<c, l>>
             s == StatusReply(r, kind)
  <2>1. s = u \o v
    BY <1>4, <1>5
  <2>2. /\ u \in Seq(T) /\ Len(u) = 2 /\ u[1] = h /\ u[2] = t
        /\ v \in Seq(T) /\ Len(v) = 2 /\ v[1] = c /\ v[2] = l
    BY <1>2
  <2> HIDE DEF u, v, s
  <2>3. s \in Seq(T) /\ Joins(s, u, v)
    BY <2>1, <2>2, Appended, Zenon
  <2>4. /\ Len(s) = Len(u) + Len(v) /\ \A i \in 1..Len(u) : s[i] = u[i]
        /\ \A i \in 1..Len(v) : s[Len(u) + i] = v[i]
    BY <2>3 DEF Joins
  <2>5. Len(s) = 4 /\ s[1] = h /\ s[2] = t /\ s[3] = c /\ s[4] = l
    BY <2>2, <2>4
  <2>6. \A i \in 2..4 : i = 2 \/ i = 3 \/ i = 4
    OBVIOUS
  <2>q. QED BY <1>3, <2>3, <2>5, <2>6 DEF T, s
<1>6. CASE kind # "save"
  <2>1. StatusReply(r, kind) = <<h, t>>
    BY <1>2, <1>4, <1>6
  <2>2. <<h, t>> \in Seq(T) /\ Len(<<h, t>>) = 2
    BY <1>2
  <2>3. \A i \in 2..2 : i = 2
    OBVIOUS
  <2>q. QED BY <1>3, <2>1, <2>2, <2>3 DEF T
<1>q. QED BY <1>5, <1>6

LEMMA BooksAre ==
  ASSUME Books
  PROVE  /\ Len(requests) \in Nat /\ Len(sent) \in Nat /\ Len(dataHandlerQueue) \in Nat
         /\ Len(toServer) \in Nat /\ Len(answers) \in Nat /\ Now \in Nat /\ 1 <= Now
         /\ Now <= Len(sent) + 1 /\ Len(sent) <= Len(requests)
         /\ Len(toServer) = Len(requests) - Len(sent)
         /\ Len(dataHandlerQueue) = Len(requests) + 1 - Now
         /\ \A r \in 1..Len(requests) : /\ requests[r].caller \in Callers
                                        /\ requests[r].kind \in CallKinds
<1>1. /\ Len(requests) \in Nat /\ Len(sent) \in Nat /\ Len(dataHandlerQueue) \in Nat
      /\ Len(toServer) \in Nat /\ Len(answers) \in Nat
  BY DEF Books, BookTypes
<1>2. Now = Len(requests) - Len(dataHandlerQueue) + 1 /\ Now \in 1..Len(sent) + 1
  BY DEF Now, Books, Queued
<1>3. Len(toServer) = Len(requests) - Len(sent)
  BY DEF Books, Queued
<1>4. Now \in Nat /\ 1 <= Now /\ Now <= Len(sent) + 1
  BY <1>1, <1>2
<1>5. Len(sent) <= Len(requests)
  BY <1>1, <1>3
<1>6. Len(dataHandlerQueue) = Len(requests) + 1 - Now
  BY <1>1, <1>2
<1>7. \A r \in 1..Len(requests) : requests[r] \in [caller : Callers, kind : {"save", "get", "delete"}]
  <2>1. requests \in Seq([caller : Callers, kind : {"save", "get", "delete"}])
    BY DEF Books, BookTypes
  <2>q. QED BY <2>1, ElementIs, Zenon
<1>8. \A r \in 1..Len(requests) : requests[r].caller \in Callers /\ requests[r].kind \in CallKinds
  BY <1>7 DEF CallKinds
<1>q. QED BY <1>1, <1>3, <1>4, <1>5, <1>6, <1>8

LEMMA ClientInitBooks ==
  ASSUME ClientInit PROVE Books
<1>1. /\ requests = <<>> /\ waiting = [c \in Callers |-> 0] /\ toServer = <<>> /\ sent = <<>>
      /\ dataHandlerQueue = <<>> /\ answers = <<>>
  BY DEF ClientInit
<1>2. BookTypes
  BY <1>1, EmptySeq DEF BookTypes
<1>3. Now = 1
  BY <1>1 DEF Now
<1>4. Queued /\ Awaited /\ Given
  BY <1>1, <1>3 DEF Queued, Awaited, Given
<1>q. QED BY <1>2, <1>4 DEF Books

(* A call joins the end of the queue.                                         *)
LEMMA CallBooks ==
  ASSUME Books, NEW c \in Callers, NEW kind \in CallKinds, Call(c, kind)
  PROVE  /\ Books' /\ Now' = Now
         /\ \A r \in 1..Len(requests) : requests'[r] = requests[r]
<1> DEFINE R == Len(requests) + 1
<1>1. /\ waiting[c] = 0 /\ requests' = Append(requests, [caller |-> c, kind |-> kind])
      /\ toServer' = Append(toServer, R) /\ answers' = Append(answers, <<>>)
      /\ dataHandlerQueue' = Append(dataHandlerQueue, R)
      /\ waiting' = [waiting EXCEPT ![c] = R] /\ sent' = sent
  <2>1. kind # "noreply"
    BY DEF CallKinds
  <2>q. QED BY <2>1 DEF Call
<1>2. /\ requests \in Seq([caller : Callers, kind : CallKinds]) /\ waiting \in [Callers -> Nat]
      /\ toServer \in Seq(Nat) /\ dataHandlerQueue \in Seq(Nat)
      /\ sent \in Seq(Answers) /\ answers \in Seq(Answers)
  BY DEF Books, BookTypes, CallKinds
<1>3. /\ Len(requests) \in Nat /\ Len(sent) \in Nat /\ Len(dataHandlerQueue) \in Nat
      /\ Len(toServer) \in Nat /\ Len(answers) \in Nat /\ Now \in Nat /\ 1 <= Now
      /\ Now <= Len(sent) + 1 /\ Len(sent) <= Len(requests)
      /\ Len(toServer) = Len(requests) - Len(sent) /\ R \in Nat
      /\ Len(dataHandlerQueue) = Len(requests) + 1 - Now
  BY BooksAre
<1>4. /\ requests' \in Seq([caller : Callers, kind : CallKinds]) /\ Len(requests') = R
      /\ \A r \in 1..Len(requests) : requests'[r] = requests[r]
      /\ requests'[R] = [caller |-> c, kind |-> kind]
  <2>1. [caller |-> c, kind |-> kind] \in [caller : Callers, kind : CallKinds]
    OBVIOUS
  <2>q. QED BY <1>1, <1>2, <1>3, <2>1
<1>5. /\ toServer' \in Seq(Nat) /\ Len(toServer') = Len(toServer) + 1
      /\ \A i \in 1..Len(toServer) : toServer'[i] = toServer[i]
      /\ toServer'[Len(toServer) + 1] = R
  <2>1. toServer \in Seq(Nat) /\ R \in Nat
    BY <1>2, <1>3
  <2>2. toServer' = Append(toServer, R)
    BY <1>1
  <2> HIDE DEF R
  <2>3. toServer' \in Seq(Nat) /\ Appends(toServer', toServer, R)
    BY <2>1, <2>2, Appending, Zenon
  <2>q. QED BY <2>3, Zenon DEF Appends
<1>6. /\ dataHandlerQueue' \in Seq(Nat) /\ Len(dataHandlerQueue') = Len(dataHandlerQueue) + 1
      /\ \A i \in 1..Len(dataHandlerQueue) : dataHandlerQueue'[i] = dataHandlerQueue[i]
      /\ dataHandlerQueue'[Len(dataHandlerQueue) + 1] = R
  <2>1. dataHandlerQueue \in Seq(Nat) /\ R \in Nat
    BY <1>2, <1>3
  <2>2. dataHandlerQueue' = Append(dataHandlerQueue, R)
    BY <1>1
  <2> HIDE DEF R
  <2>3. dataHandlerQueue' \in Seq(Nat) /\ Appends(dataHandlerQueue', dataHandlerQueue, R)
    BY <2>1, <2>2, Appending, Zenon
  <2>q. QED BY <2>3, Zenon DEF Appends
<1>7. /\ answers' \in Seq(Answers) /\ Len(answers') = Len(answers) + 1
      /\ \A i \in 1..Len(answers) : answers'[i] = answers[i]
  <2>1. <<>> \in Answers
    BY EmptySeq DEF Answers
  <2>q. QED BY <1>1, <1>2, <1>3, <2>1
<1>8. /\ waiting' \in [Callers -> Nat] /\ waiting'[c] = R
      /\ \A d \in Callers : d # c => waiting'[d] = waiting[d]
  BY <1>1, <1>2, <1>3
<1>9. Now' = Now
  BY <1>3, <1>4, <1>6 DEF Now
<1>10. BookTypes'
  BY <1>1, <1>2, <1>4, <1>5, <1>6, <1>7, <1>8 DEF BookTypes, CallKinds
<1> HIDE DEF R
<1>R. R = Len(requests) + 1
  BY DEF R
<1>11. Queued'
  <2>1. Len(toServer') = Len(requests') - Len(sent')
    BY <1>1, <1>3, <1>4, <1>5, <1>R
  <2>2. ASSUME NEW i \in 1..Len(toServer') PROVE toServer'[i] = Len(sent') + i
    <3>1. \A j \in 1..Len(toServer) : toServer[j] = Len(sent) + j
      BY DEF Books, Queued
    <3>2. CASE i \in 1..Len(toServer)
      BY <1>1, <1>5, <3>1, <3>2
    <3>3. CASE i = Len(toServer) + 1
      <4>1. R = Len(sent) + (Len(toServer) + 1)
        BY <1>3, <1>R
      <4>q. QED BY <1>1, <1>5, <3>3, <4>1
    <3>4. \A n \in Nat : \A j \in 1..n + 1 : j \in 1..n \/ j = n + 1
      OBVIOUS
    <3>q. QED BY <1>3, <1>5, <3>2, <3>3, <3>4
  <2>3. ASSUME NEW i \in 1..Len(dataHandlerQueue') PROVE dataHandlerQueue'[i] = Now' + (i - 1)
    <3>1. \A j \in 1..Len(dataHandlerQueue) : dataHandlerQueue[j] = Now + (j - 1)
      BY DEF Books, Queued
    <3>2. CASE i \in 1..Len(dataHandlerQueue)
      BY <1>6, <1>9, <3>1, <3>2
    <3>3. CASE i = Len(dataHandlerQueue) + 1
      <4>1. R = Now + (i - 1)
        BY <1>3, <1>R, <3>3
      <4>q. QED BY <1>6, <1>9, <3>3, <4>1
    <3>q. QED BY <1>3, <1>6, <3>2, <3>3
  <2>4. \A r \in 1..Len(sent) : IsAnswerTo(r, requests'[r].kind, sent[r])
    <3>1. \A r \in 1..Len(sent) : IsAnswerTo(r, requests[r].kind, sent[r]) /\ r \in 1..Len(requests)
      BY <1>3 DEF Books, Queued
    <3>q. QED BY <1>4, <3>1
  <2>5. Now' \in 1..Len(sent') + 1
    BY <1>1, <1>3, <1>9
  <2>q. QED BY <1>1, <2>1, <2>2, <2>3, <2>4, <2>5 DEF Queued
<1>12. Awaited'
  <2>1. /\ \A r \in Now..Len(requests) : waiting[requests[r].caller] = r
        /\ \A d \in Callers : waiting[d] # 0 => /\ waiting[d] \in Now..Len(requests)
                                                /\ requests[waiting[d]].caller = d
    BY DEF Books, Awaited
  <2>2. ASSUME NEW r \in Now'..Len(requests') PROVE waiting'[requests'[r].caller] = r
    <3>1. CASE r = R
      BY <1>4, <1>8, <3>1
    <3>2. CASE r # R
      <4>1. r \in Now..Len(requests) /\ r \in 1..Len(requests) /\ r # 0
        BY <1>3, <1>4, <1>9, <1>R, <3>2
      <4>2. waiting[requests[r].caller] = r /\ requests'[r] = requests[r] /\ requests[r].caller \in Callers
        BY <1>4, <2>1, <4>1, BooksAre
      <4>3. requests[r].caller # c
        BY <1>1, <4>1, <4>2
      <4>q. QED BY <1>8, <4>2, <4>3
    <3>q. QED BY <3>1, <3>2
  <2>3. ASSUME NEW d \in Callers, waiting'[d] # 0
        PROVE  waiting'[d] \in Now'..Len(requests') /\ requests'[waiting'[d]].caller = d
    <3>1. CASE d = c
      <4>1. R \in Now..R
        BY <1>3, <1>R
      <4>q. QED BY <1>4, <1>8, <1>9, <3>1, <4>1
    <3>2. CASE d # c
      <4>1. waiting'[d] = waiting[d] /\ waiting[d] \in Now..Len(requests) /\ requests[waiting[d]].caller = d
        BY <1>8, <2>1, <2>3, <3>2
      <4>2. waiting[d] \in 1..Len(requests) /\ waiting[d] \in Now..R
        BY <1>3, <1>R, <4>1
      <4>q. QED BY <1>4, <1>9, <4>1, <4>2
    <3>q. QED BY <3>1, <3>2
  <2>q. QED BY <2>2, <2>3 DEF Awaited
<1>13. Given'
  <2>1. Len(answers) = Len(requests) /\ \A r \in 1..Now - 1 : answers[r] = sent[r]
    BY DEF Books, Given
  <2>2. Len(answers') = Len(requests')
    BY <1>4, <1>7, <1>R, <2>1
  <2>3. \A r \in 1..Now - 1 : r \in 1..Len(answers)
    BY <1>3, <2>1
  <2>4. \A r \in 1..Now' - 1 : answers'[r] = sent'[r]
    BY <1>1, <1>7, <1>9, <2>1, <2>3
  <2>q. QED BY <2>2, <2>4 DEF Given
<1>q. QED BY <1>4, <1>9, <1>10, <1>11, <1>12, <1>13 DEF Books

(* The first handler answers with what the server answered, and leaves.       *)
LEMMA ResolveBooks ==
  ASSUME Books, Now <= Len(sent), Resolve(sent[Now]), UNCHANGED <<requests, toServer, sent>>
  PROVE  Books' /\ Now' = Now + 1 /\ getState' = NewHandler
<1>1. /\ Len(requests) \in Nat /\ Len(sent) \in Nat /\ Len(dataHandlerQueue) \in Nat
      /\ Len(toServer) \in Nat /\ Len(answers) \in Nat /\ Now \in Nat /\ 1 <= Now
      /\ Now <= Len(sent) + 1 /\ Len(sent) <= Len(requests)
      /\ Len(toServer) = Len(requests) - Len(sent)
      /\ Len(dataHandlerQueue) = Len(requests) + 1 - Now
  BY BooksAre
<1>2. /\ requests' = requests /\ toServer' = toServer /\ sent' = sent
  OBVIOUS
<1>3. /\ waiting \in [Callers -> Nat] /\ dataHandlerQueue \in Seq(Nat)
      /\ sent \in Seq(Answers) /\ answers \in Seq(Answers)
  BY DEF Books, BookTypes
<1>4. Len(dataHandlerQueue) # 0 /\ Now <= Len(requests)
  BY <1>1
<1>5. Head(dataHandlerQueue) = Now
  <2>1. dataHandlerQueue[1] = Now + (1 - 1)
    <3>1. 1 \in 1..Len(dataHandlerQueue)
      BY <1>1, <1>4
    <3>q. QED BY <3>1 DEF Books, Queued
  <2>2. Head(dataHandlerQueue) = dataHandlerQueue[1]
    BY <1>3, <1>4
  <2>q. QED BY <1>1, <2>1, <2>2
<1> DEFINE c == requests[Now].caller
<1>6. /\ answers' = [answers EXCEPT ![Now] = sent[Now]]
      /\ waiting' = [waiting EXCEPT ![c] = 0]
      /\ dataHandlerQueue' = Tail(dataHandlerQueue) /\ getState' = NewHandler
  BY <1>5 DEF Resolve
<1>7. c \in Callers
  <2>1. Now \in 1..Len(requests)
    BY <1>1, <1>4
  <2>q. QED BY <2>1, BooksAre
<1> HIDE DEF c
<1>8. /\ dataHandlerQueue' \in Seq(Nat) /\ Len(dataHandlerQueue') = Len(dataHandlerQueue) - 1
      /\ \A i \in 1..Len(dataHandlerQueue) - 1 : dataHandlerQueue'[i] = dataHandlerQueue[i + 1]
  <2>1. dataHandlerQueue \in Seq(Nat) /\ dataHandlerQueue # <<>>
    BY <1>3, <1>4
  <2>q. QED BY <1>6, <2>1, HeadTailProperties, Zenon
<1>9. Now' = Now + 1
  <2>1. Now' = Len(requests) - Len(dataHandlerQueue') + 1 /\ Now = Len(requests) - Len(dataHandlerQueue) + 1
    BY <1>2 DEF Now
  <2>q. QED BY <1>1, <1>8, <2>1
<1>10. /\ answers' \in Seq(Answers) /\ Len(answers') = Len(answers) /\ answers'[Now] = sent[Now]
       /\ \A r \in 1..Len(answers) : r # Now => answers'[r] = answers[r]
  <2>1. Len(answers) = Len(requests)
    BY DEF Books, Given
  <2>2. Now \in 1..Len(answers) /\ Now \in 1..Len(sent)
    BY <1>1, <1>4, <2>1
  <2>3. sent[Now] \in Answers
    BY <1>3, <2>2, ElementIs, Zenon
  <2>q. QED BY <1>3, <1>6, <2>2, <2>3
<1>11. /\ waiting' \in [Callers -> Nat] /\ waiting'[c] = 0
       /\ \A d \in Callers : d # c => waiting'[d] = waiting[d]
  BY <1>3, <1>6, <1>7
<1>12. BookTypes'
  BY <1>2, <1>8, <1>10, <1>11 DEF Books, BookTypes
<1>13. Queued'
  <2>1. /\ Len(toServer) = Len(requests) - Len(sent)
        /\ \A i \in 1..Len(toServer) : toServer[i] = Len(sent) + i
        /\ \A r \in 1..Len(sent) : IsAnswerTo(r, requests[r].kind, sent[r])
        /\ \A i \in 1..Len(dataHandlerQueue) : dataHandlerQueue[i] = Now + (i - 1)
    BY DEF Books, Queued
  <2>2. Now' \in 1..Len(sent) + 1
    BY <1>1, <1>9
  <2>3. ASSUME NEW i \in 1..Len(dataHandlerQueue') PROVE dataHandlerQueue'[i] = Now' + (i - 1)
    <3>1. i \in 1..Len(dataHandlerQueue) - 1 /\ i + 1 \in 1..Len(dataHandlerQueue)
      BY <1>1, <1>8
    <3>2. dataHandlerQueue'[i] = Now + ((i + 1) - 1)
      BY <1>8, <2>1, <3>1
    <3>3. Now + ((i + 1) - 1) = (Now + 1) + (i - 1)
      BY <1>1
    <3>q. QED BY <1>9, <3>2, <3>3
  <2>q. QED BY <1>2, <2>1, <2>2, <2>3 DEF Queued
<1>14. Awaited'
  <2>1. /\ \A r \in Now..Len(requests) : waiting[requests[r].caller] = r
        /\ \A d \in Callers : waiting[d] # 0 => /\ waiting[d] \in Now..Len(requests)
                                                /\ requests[waiting[d]].caller = d
    BY DEF Books, Awaited
  <2>2. waiting[c] = Now
    <3>1. Now \in Now..Len(requests)
      BY <1>1, <1>4
    <3>q. QED BY <2>1, <3>1 DEF c
  <2>3. ASSUME NEW r \in Now + 1..Len(requests) PROVE waiting'[requests[r].caller] = r
    <3>1. r \in Now..Len(requests) /\ r \in 1..Len(requests) /\ r # Now
      BY <1>1
    <3>2. waiting[requests[r].caller] = r /\ requests[r].caller \in Callers
      BY <2>1, <3>1, BooksAre
    <3>3. requests[r].caller # c
      BY <2>2, <3>1, <3>2
    <3>q. QED BY <1>11, <3>2, <3>3
  <2>4. ASSUME NEW d \in Callers, waiting'[d] # 0
        PROVE  waiting'[d] \in Now + 1..Len(requests) /\ requests[waiting'[d]].caller = d
    <3>1. d # c /\ waiting'[d] = waiting[d]
      BY <1>11, <2>4
    <3>2. waiting[d] \in Now..Len(requests) /\ requests[waiting[d]].caller = d
      BY <2>1, <2>4, <3>1
    <3>3. waiting[d] # Now
      BY <3>1, <3>2 DEF c
    <3>4. waiting[d] \in Now + 1..Len(requests)
      BY <1>1, <3>2, <3>3
    <3>q. QED BY <3>1, <3>2, <3>4
  <2>q. QED BY <1>2, <1>9, <2>3, <2>4 DEF Awaited
<1>15. Given'
  <2>1. Len(answers) = Len(requests) /\ \A r \in 1..Now - 1 : answers[r] = sent[r]
    BY DEF Books, Given
  <2>2. ASSUME NEW r \in 1..Now' - 1 PROVE answers'[r] = sent[r]
    <3>1. r = Now \/ (r # Now /\ r \in 1..Now - 1 /\ r \in 1..Len(answers))
      BY <1>1, <1>9, <2>1
    <3>q. QED BY <1>10, <2>1, <3>1
  <2>q. QED BY <1>2, <1>10, <2>1, <2>2 DEF Given
<1>q. QED BY <1>6, <1>9, <1>12, <1>13, <1>14, <1>15 DEF Books

LEMMA AnswerTypes ==
  ASSUME NEW r \in Nat, NEW kind \in CallKinds, NEW answer, IsAnswerTo(r, kind, answer)
  PROVE  answer \in Answers
<1>1. CASE kind = "get"
  <2>1. answer = <<>> \/ \E b \in Values : answer = <<b>>
    BY <1>1 DEF IsAnswerTo
  <2>2. ASSUME NEW b \in Values PROVE <<b>> \in Seq(Seq(CBytes))
    <3>1. b \in Seq(CBytes)
      BY ValueIs
    <3>q. QED BY <3>1
  <2>q. QED BY <2>1, <2>2, EmptySeq DEF Answers
<1>2. CASE kind # "get"
  <2>1. answer = BytesOf(StatusReply(r, kind))
    BY <1>2 DEF IsAnswerTo
  <2>2. StatusReply(r, kind) \in Seq(CTokens)
    BY StatusIs, RTokensAre
  <2>3. \A s \in Seq(CTokens) : BytesOf(s) \in Seq(CBytes)
    <3>1. ASSUME NEW s \in Seq(CTokens) PROVE BytesOf(s) \in Seq(CBytes)
      <4>1. \A i \in 1..Len(s) : s[i].byte \in CBytes
        <5>1. \A i \in 1..Len(s) : s[i] \in CTokens
          OBVIOUS
        <5>q. QED BY <5>1 DEF CTokens, TokensOf
      <4>2. Len(s) \in Nat
        OBVIOUS
      <4>q. QED BY <4>1, <4>2 DEF BytesOf
    <3>q. QED BY <3>1
  <2>q. QED BY <2>1, <2>2, <2>3 DEF Answers
<1>q. QED BY <1>1, <1>2

(* The server answers the next request.                                       *)
LEMMA AnswerBooks ==
  ASSUME Books, ServerReply
  PROVE  \E answer :
           /\ Len(sent) + 1 \in 1..Len(requests)
           /\ IsAnswerTo(Len(sent) + 1, requests[Len(sent) + 1].kind, answer)
           /\ sent' = Append(sent, answer)
           /\ fromServer' = fromServer \o ReplyTo(Len(sent) + 1, requests[Len(sent) + 1].kind, answer)
           /\ Books' /\ Now' = Now
<1> DEFINE r == Len(sent) + 1
           kind == requests[r].kind
<1>1. /\ Len(requests) \in Nat /\ Len(sent) \in Nat /\ Len(dataHandlerQueue) \in Nat
      /\ Len(toServer) \in Nat /\ Len(answers) \in Nat /\ Now \in Nat /\ 1 <= Now
      /\ Now <= Len(sent) + 1 /\ Len(sent) <= Len(requests)
      /\ Len(toServer) = Len(requests) - Len(sent)
  BY BooksAre
<1>2. /\ toServer # <<>> /\ toServer' = Tail(toServer)
      /\ UNCHANGED <<requests, waiting, dataHandlerQueue, answers>>
  BY DEF ServerReply
<1>3. toServer \in Seq(Nat) /\ sent \in Seq(Answers)
  BY DEF Books, BookTypes
<1>4. Len(toServer) # 0
  BY <1>2, <1>3
<1>5. r \in 1..Len(requests) /\ r \in Nat
  BY <1>1, <1>4
<1>6. kind \in CallKinds
  BY <1>5, BooksAre
<1>7. Head(toServer) = r
  <2>1. 1 \in 1..Len(toServer)
    BY <1>1, <1>4
  <2>2. toServer[1] = Len(sent) + 1
    BY <2>1 DEF Books, Queued
  <2>3. Head(toServer) = toServer[1]
    BY <1>2, <1>3
  <2>q. QED BY <2>2, <2>3
<1> HIDE DEF r
<1>8. PICK answer : /\ IsAnswerTo(r, kind, answer) /\ sent' = Append(sent, answer)
                    /\ fromServer' = fromServer \o ReplyTo(r, kind, answer)
  <2>1. CASE kind \in {"save", "delete"}
    <3>1. /\ fromServer' = fromServer \o StatusReply(r, kind)
          /\ sent' = Append(sent, BytesOf(StatusReply(r, kind)))
      BY <1>7, <2>1 DEF ServerReply
    <3>2. IsAnswerTo(r, kind, BytesOf(StatusReply(r, kind)))
      BY <2>1 DEF IsAnswerTo
    <3>3. ReplyTo(r, kind, BytesOf(StatusReply(r, kind))) = StatusReply(r, kind)
      BY <2>1 DEF ReplyTo
    <3>q. QED BY <3>1, <3>2, <3>3
  <2>2. CASE kind = "get"
    <3>1. \/ \E b \in Values : fromServer' = fromServer \o ValueReply(r, b) /\ sent' = Append(sent, <<b>>)
          \/ fromServer' = fromServer \o EndReply(r) /\ sent' = Append(sent, <<>>)
      BY <1>7, <2>2 DEF ServerReply
    <3>2. CASE fromServer' = fromServer \o EndReply(r) /\ sent' = Append(sent, <<>>)
      BY <2>2, <3>2 DEF IsAnswerTo, ReplyTo
    <3>3. ASSUME NEW b \in Values, fromServer' = fromServer \o ValueReply(r, b), sent' = Append(sent, <<b>>)
          PROVE  \E answer : /\ IsAnswerTo(r, kind, answer) /\ sent' = Append(sent, answer)
                             /\ fromServer' = fromServer \o ReplyTo(r, kind, answer)
      <4>1. IsAnswerTo(r, kind, <<b>>)
        BY <2>2 DEF IsAnswerTo
      <4>2. ReplyTo(r, kind, <<b>>) = ValueReply(r, b)
        BY <2>2 DEF ReplyTo
      <4>q. QED BY <3>3, <4>1, <4>2
    <3>q. QED BY <3>1, <3>2, <3>3
  <2>q. QED BY <1>6, <2>1, <2>2 DEF CallKinds
<1> HIDE DEF kind
<1>9. /\ sent' \in Seq(Answers) /\ Len(sent') = r /\ sent'[r] = answer
      /\ \A i \in 1..Len(sent) : sent'[i] = sent[i]
  <2>1. answer \in Answers
    BY <1>5, <1>6, <1>8, AnswerTypes
  <2>2. Append(sent, answer) \in Seq(Answers) /\ Appends(Append(sent, answer), sent, answer)
    BY <1>3, <2>1, Appending, Zenon
  <2>q. QED BY <1>8, <2>2 DEF Appends, r
<1>10. /\ toServer' \in Seq(Nat) /\ Len(toServer') = Len(toServer) - 1
       /\ \A i \in 1..Len(toServer) - 1 : toServer'[i] = toServer[i + 1]
  BY <1>2, <1>3, HeadTailProperties, Zenon
<1>11. Now' = Now
  BY <1>2 DEF Now
<1>12. BookTypes'
  BY <1>2, <1>9, <1>10 DEF Books, BookTypes
<1>r. r = Len(sent) + 1
  BY DEF r
<1>13. Queued'
  <2>1. /\ \A i \in 1..Len(toServer) : toServer[i] = Len(sent) + i
        /\ \A i \in 1..Len(sent) : IsAnswerTo(i, requests[i].kind, sent[i])
        /\ \A i \in 1..Len(dataHandlerQueue) : dataHandlerQueue[i] = Now + (i - 1)
    BY DEF Books, Queued
  <2>2. Len(toServer') = Len(requests) - Len(sent')
    BY <1>1, <1>9, <1>10, <1>r
  <2>3. ASSUME NEW i \in 1..Len(toServer') PROVE toServer'[i] = Len(sent') + i
    <3>1. i \in 1..Len(toServer) - 1 /\ i + 1 \in 1..Len(toServer)
      BY <1>1, <1>10
    <3>2. toServer'[i] = Len(sent) + (i + 1)
      BY <1>10, <2>1, <3>1
    <3>3. Len(sent) + (i + 1) = r + i
      BY <1>1, <1>r
    <3>q. QED BY <1>9, <3>2, <3>3
  <2>4. Now \in 1..Len(sent') + 1
    BY <1>1, <1>9, <1>r
  <2>5. ASSUME NEW i \in 1..r PROVE IsAnswerTo(i, requests[i].kind, sent'[i])
    <3>1. i = r \/ i \in 1..Len(sent)
      BY <1>1, <1>r
    <3>q. QED BY <1>8, <1>9, <2>1, <3>1 DEF kind
  <2>q. QED BY <1>2, <1>9, <1>11, <2>1, <2>2, <2>3, <2>4, <2>5 DEF Queued
<1>14. Awaited'
  BY <1>2, <1>11 DEF Books, Awaited
<1>15. Given'
  <2>1. Len(answers) = Len(requests) /\ \A i \in 1..Now - 1 : answers[i] = sent[i]
    BY DEF Books, Given
  <2>2. \A i \in 1..Now - 1 : i \in 1..Len(sent)
    BY <1>1
  <2>q. QED BY <1>2, <1>9, <1>11, <2>1, <2>2 DEF Given
<1>q. QED BY <1>5, <1>8, <1>11, <1>12, <1>13, <1>14, <1>15 DEF Books, r, kind

EndId(r) == ReplyLine(r, "END", 0)
ValueId(r, b) == ReplyLine(r, "VALUE", Len(b))

(* m is the reply that a get has found b: a line, the block, its line end,    *)
(* and the line that ends the reply.                                          *)
IsValueReply(m, r, b) ==
  /\ Len(m) = Len(b) + 8 /\ Len(b) \in Nat
  /\ Begins(m, ValueId(r, b))
  /\ \A j \in 1..Len(b) : m[3 + j] = Token(b[j], "block", ValueId(r, b))
  /\ m[3 + (Len(b) + 1)] = Token(CR, "end", ValueId(r, b))
  /\ m[3 + (Len(b) + 2)] = Token(LF, "end", ValueId(r, b))
  /\ m[(Len(b) + 5) + 1] = Token(HEAD, "head", EndId(r))
  /\ m[(Len(b) + 5) + 2] = Token(CR, "line", EndId(r))
  /\ m[(Len(b) + 5) + 3] = Token(LF, "line", EndId(r))

LEMMA ValueReplyIs ==
  ASSUME NEW r \in Nat, NEW b \in Values
  PROVE  /\ EndReply(r) \in Seq(RTokens(r)) /\ Len(EndReply(r)) = 3 /\ Begins(EndReply(r), EndId(r))
         /\ ValueReply(r, b) \in Seq(RTokens(r)) /\ IsValueReply(ValueReply(r, b), r, b)
<1> DEFINE id == ValueId(r, b)
           T == RTokens(r)
           u == Line(id)
           v == Block(b, id)
           e == EndReply(r)
           uv == u \o v
           m == ValueReply(r, b)
           L == Len(b)
<1>1. HEAD \in CBytes /\ CR \in CBytes /\ LF \in CBytes
  BY DEF CBytes
<1>2. b \in Seq(CBytes) /\ L \in Nat
  BY ValueIs
<1>3. id \in IdsOf(r) /\ EndId(r) \in IdsOf(r)
  BY <1>2 DEF ValueId, EndId, ReplyLine, IdsOf, CIds
<1>4. u \in Seq(T) /\ Len(u) = 3 /\ Begins(u, id)
  BY <1>1, <1>3, LineIs DEF RTokens
<1>5. e \in Seq(T) /\ Len(e) = 3 /\ Begins(e, EndId(r))
  BY <1>1, <1>3, LineIs DEF RTokens, EndReply, EndId
<1>6. /\ v \in Seq(T) /\ Len(v) = L + 2 /\ \A j \in 1..L : v[j] = Token(b[j], "block", id)
      /\ v[L + 1] = Token(CR, "end", id) /\ v[L + 2] = Token(LF, "end", id)
  BY <1>1, <1>2, <1>3, BlockIs DEF RTokens
<1>7. m = uv \o e
  BY DEF ValueReply, ValueId
<1> HIDE DEF id, T, u, v, e, uv, m, L
<1>8. uv \in Seq(T) /\ Joins(uv, u, v)
  BY <1>4, <1>6, Appended, Zenon DEF uv
<1>9. m \in Seq(T) /\ Joins(m, uv, e)
  BY <1>5, <1>7, <1>8, Appended, Zenon
<1>10. /\ Len(uv) = Len(u) + Len(v) /\ \A i \in 1..Len(u) : uv[i] = u[i]
       /\ \A i \in 1..Len(v) : uv[Len(u) + i] = v[i]
  BY <1>8 DEF Joins
<1>11. /\ Len(m) = Len(uv) + Len(e) /\ \A i \in 1..Len(uv) : m[i] = uv[i]
       /\ \A i \in 1..Len(e) : m[Len(uv) + i] = e[i]
  BY <1>9 DEF Joins
<1>12. Len(uv) = L + 5 /\ Len(m) = L + 8
  <2>1. Len(u) = 3 /\ Len(v) = L + 2 /\ Len(e) = 3
    BY <1>4, <1>5, <1>6
  <2>2. Len(uv) = Len(u) + Len(v) /\ Len(m) = Len(uv) + Len(e)
    BY <1>10, <1>11
  <2>q. QED BY <1>2, <2>1, <2>2
<1>13. Begins(m, id)
  <2>1. 1 \in 1..Len(uv) /\ 2 \in 1..Len(uv) /\ 3 \in 1..Len(uv)
    BY <1>2, <1>12
  <2>2. m[1] = uv[1] /\ m[2] = uv[2] /\ m[3] = uv[3]
    BY <1>11, <2>1
  <2>3. uv[1] = u[1] /\ uv[2] = u[2] /\ uv[3] = u[3]
    BY <1>4, <1>10
  <2>q. QED BY <1>4, <2>2, <2>3 DEF Begins
<1>14. ASSUME NEW j \in 1..L + 2 PROVE m[3 + j] = v[j]
  <2>1. 3 + j \in 1..Len(uv)
    BY <1>2, <1>12
  <2>2. uv[3 + j] = v[j]
    BY <1>4, <1>6, <1>10
  <2>q. QED BY <1>11, <2>1, <2>2
<1>15. L + 1 \in 1..L + 2 /\ L + 2 \in 1..L + 2 /\ \A j \in 1..L : j \in 1..L + 2
  BY <1>2
<1>16. /\ \A j \in 1..L : m[3 + j] = Token(b[j], "block", id)
       /\ m[3 + (L + 1)] = Token(CR, "end", id) /\ m[3 + (L + 2)] = Token(LF, "end", id)
  BY <1>6, <1>14, <1>15
<1>17. m[(L + 5) + 1] = e[1] /\ m[(L + 5) + 2] = e[2] /\ m[(L + 5) + 3] = e[3]
  BY <1>5, <1>11, <1>12
<1>18. IsValueReply(m, r, b)
  BY <1>2, <1>5, <1>12, <1>13, <1>16, <1>17 DEF IsValueReply, Begins, id, L
<1>q. QED BY <1>5, <1>9, <1>18 DEF e, m, T

(* What the server writes for a request.                                      *)
LEMMA ReplyIs ==
  ASSUME NEW r \in Nat, NEW kind \in CallKinds, NEW answer, IsAnswerTo(r, kind, answer),
         NEW m, m = ReplyTo(r, kind, answer)
  PROVE  /\ m \in Seq(RTokens(r)) /\ Len(m) \in Nat /\ Len(m) # 0 /\ m[1].part = "head"
         /\ kind # "get" => m = StatusReply(r, kind)
         /\ kind = "get" /\ answer = <<>> => Len(m) = 3 /\ Begins(m, EndId(r))
         /\ \A b \in Values : kind = "get" /\ answer = <<b>> => IsValueReply(m, r, b)
<1>1. CASE kind # "get"
  <2>1. m = StatusReply(r, kind)
    BY <1>1 DEF ReplyTo
  <2>2. m \in Seq(RTokens(r)) /\ Len(m) \in {2, 4} /\ m[1].part = "head"
    BY <2>1, StatusIs
  <2>q. QED BY <1>1, <2>1, <2>2
<1>2. CASE kind = "get" /\ answer = <<>>
  <2>1. m = EndReply(r)
    BY <1>2 DEF ReplyTo
  <2>2. EndReply(r) \in Seq(RTokens(r)) /\ Len(EndReply(r)) = 3 /\ Begins(EndReply(r), EndId(r))
    <3>1. HEAD \in CBytes /\ CR \in CBytes /\ LF \in CBytes
      BY DEF CBytes
    <3>2. EndId(r) \in IdsOf(r)
      BY DEF EndId, ReplyLine, IdsOf, CIds
    <3>q. QED BY <3>1, <3>2, LineIs DEF RTokens, EndReply, EndId
  <2>3. m[1].part = "head"
    BY <2>1, <2>2 DEF Begins, Token
  <2>4. \A b : answer # <<b>>
    BY <1>2
  <2>q. QED BY <1>2, <2>1, <2>2, <2>3, <2>4
<1>3. ASSUME NEW b \in Values, kind = "get", answer = <<b>>
      PROVE  /\ m \in Seq(RTokens(r)) /\ Len(m) \in Nat /\ Len(m) # 0 /\ m[1].part = "head"
             /\ answer # <<>> /\ IsValueReply(m, r, b)
             /\ \A c \in Values : answer = <<c>> => c = b
  <2>1. answer # <<>> /\ answer[1] = b /\ \A c : answer = <<c>> => c = b
    BY <1>3
  <2>2. m = ValueReply(r, b)
    BY <1>3, <2>1 DEF ReplyTo
  <2>3. m \in Seq(RTokens(r)) /\ IsValueReply(m, r, b)
    BY <2>2, ValueReplyIs
  <2>4. Len(m) = Len(b) + 8 /\ Len(b) \in Nat /\ m[1] = Token(HEAD, "head", ValueId(r, b))
    BY <2>3 DEF IsValueReply, Begins
  <2>5. Len(m) \in Nat /\ Len(m) # 0
    BY <2>4
  <2>q. QED BY <2>1, <2>3, <2>4, <2>5 DEF Token
<1>q. QED
  <2>1. kind = "get" => answer = <<>> \/ \E b \in Values : answer = <<b>>
    BY DEF IsAnswerTo
  <2>2. CASE kind = "get" /\ \E b \in Values : answer = <<b>>
    BY <1>3, <2>2
  <2>q. QED BY <1>1, <1>2, <2>1, <2>2

(* The reply being handled, and how far into it the handler has got.          *)
Reply(r) == ReplyTo(r, requests[r].kind, sent[r])

LEMMA ReplyOnWire ==
  ASSUME Books, NEW w, NEW at, Written(w, at), NEW r \in 1..Len(sent)
  PROVE  /\ Reply(r) \in Seq(RTokens(r)) /\ Len(Reply(r)) \in Nat /\ Len(Reply(r)) # 0
         /\ at[r] \in Nat /\ at[r + 1] \in Nat /\ at[r + 1] = at[r] + Len(Reply(r))
         /\ at[r + 1] <= Len(w) /\ Len(w) \in Nat
         /\ \A j \in 1..Len(Reply(r)) : w[at[r] + j] = Reply(r)[j]
         /\ IsAnswerTo(r, requests[r].kind, sent[r]) /\ requests[r].kind \in CallKinds
<1>1. Len(sent) \in Nat /\ Len(requests) \in Nat /\ Len(sent) <= Len(requests)
  BY BooksAre
<1>2. r \in Nat /\ r \in 1..Len(requests) /\ r \in 1..Len(sent) + 1 /\ r + 1 \in 1..Len(sent) + 1
  BY <1>1
<1>3. IsAnswerTo(r, requests[r].kind, sent[r]) /\ requests[r].kind \in CallKinds
  BY <1>2, BooksAre DEF Books, Queued
<1>4. Reply(r) \in Seq(RTokens(r)) /\ Len(Reply(r)) \in Nat /\ Len(Reply(r)) # 0
  BY <1>2, <1>3, ReplyIs DEF Reply
<1>5. Layout(w, at, Replies, Len(sent)) /\ w \in Seq(CTokens)
  BY DEF Written
<1>6. /\ at \in [1..Len(sent) + 1 -> 0..Len(w)]
      /\ at[r + 1] = at[r] + Len(Replies[r])
      /\ \A j \in 1..Len(Replies[r]) : w[at[r] + j] = Replies[r][j]
  BY <1>5 DEF Layout
<1>7. Replies[r] = Reply(r)
  BY DEF Replies, Reply
<1>8. Len(w) \in Nat
  BY <1>5
<1>9. at[r] \in 0..Len(w) /\ at[r + 1] \in 0..Len(w)
  BY <1>2, <1>6
<1>q. QED BY <1>3, <1>4, <1>6, <1>7, <1>8, <1>9

(* The handler is within the reply to the first request in the queue, if that *)
(* has been written.                                                          *)
LEMMA HandlerWithin ==
  ASSUME Books, NEW w, NEW at, Written(w, at), Now <= Len(sent)
  PROVE  /\ Now \in 1..Len(sent)
         /\ Pos(w) - at[Now] \in Nat /\ Pos(w) - at[Now] < Len(Reply(Now))
         /\ Pos(w) \in Nat /\ at[Now] \in Nat /\ Pos(w) = at[Now] + (Pos(w) - at[Now])
<1>1. Now \in 1..Len(sent)
  <2>1. Now \in Nat /\ 1 <= Now /\ Len(sent) \in Nat
    BY BooksAre
  <2>q. QED BY <2>1
<1> DEFINE m == Reply(Now)
           b0 == at[Now]
           p == Pos(w)
<1>2. b0 \in Nat /\ Len(m) \in Nat /\ Len(m) # 0 /\ p \in Nat
  BY <1>1, ReplyOnWire DEF Written
<1>3. /\ IsAnswerTo(Now, requests[Now].kind, sent[Now]) /\ requests[Now].kind \in CallKinds /\ Now \in Nat
  BY <1>1, ReplyOnWire
<1>4. \/ p = b0
      \/ /\ requests[Now].kind = "get"
         /\ \E b \in Values : /\ sent[Now] = <<b>>
                              /\ \/ InBlock(getState, b, b0, p)
                                 \/ HasBlock(getState, b, b0, p)
                                 \/ Stuck(getState, b, b0, p, clientBuffer)
  BY DEF Written, HandlerAt, Begun
<1>5. ASSUME NEW b \in Values, requests[Now].kind = "get", sent[Now] = <<b>>
      PROVE  Len(m) = Len(b) + 8 /\ Len(b) \in Nat
  <2>1. IsValueReply(m, Now, b)
    BY <1>3, <1>5, ReplyIs DEF Reply
  <2>q. QED BY <2>1 DEF IsValueReply
<1>6. ASSUME NEW b \in Values, requests[Now].kind = "get", sent[Now] = <<b>>,
             \/ InBlock(getState, b, b0, p)
             \/ HasBlock(getState, b, b0, p)
             \/ Stuck(getState, b, b0, p, clientBuffer)
      PROVE  p - b0 \in Nat /\ p - b0 < Len(m)
  <2>1. Len(m) = Len(b) + 8 /\ Len(b) \in Nat
    BY <1>5, <1>6
  <2>2. CASE InBlock(getState, b, b0, p)
    <3>1. p = b0 + 3 + Len(getState.value) /\ Len(getState.value) < Len(b) /\ Len(getState.value) \in Nat
      BY <2>2 DEF InBlock
    <3> HIDE DEF m, b0, p
    <3>2. p - b0 = 3 + Len(getState.value)
      <4>1. \A x, y \in Nat : (x + 3 + y) - x = 3 + y
        OBVIOUS
      <4>2. b0 \in Nat /\ Len(getState.value) \in Nat
        BY <1>2, <3>1
      <4>3. p = b0 + 3 + Len(getState.value)
        BY <3>1
      <4>q. QED BY <4>1, <4>2, <4>3, Zenon
    <3>q. QED BY <2>1, <3>1, <3>2
  <2>3. CASE HasBlock(getState, b, b0, p)
    <3>1. p = b0 + (Len(b) + 5)
      BY <2>3 DEF HasBlock
    <3> HIDE DEF m, b0, p
    <3>q. QED BY <1>2, <2>1, <3>1
  <2>4. CASE Stuck(getState, b, b0, p, clientBuffer)
    <3>1. p = b0 + 3
      BY <2>4 DEF Stuck
    <3> HIDE DEF m, b0, p
    <3>2. p - b0 = 3
      BY <1>2, <3>1
    <3>q. QED BY <2>1, <3>2
  <2>q. QED BY <1>6, <2>2, <2>3, <2>4
<1> HIDE DEF m, b0, p
<1>7. p - b0 \in Nat /\ p - b0 < Len(m) /\ p = b0 + (p - b0)
  <2>1. p = b0 => p - b0 = 0
    BY <1>2
  <2>2. p - b0 \in Nat /\ p - b0 < Len(m)
    BY <1>2, <1>4, <1>6, <2>1
  <2>q. QED BY <1>2, <2>2
<1>q. QED BY <1>1, <1>2, <1>7 DEF m, b0, p

(* What is in the buffer is a piece of that reply; it ends where the reply    *)
(* does, or where the next chunk may begin.                                   *)
ChunkAt(buf, m, o) ==
  /\ buf \in Seq(CTokens) /\ Len(buf) \in Nat /\ Len(buf) # 0
  /\ o + Len(buf) <= Len(m) /\ Len(m) \in Nat
  /\ \A i \in 1..Len(buf) : buf[i] = m[o + i]
  /\ o + Len(buf) < Len(m) => m[o + Len(buf) + 1].part \in {"head", "block"}

LEMMA ChunkInReply ==
  ASSUME Books, NoneTorn, NEW w, NEW at, Written(w, at), clientBuffer # <<>>,
         NEW o, o = Pos(w) - at[Now], NEW m, m = Reply(Now)
  PROVE  /\ Now \in 1..Len(sent) /\ o \in Nat /\ Pos(w) = at[Now] + o
         /\ ChunkAt(clientBuffer, m, o)
<1>1. Now <= Len(sent) /\ Pos(w) + Len(clientBuffer) <= at[Now + 1]
  BY DEF Written
<1>2. /\ Now \in 1..Len(sent) /\ o \in Nat /\ o < Len(m) /\ Pos(w) \in Nat /\ at[Now] \in Nat
      /\ Pos(w) = at[Now] + o
  BY <1>1, HandlerWithin
<1>3. /\ Len(m) \in Nat /\ at[Now + 1] = at[Now] + Len(m) /\ at[Now + 1] <= Len(w) /\ Len(w) \in Nat
      /\ \A j \in 1..Len(m) : w[at[Now] + j] = m[j]
  <2>1. Now \in 1..Len(sent)
    BY <1>2
  <2>2. /\ Len(Reply(Now)) \in Nat /\ at[Now + 1] = at[Now] + Len(Reply(Now))
        /\ at[Now + 1] <= Len(w) /\ Len(w) \in Nat
        /\ \A j \in 1..Len(Reply(Now)) : w[at[Now] + j] = Reply(Now)[j]
    BY <2>1, ReplyOnWire
  <2>q. QED BY <2>2
<1>4. clientBuffer \in Seq(CTokens) /\ fromServer \in Seq(CTokens)
  BY DEF Written
<1>5. Len(clientBuffer) \in Nat /\ Len(clientBuffer) # 0 /\ Len(fromServer) \in Nat
  BY <1>4
<1>6. o + Len(clientBuffer) <= Len(m)
  <2>1. at[Now] + o + Len(clientBuffer) <= at[Now] + Len(m)
    BY <1>1, <1>2, <1>3
  <2>2. \A a, p, k, l \in Nat : a + p + k <= a + l => p + k <= l
    OBVIOUS
  <2>3. at[Now] \in Nat /\ o \in Nat /\ Len(clientBuffer) \in Nat /\ Len(m) \in Nat
    BY <1>2, <1>3, <1>5
  <2>q. QED BY <2>1, <2>2, <2>3, Zenon
<1>7. ASSUME NEW i \in 1..Len(clientBuffer) PROVE clientBuffer[i] = m[o + i]
  <2>1. clientBuffer[i] = w[Pos(w) + i]
    BY DEF Written
  <2>2. o + i \in 1..Len(m) /\ Pos(w) + i = at[Now] + (o + i)
    <3>1. /\ o \in Nat /\ at[Now] \in Nat /\ Len(clientBuffer) \in Nat /\ Len(m) \in Nat
          /\ Pos(w) = at[Now] + o
      BY <1>2, <1>3, <1>5
    <3>2. o + i \in 1..Len(m)
      BY <1>6, <3>1
    <3>3. Pos(w) + i = at[Now] + (o + i)
      BY <3>1
    <3>q. QED BY <3>2, <3>3
  <2>q. QED BY <1>3, <2>1, <2>2
<1>8. ASSUME o + Len(clientBuffer) < Len(m)
      PROVE  m[o + Len(clientBuffer) + 1].part \in {"head", "block"}
  <2>1. Pos(w) + Len(clientBuffer) = Len(w) - Len(fromServer)
    <3>1. Pos(w) = Len(w) - Len(fromServer) - Len(clientBuffer)
      BY DEF Pos
    <3>q. QED BY <1>3, <1>5, <3>1
  <2>2. Pos(w) + Len(clientBuffer) < Len(w)
    <3>1. Pos(w) + Len(clientBuffer) < at[Now] + Len(m)
      <4>1. \A a, p, k, l \in Nat : p + k < l => (a + p) + k < a + l
        OBVIOUS
      <4>2. /\ at[Now] \in Nat /\ o \in Nat /\ Len(clientBuffer) \in Nat /\ Len(m) \in Nat
            /\ Pos(w) = at[Now] + o
        BY <1>2, <1>3, <1>5
      <4>q. QED BY <1>8, <4>1, <4>2
    <3>2. at[Now] + Len(m) <= Len(w)
      BY <1>3
    <3>3. \A p, q, r \in Int : p < q /\ q <= r => p < r
      OBVIOUS
    <3>4. Pos(w) + Len(clientBuffer) \in Int /\ at[Now] + Len(m) \in Int /\ Len(w) \in Int
      BY <1>2, <1>3, <1>5
    <3>q. QED BY <3>1, <3>2, <3>3, <3>4, Zenon
  <2>3. Len(fromServer) # 0
    BY <1>2, <1>3, <1>5, <2>1, <2>2
  <2>4. 1 \in 1..Len(fromServer) /\ fromServer # <<>>
    BY <1>5, <2>3
  <2>5. fromServer[1] = w[(Len(w) - Len(fromServer)) + 1] /\ fromServer[1].part \in {"head", "block"}
    BY <2>4 DEF Written, NoneTorn
  <2>6. o + Len(clientBuffer) + 1 \in 1..Len(m)
        /\ (Len(w) - Len(fromServer)) + 1 = at[Now] + (o + Len(clientBuffer) + 1)
    <3>1. at[Now] + o + Len(clientBuffer) = Len(w) - Len(fromServer)
      BY <1>2, <2>1
    <3>2. /\ o \in Nat /\ at[Now] \in Nat /\ Len(clientBuffer) \in Nat /\ Len(m) \in Nat
          /\ Len(w) \in Nat /\ Len(fromServer) \in Nat
      BY <1>2, <1>3, <1>5
    <3>3. o + Len(clientBuffer) + 1 \in 1..Len(m)
      BY <1>8, <3>2
    <3>4. (Len(w) - Len(fromServer)) + 1 = at[Now] + (o + Len(clientBuffer) + 1)
      <4>1. \A a, x, y \in Int : (a + x + y) + 1 = a + (x + y + 1)
        OBVIOUS
      <4>3. at[Now] \in Int /\ o \in Int /\ Len(clientBuffer) \in Int
        BY <3>2
      <4>4. (at[Now] + o + Len(clientBuffer)) + 1 = at[Now] + (o + Len(clientBuffer) + 1)
        BY <4>1, <4>3
      <4>q. QED BY <3>1, <4>4, Zenon
    <3>q. QED BY <3>3, <3>4
  <2>q. QED BY <1>3, <2>5, <2>6
<1>9. ChunkAt(clientBuffer, m, o)
  BY <1>3, <1>4, <1>5, <1>6, <1>7, <1>8 DEF ChunkAt
<1>q. QED BY <1>2, <1>9

(* The handler goes on by k tokens of the buffer.                             *)
LEMMA HandlerGoesOn ==
  ASSUME Books, NEW w, NEW at, Written(w, at), clientBuffer # <<>>,
         UNCHANGED <<requests, sent, fromServer>>,
         NEW k, RestOf(clientBuffer', clientBuffer, k), clientBuffer' \in Seq(CTokens),
         clientBuffer' # <<>> => Now' = Now,
         HandlerAt(getState', Now', Len(sent), requests[Now'].kind, sent[Now'], at[Now'],
                   Pos(w) + k, clientBuffer')
  PROVE  Written(w, at)'
<1>1. /\ k \in 0..Len(clientBuffer) /\ Len(clientBuffer') = Len(clientBuffer) - k
      /\ \A i \in 1..Len(clientBuffer) - k : clientBuffer'[i] = clientBuffer[k + i]
  BY DEF RestOf
<1>2. /\ clientBuffer \in Seq(CTokens) /\ fromServer \in Seq(CTokens) /\ w \in Seq(CTokens)
      /\ Pos(w) \in Nat /\ Layout(w, at, Replies, Len(sent))
      /\ \A i \in 1..Len(w) : Belongs(w, at, Len(sent), i)
      /\ \A i \in 1..Len(fromServer) : fromServer[i] = w[(Len(w) - Len(fromServer)) + i]
      /\ \A i \in 1..Len(clientBuffer) : clientBuffer[i] = w[Pos(w) + i]
      /\ Now <= Len(sent) /\ Pos(w) + Len(clientBuffer) <= at[Now + 1]
  BY DEF Written
<1>3. Len(clientBuffer) \in Nat /\ Len(fromServer) \in Nat /\ Len(w) \in Nat /\ k \in Nat
      /\ k <= Len(clientBuffer)
  <2>1. Len(clientBuffer) \in Nat /\ Len(fromServer) \in Nat /\ Len(w) \in Nat
    BY <1>2
  <2>q. QED BY <1>1, <2>1
<1>4. requests' = requests /\ sent' = sent /\ fromServer' = fromServer /\ Replies' = Replies
  BY DEF Replies
<1>5. Pos(w)' = Pos(w) + k
  <2>1. /\ Pos(w) = Len(w) - Len(fromServer) - Len(clientBuffer)
        /\ Pos(w)' = Len(w) - Len(fromServer) - Len(clientBuffer')
    BY <1>4 DEF Pos
  <2>2. Len(clientBuffer') = Len(clientBuffer) - k
    BY <1>1
  <2>q. QED BY <1>3, <2>1, <2>2
<1>6. Pos(w)' \in Nat
  BY <1>2, <1>3, <1>5
<1>7. ASSUME NEW i \in 1..Len(clientBuffer') PROVE clientBuffer'[i] = w[Pos(w)' + i]
  <2>1. Len(clientBuffer') = Len(clientBuffer) - k
    BY <1>1
  <2>2. i \in 1..Len(clientBuffer) - k /\ k + i \in 1..Len(clientBuffer)
    BY <1>3, <2>1
  <2>3. Pos(w) \in Nat
    BY <1>2
  <2>4. Pos(w) + (k + i) = Pos(w)' + i
    BY <1>3, <1>5, <2>2, <2>3
  <2>5. clientBuffer'[i] = clientBuffer[k + i] /\ clientBuffer[k + i] = w[Pos(w) + (k + i)]
    BY <1>1, <1>2, <2>2
  <2>q. QED BY <2>4, <2>5
<1>8. clientBuffer' # <<>> => Now' <= Len(sent) /\ Pos(w)' + Len(clientBuffer') <= at[Now' + 1]
  <2>1. Pos(w)' + Len(clientBuffer') = Pos(w) + Len(clientBuffer)
    <3>1. Len(clientBuffer') = Len(clientBuffer) - k /\ Pos(w) \in Nat
      BY <1>1, <1>2
    <3>q. QED BY <1>3, <1>5, <3>1
  <2>q. QED BY <1>2, <2>1
<1>9. HandlerAt(getState', Now', Len(sent'), requests'[Now'].kind, sent'[Now'], at[Now'],
                Pos(w)', clientBuffer')
  BY <1>4, <1>5
<1>q. QED BY <1>2, <1>4, <1>6, <1>7, <1>8, <1>9 DEF Written

(* Of the reply m that has b, the handler has the line and a beginning v of   *)
(* the block, and buf is what comes next: it stops where m does or where a    *)
(* chunk may begin.                                                           *)
Continues(m, r, b, v, buf) ==
  /\ IsValueReply(m, r, b) /\ v \in Seq(CBytes) /\ buf \in Seq(CTokens)
  /\ Len(v) < Len(b) /\ \A i \in 1..Len(v) : v[i] = b[i]
  /\ 3 + Len(v) + Len(buf) <= Len(b) + 8
  /\ \A i \in 1..Len(buf) : buf[i] = m[(3 + Len(v)) + i]
  /\ 3 + Len(v) + Len(buf) < Len(b) + 8 =>
       m[3 + Len(v) + Len(buf) + 1].part \in {"head", "block"}

(* Either the buffer is used up and more of the block is there, or the whole  *)
(* block is, and its line end with it.                                        *)
Taken(taken, b, v, buf) ==
  \E k \in Nat :
    /\ taken.rest \in Seq(CTokens) /\ RestOf(taken.rest, buf, k)
    /\ \/ /\ taken.value \in Seq(CBytes) /\ Len(taken.value) < Len(b)
          /\ \A i \in 1..Len(taken.value) : taken.value[i] = b[i]
          /\ Len(taken.value) = Len(v) + k
       \/ taken.value = b /\ 3 + Len(v) + k = Len(b) + 5

LEMMA BlockTaken ==
  ASSUME NEW r, NEW b \in Seq(CBytes), NEW m, NEW v, NEW buf, Continues(m, r, b, v, buf)
  PROVE  Taken(TakeBlock(v, Len(b), buf), b, v, buf)
<1> DEFINE taken == TakeBlock(v, Len(b), buf)
<1> SUFFICES Taken(taken, b, v, buf)
  OBVIOUS
<1> DEFINE L == Len(b)
           n == Had(v, L, buf)
           d == EndBehind(buf, n)
<1>1. /\ v \in Seq(CBytes) /\ buf \in Seq(CTokens) /\ Len(v) < L /\ 3 + Len(v) + Len(buf) <= L + 8
      /\ \A i \in 1..Len(v) : v[i] = b[i]
      /\ \A i \in 1..Len(buf) : buf[i] = m[(3 + Len(v)) + i]
      /\ 3 + Len(v) + Len(buf) < L + 8 => m[3 + Len(v) + Len(buf) + 1].part \in {"head", "block"}
  BY DEF Continues
<1>2. L \in Nat /\ Len(v) \in Nat /\ Len(buf) \in Nat /\ Len(v) <= L
  BY <1>1
<1>3. /\ \A j \in 1..L : m[3 + j] = Token(b[j], "block", ValueId(r, b))
      /\ m[3 + (L + 1)] = Token(CR, "end", ValueId(r, b))
      /\ m[3 + (L + 2)] = Token(LF, "end", ValueId(r, b))
  BY DEF Continues, IsValueReply
<1>4. /\ n \in 0..Len(buf)
      /\ taken.value \in Seq(CBytes) /\ Len(taken.value) = Len(v) + n
      /\ \A i \in 1..Len(v) : taken.value[i] = v[i]
      /\ \A i \in 1..n : taken.value[Len(v) + i] = buf[i].byte
      /\ taken.rest \in Seq(CTokens) /\ RestOf(taken.rest, buf, n + d)
  <2>1. \A t \in CTokens : t.byte \in CBytes
    BY DEF CTokens, TokensOf
  <2>2. v \in Seq(CBytes) /\ buf \in Seq(CTokens) /\ L \in Nat /\ Len(v) <= L
    BY <1>1, <1>2
  <2>3. taken = TakeBlock(v, L, buf)
    OBVIOUS
  <2> HIDE DEF L, taken
  <2>q. QED BY <2>1, <2>2, <2>3, TakeBlockTakes
<1>5. n = IF L - Len(v) <= Len(buf) THEN L - Len(v) ELSE Len(buf)
  BY DEF Had
<1>6. d = CrBehind(buf, n) + LfBehind(buf, n + CrBehind(buf, n))
  BY DEF EndBehind
<1> HIDE DEF n, d, L, taken
<1>7. n \in Nat /\ n <= Len(buf) /\ Len(v) + n <= L
  BY <1>2, <1>4, <1>5
<1>8. \A i \in 1..Len(v) + n : taken.value[i] = b[i]
  <2>1. ASSUME NEW i \in 1..n PROVE taken.value[Len(v) + i] = b[Len(v) + i]
    <3>1. i \in 1..Len(buf) /\ Len(v) + i \in 1..L /\ (3 + Len(v)) + i = 3 + (Len(v) + i)
      BY <1>2, <1>7
    <3>2. buf[i] = Token(b[Len(v) + i], "block", ValueId(r, b))
      BY <1>1, <1>3, <3>1
    <3>q. QED BY <1>4, <3>2 DEF Token
  <2>2. ASSUME NEW i \in 1..Len(v) + n PROVE taken.value[i] = b[i]
    <3>1. CASE i \in 1..Len(v)
      BY <1>1, <1>4, <3>1
    <3>2. CASE i \notin 1..Len(v)
      <4>1. i - Len(v) \in 1..n /\ i = Len(v) + (i - Len(v))
        BY <1>2, <1>7, <3>2
      <4>q. QED BY <2>1, <4>1
    <3>q. QED BY <3>1, <3>2
  <2>q. QED BY <2>2
<1>9. CASE Len(v) + n # L
  <2>1. n = Len(buf) /\ Len(v) + n < L
    <3>1. n # L - Len(v)
      BY <1>2, <1>7, <1>9
    <3>2. n = Len(buf)
      BY <1>5, <3>1
    <3>q. QED BY <1>2, <1>7, <1>9, <3>2
  <2>2. CrBehind(buf, n) = 0 /\ LfBehind(buf, n) = 0
    BY <1>7, <2>1 DEF CrBehind, LfBehind
  <2>3. d = 0 /\ n + d = n
    <3>1. n + 0 = n
      BY <1>7
    <3>q. QED BY <1>6, <2>2, <3>1
  <2>4. Len(taken.value) < L /\ \A i \in 1..Len(taken.value) : taken.value[i] = b[i]
    BY <1>4, <1>8, <2>1
  <2>q. QED BY <1>4, <1>7, <2>3, <2>4 DEF L, Taken
<1>10. CASE Len(v) + n = L
  <2>1. taken.value = b
    <3>1. /\ Len(taken.value) = L /\ taken.value \in Seq(CBytes) /\ b \in Seq(CBytes)
          /\ \A i \in 1..L : taken.value[i] = b[i]
      BY <1>4, <1>8, <1>10
    <3>q. QED BY <1>2, <3>1, SeqEqual DEF L
  <2>2. Len(buf) >= n + 2
    <3>1. CASE Len(buf) = n
      <4>1. 3 + Len(v) + Len(buf) < L + 8 /\ 3 + Len(v) + Len(buf) + 1 = 3 + (L + 1)
        BY <1>2, <1>7, <1>10, <3>1
      <4>q. QED BY <1>1, <1>3, <4>1 DEF Token
    <3>2. CASE Len(buf) = n + 1
      <4>1. 3 + Len(v) + Len(buf) < L + 8 /\ 3 + Len(v) + Len(buf) + 1 = 3 + (L + 2)
        <5>1. 3 + Len(v) + Len(buf) = 3 + (L + 1)
          BY <1>2, <1>7, <1>10, <3>2
        <5>q. QED BY <1>2, <5>1
      <4>q. QED BY <1>1, <1>3, <4>1 DEF Token
    <3>q. QED BY <1>2, <1>7, <3>1, <3>2
  <2>3. buf[n + 1].byte = CR /\ buf[n + 2].byte = LF
    <3>1. n + 1 \in 1..Len(buf) /\ n + 2 \in 1..Len(buf)
      BY <1>2, <1>7, <2>2
    <3>2. (3 + Len(v)) + (n + 1) = 3 + (L + 1) /\ (3 + Len(v)) + (n + 2) = 3 + (L + 2)
      BY <1>2, <1>7, <1>10
    <3>3. buf[n + 1] = m[3 + (L + 1)] /\ buf[n + 2] = m[3 + (L + 2)]
      BY <1>1, <3>1, <3>2
    <3>q. QED BY <1>3, <3>3 DEF Token
  <2>4. n < Len(buf) /\ n + 1 < Len(buf) /\ (n + 1) + 1 = n + 2
    BY <1>2, <1>7, <2>2
  <2>5. CrBehind(buf, n) = 1
    BY <2>3, <2>4 DEF CrBehind
  <2>6. LfBehind(buf, n + 1) = 1
    BY <2>3, <2>4 DEF LfBehind
  <2>7. d = 2
    BY <1>6, <2>5, <2>6
  <2>8. n + d \in Nat /\ 3 + Len(v) + (n + d) = L + 5
    BY <1>2, <1>7, <1>10, <2>7
  <2>q. QED BY <1>4, <2>1, <2>8 DEF L, Taken
<1>q. QED BY <1>9, <1>10

LEMMA FirstIsNow ==
  ASSUME Books, dataHandlerQueue # <<>>
  PROVE  Head(dataHandlerQueue) = Now
<1>1. dataHandlerQueue \in Seq(Nat) /\ Len(dataHandlerQueue) \in Nat /\ Now \in Nat
  BY BooksAre DEF Books, BookTypes
<1>2. 1 \in 1..Len(dataHandlerQueue)
  BY <1>1
<1>3. dataHandlerQueue[1] = Now + (1 - 1)
  BY <1>2 DEF Books, Queued
<1>4. Head(dataHandlerQueue) = dataHandlerQueue[1]
  BY <1>1
<1>q. QED BY <1>1, <1>3, <1>4

(* The buffer ends the reply, and the handler answers with what was meant.    *)
LEMMA AnsweredKeeps ==
  ASSUME Books, NoneTorn, NEW w, NEW at, Written(w, at), clientBuffer # <<>>,
         (Pos(w) - at[Now]) + Len(clientBuffer) = Len(Reply(Now)),
         Resolve(sent[Now]), clientBuffer' = <<>>,
         UNCHANGED <<requests, toServer, fromServer, sent>>
  PROVE  Books' /\ NoneTorn' /\ Written(w, at)'
<1> DEFINE o == Pos(w) - at[Now]
           m == Reply(Now)
           k == Len(clientBuffer)
<1>1. /\ Now \in 1..Len(sent) /\ o \in Nat /\ Pos(w) = at[Now] + o
      /\ k \in Nat /\ Len(m) \in Nat
  BY ChunkInReply DEF ChunkAt
<1>2. at[Now] \in Nat /\ at[Now + 1] = at[Now] + Len(m)
  BY <1>1, ReplyOnWire
<1>3. Now <= Len(sent) /\ Now \in Nat
  BY <1>1
<1>4. Books' /\ Now' = Now + 1 /\ getState' = NewHandler
  BY <1>3, ResolveBooks
<1>5. Pos(w) + k = at[Now']
  <2>1. o + k = Len(m)
    OBVIOUS
  <2> HIDE DEF o, m, k
  <2>2. at[Now] + o + k = at[Now] + Len(m)
    <3>1. \A x, y, z \in Nat : x + y + z = x + (y + z)
      OBVIOUS
    <3>2. at[Now] \in Nat /\ o \in Nat /\ k \in Nat
      BY <1>1, <1>2
    <3>3. at[Now] + o + k = at[Now] + (o + k)
      BY <3>1, <3>2
    <3>q. QED BY <2>1, <3>3
  <2>q. QED BY <1>1, <1>2, <1>4, <2>2
<1>6. RestOf(clientBuffer', clientBuffer, k) /\ clientBuffer' \in Seq(CTokens)
  <2>1. k \in 0..k /\ Len(clientBuffer') = k - k /\ 1..k - k = {}
    BY <1>1
  <2>q. QED BY <2>1, EmptySeq DEF RestOf
<1>7. Begun(getState', at[Now'], Pos(w) + k)
  BY <1>4, <1>5 DEF Begun
<1> HIDE DEF k, m, o
<1>8. Written(w, at)'
  <2>1. HandlerAt(getState', Now', Len(sent), requests[Now'].kind, sent[Now'], at[Now'],
                  Pos(w) + k, clientBuffer')
    BY <1>7 DEF HandlerAt
  <2>2. clientBuffer' # <<>> => Now' = Now
    OBVIOUS
  <2>q. QED BY <1>6, <2>1, <2>2, HandlerGoesOn
<1>9. NoneTorn'
  BY DEF NoneTorn
<1>q. QED BY <1>4, <1>8, <1>9

(* The reply to a save or a delete comes in one chunk.                        *)
LEMMA HandleStatusKeeps ==
  ASSUME Books, NoneTorn, NEW w, NEW at, Written(w, at), HandleStatus
  PROVE  Books' /\ NoneTorn' /\ Written(w, at)'
<1> DEFINE o == Pos(w) - at[Now]
           m == Reply(Now)
<1>1. /\ clientBuffer # <<>> /\ dataHandlerQueue # <<>>
      /\ requests[Head(dataHandlerQueue)].kind \in {"save", "delete"}
      /\ Resolve(BytesOf(clientBuffer)) /\ clientBuffer' = <<>>
      /\ UNCHANGED <<requests, toServer, fromServer, sent>>
  BY DEF HandleStatus, Running
<1>2. requests[Now].kind \in {"save", "delete"}
  BY <1>1, FirstIsNow
<1>3. /\ Now \in 1..Len(sent) /\ o \in Nat /\ Pos(w) = at[Now] + o
      /\ clientBuffer \in Seq(CTokens) /\ Len(clientBuffer) \in Nat /\ Len(clientBuffer) # 0
      /\ o + Len(clientBuffer) <= Len(m) /\ Len(m) \in Nat
      /\ \A i \in 1..Len(clientBuffer) : clientBuffer[i] = m[o + i]
      /\ o + Len(clientBuffer) < Len(m) => m[o + Len(clientBuffer) + 1].part \in {"head", "block"}
  BY <1>1, ChunkInReply DEF ChunkAt
<1>4. /\ IsAnswerTo(Now, requests[Now].kind, sent[Now]) /\ requests[Now].kind \in CallKinds
      /\ at[Now] \in Nat /\ Now \in Nat /\ m \in Seq(RTokens(Now))
  BY <1>3, ReplyOnWire
<1>5. m = StatusReply(Now, requests[Now].kind) /\ sent[Now] = BytesOf(m)
  <2>1. requests[Now].kind # "get"
    BY <1>2
  <2>q. QED BY <1>4, <2>1 DEF Reply, ReplyTo, IsAnswerTo
<1>6. o = 0
  <2>1. HandlerAt(getState, Now, Len(sent), requests[Now].kind, sent[Now], at[Now], Pos(w), clientBuffer)
    BY DEF Written
  <2>2. Pos(w) = at[Now]
    BY <1>2, <2>1 DEF HandlerAt, Begun
  <2>q. QED BY <1>4, <2>2
<1>7. \A i \in 2..Len(m) : m[i].part = "line"
  BY <1>4, <1>5, StatusIs
<1> HIDE DEF o, m
<1>8. Len(clientBuffer) = Len(m)
  <2> SUFFICES ASSUME Len(clientBuffer) # Len(m) PROVE FALSE
    OBVIOUS
  <2>1. Len(clientBuffer) + 1 \in 2..Len(m) /\ 0 + Len(clientBuffer) + 1 = Len(clientBuffer) + 1
        /\ 0 + Len(clientBuffer) < Len(m)
    BY <1>3, <1>6
  <2>2. m[Len(clientBuffer) + 1].part \in {"head", "block"}
    BY <1>3, <1>6, <2>1
  <2>q. QED BY <1>7, <2>1, <2>2
<1>9. clientBuffer = m
  <2>1. m \in Seq(CTokens)
    BY <1>4, RTokensAre
  <2>2. \A i \in 1..Len(clientBuffer) : clientBuffer[i] = m[i]
    BY <1>3, <1>6
  <2>q. QED BY <1>3, <1>8, <2>1, <2>2, SeqEqual
<1>10. Resolve(sent[Now])
  BY <1>1, <1>5, <1>9
<1>11. o + Len(clientBuffer) = Len(m)
  BY <1>3, <1>6, <1>8
<1>q. QED BY <1>1, <1>10, <1>11, AnsweredKeeps DEF o, m

LEMMA RestOfRest ==
  ASSUME NEW T, NEW b \in Seq(T), NEW c \in Seq(T), NEW s, NEW j, NEW k,
         RestOf(c, b, j), RestOf(s, c, k)
  PROVE  RestOf(s, b, j + k)
<1>1. /\ j \in 0..Len(b) /\ Len(c) = Len(b) - j /\ \A i \in 1..Len(b) - j : c[i] = b[j + i]
      /\ k \in 0..Len(c) /\ Len(s) = Len(c) - k /\ \A i \in 1..Len(c) - k : s[i] = c[k + i]
  BY DEF RestOf
<1>2. Len(b) \in Nat /\ Len(c) \in Nat
  OBVIOUS
<1>3. j \in Nat /\ k \in Nat /\ Len(c) = Len(b) - j /\ k <= Len(c) /\ j <= Len(b)
  BY <1>1, <1>2
<1>4. j + k \in 0..Len(b) /\ Len(c) - k = Len(b) - (j + k)
  BY <1>2, <1>3
<1>5. ASSUME NEW i \in 1..Len(b) - (j + k) PROVE s[i] = b[(j + k) + i]
  <2>1. i \in 1..Len(c) - k /\ k + i \in 1..Len(b) - j
    BY <1>2, <1>3, <1>4
  <2>2. j + (k + i) = (j + k) + i
    BY <1>3, <2>1
  <2>q. QED BY <1>1, <2>1, <2>2
<1>q. QED BY <1>1, <1>4, <1>5 DEF RestOf

(* What becomes of the handler after more of a block.                         *)
LEMMA RecordChanges ==
  ASSUME NEW V, NEW R, NEW g \in [awaited : Nat, value : V, results : R, done : BOOLEAN],
         NEW n \in Nat, NEW z \in V, NEW e \in R
  PROVE  /\ LET s == [g EXCEPT !.awaited = n, !.value = z, !.results = e]
            IN  /\ s \in [awaited : Nat, value : V, results : R, done : BOOLEAN]
                /\ s.awaited = n /\ s.value = z /\ s.results = e /\ s.done = g.done
         /\ LET s == [g EXCEPT !.awaited = n, !.value = z]
            IN  /\ s \in [awaited : Nat, value : V, results : R, done : BOOLEAN]
                /\ s.awaited = n /\ s.value = z /\ s.results = g.results /\ s.done = g.done
         /\ LET s == [g EXCEPT !.done = TRUE] IN s.done = TRUE /\ s.results = g.results
OBVIOUS

After(s, bytes, v) ==
  /\ s \in HandlerStates /\ s.done = FALSE
  /\ Len(v) = bytes => s.awaited = 0 /\ s.results = <<v>>
  /\ Len(v) # bytes => s.awaited = bytes /\ s.value = v /\ s.results = <<>>

LEMMA AfterBlock ==
  ASSUME getState \in HandlerStates, getState.results = <<>>, getState.done = FALSE,
         NEW bytes \in Nat, NEW taken, taken.value \in Seq(CBytes)
  PROVE  After(WithBlock(bytes, taken), bytes, taken.value)
<1> DEFINE s == WithBlock(bytes, taken)
<1> SUFFICES After(s, bytes, taken.value)
  OBVIOUS
<1> DEFINE e == Append(getState.results, taken.value)
           v == taken.value
           V == Seq(CBytes)
           R == Seq(Seq(CBytes))
<1>1. e \in R /\ e = <<v>> /\ <<>> \in V /\ v \in V /\ 0 \in Nat
  BY EmptySeq
<1>2. getState \in [awaited : Nat, value : V, results : R, done : BOOLEAN]
  BY DEF HandlerStates
<1>3. s = IF Len(v) = bytes
          THEN [getState EXCEPT !.awaited = 0, !.value = <<>>, !.results = e]
          ELSE [getState EXCEPT !.awaited = bytes, !.value = v]
  BY DEF WithBlock
<1> HIDE DEF e, v, V, R, s
<1>4. CASE Len(v) = bytes
  <2> DEFINE q == [getState EXCEPT !.awaited = 0, !.value = <<>>, !.results = e]
  <2>1. /\ q \in [awaited : Nat, value : V, results : R, done : BOOLEAN]
        /\ q.awaited = 0 /\ q.results = e /\ q.done = getState.done
    BY <1>1, <1>2, RecordChanges
  <2>2. s = q
    BY <1>3, <1>4
  <2> HIDE DEF q
  <2>q. QED BY <1>1, <1>4, <2>1, <2>2 DEF HandlerStates, v, V, R, After
<1>5. CASE Len(v) # bytes
  <2> DEFINE q == [getState EXCEPT !.awaited = bytes, !.value = v]
  <2>1. /\ q \in [awaited : Nat, value : V, results : R, done : BOOLEAN]
        /\ q.awaited = bytes /\ q.value = v /\ q.results = getState.results /\ q.done = getState.done
    BY <1>1, <1>2, RecordChanges
  <2>2. s = q
    BY <1>3, <1>5
  <2> HIDE DEF q
  <2>q. QED BY <1>5, <2>1, <2>2 DEF HandlerStates, v, V, R, After
<1>q. QED BY <1>4, <1>5

LEMMA BooksStay ==
  ASSUME Books, UNCHANGED <<requests, waiting, toServer, sent, dataHandlerQueue, answers>>
  PROVE  Books' /\ Now' = Now
BY DEF Books, BookTypes, Queued, Awaited, Given, Now

(* After the line of a reply, or in the middle of its block.                  *)
LEMMA BlockKeeps ==
  ASSUME Books, NoneTorn, NEW w, NEW at, Written(w, at), clientBuffer # <<>>, Now \in 1..Len(sent),
         NEW b \in Values, requests[Now].kind = "get", sent[Now] = <<b>>,
         getState \in HandlerStates, getState.results = <<>>, getState.done = FALSE,
         NEW v, NEW buf, Continues(Reply(Now), Now, b, v, buf),
         NEW j, RestOf(buf, clientBuffer, j), Pos(w) + j = at[Now] + (3 + Len(v)),
         NEW taken, taken = TakeBlock(v, Len(b), buf),
         ContinueGet(taken.rest, WithBlock(Len(b), taken))
  PROVE  Books' /\ NoneTorn' /\ Written(w, at)'
<1> DEFINE state == WithBlock(Len(b), taken)
           m == Reply(Now)
<1>1. b \in Seq(CBytes) /\ Len(b) \in Nat
  BY ValueIs
<1>2. Taken(taken, b, v, buf)
  BY <1>1, BlockTaken, Zenon
<1>p. PICK k \in Nat :
        /\ taken.rest \in Seq(CTokens) /\ RestOf(taken.rest, buf, k)
        /\ \/ /\ taken.value \in Seq(CBytes) /\ Len(taken.value) < Len(b)
              /\ \A i \in 1..Len(taken.value) : taken.value[i] = b[i]
              /\ Len(taken.value) = Len(v) + k
           \/ taken.value = b /\ 3 + Len(v) + k = Len(b) + 5
  BY <1>2 DEF Taken
<1>3. taken.value \in Seq(CBytes)
  BY <1>1, <1>p
<1>0. After(state, Len(b), taken.value)
  BY <1>1, <1>3, AfterBlock, Zenon
<1>4. /\ state \in HandlerStates /\ state.done = FALSE
      /\ Len(taken.value) = Len(b) => state.awaited = 0 /\ state.results = <<taken.value>>
      /\ Len(taken.value) # Len(b) =>
           state.awaited = Len(b) /\ state.value = taken.value /\ state.results = <<>>
  BY <1>0 DEF After
<1> HIDE DEF state
<1>5. /\ clientBuffer' = taken.rest /\ getState' = state
      /\ UNCHANGED <<requests, waiting, toServer, fromServer, sent, dataHandlerQueue, answers>>
  BY <1>4 DEF ContinueGet, state
<1>6. Books' /\ Now' = Now
  BY <1>5, BooksStay
<1>7. Len(v) \in Nat /\ buf \in Seq(CTokens) /\ clientBuffer \in Seq(CTokens)
  BY DEF Continues, Written
<1>8. RestOf(clientBuffer', clientBuffer, j + k) /\ clientBuffer' \in Seq(CTokens)
  BY <1>5, <1>7, <1>p, RestOfRest
<1>9. /\ at[Now] \in Nat /\ Pos(w) \in Nat /\ j \in Int
  <2>1. Pos(w) \in Nat /\ j \in 0..Len(clientBuffer)
    BY DEF Written, RestOf
  <2>q. QED BY <2>1, ReplyOnWire
<1>10. Pos(w) + (j + k) = at[Now] + (3 + Len(v) + k)
  <2>1. \A p, q, r \in Int : p + (q + r) = (p + q) + r
    OBVIOUS
  <2>2. Pos(w) + (j + k) = (Pos(w) + j) + k
    BY <1>9, <2>1
  <2>3. (at[Now] + (3 + Len(v))) + k = at[Now] + (3 + Len(v) + k)
    <3>1. \A p, q \in Nat : (p + (3 + q)) + k = p + (3 + q + k)
      OBVIOUS
    <3>q. QED BY <1>7, <1>9, <3>1, Zenon
  <2>q. QED BY <2>2, <2>3
<1>11. \/ InBlock(state, b, at[Now], Pos(w) + (j + k))
       \/ HasBlock(state, b, at[Now], Pos(w) + (j + k))
  <2>1. CASE /\ taken.value \in Seq(CBytes) /\ Len(taken.value) < Len(b)
             /\ \A i \in 1..Len(taken.value) : taken.value[i] = b[i]
             /\ Len(taken.value) = Len(v) + k
    <3>1. Len(taken.value) # Len(b) /\ Len(taken.value) \in Nat
      BY <1>1, <2>1
    <3>2. /\ state \in HandlerStates /\ state.awaited = Len(b) /\ state.value = taken.value
          /\ state.results = <<>> /\ state.done = FALSE
      BY <1>4, <3>1
    <3>3. Pos(w) + (j + k) = at[Now] + 3 + Len(taken.value)
      <4>1. 3 + Len(v) + k = 3 + Len(taken.value)
        BY <1>7, <2>1
      <4>2. \A p, q \in Nat : p + (3 + q) = p + 3 + q
        OBVIOUS
      <4>3. at[Now] + (3 + Len(taken.value)) = at[Now] + 3 + Len(taken.value)
        BY <1>9, <3>1, <4>2, Zenon
      <4>q. QED BY <1>10, <4>1, <4>3
    <3>q. QED BY <2>1, <3>2, <3>3 DEF InBlock
  <2>2. CASE taken.value = b /\ 3 + Len(v) + k = Len(b) + 5
    <3>1. state \in HandlerStates /\ state.awaited = 0 /\ state.results = <<b>> /\ state.done = FALSE
      BY <1>4, <2>2
    <3>2. Pos(w) + (j + k) = at[Now] + (Len(b) + 5)
      BY <1>10, <2>2
    <3>q. QED BY <3>1, <3>2 DEF HasBlock
  <2>q. QED BY <1>p, <2>1, <2>2
<1>12. HandlerAt(getState', Now', Len(sent), requests[Now'].kind, sent[Now'], at[Now'],
                 Pos(w) + (j + k), clientBuffer')
  <2>1. Now <= Len(sent)
    BY <1>9
  <2>q. QED BY <1>5, <1>6, <1>11, <2>1 DEF HandlerAt
<1>13. Written(w, at)'
  BY <1>5, <1>6, <1>8, <1>12, HandlerGoesOn
<1>14. NoneTorn'
  BY <1>5 DEF NoneTorn
<1>q. QED BY <1>6, <1>13, <1>14

NewHandlerIs == NewHandler \in HandlerStates /\ NewHandler.results = <<>> /\ NewHandler.done = FALSE
                /\ NewHandler.awaited = 0

LEMMA NewHandlers == NewHandlerIs
<1>1. <<>> \in Seq(CBytes) /\ <<>> \in Seq(Seq(CBytes))
  BY EmptySeq
<1>q. QED BY <1>1 DEF NewHandlerIs, NewHandler, HandlerStates

(* A get whose reply is being handled, in the states its handler may be in.   *)
LEMMA GetCases ==
  ASSUME Books, NoneTorn, NEW w, NEW at, Written(w, at), clientBuffer # <<>>,
         requests[Now].kind = "get"
  PROVE  /\ Now \in 1..Len(sent)
         /\ \/ sent[Now] = <<>> /\ Begun(getState, at[Now], Pos(w))
            \/ \E b \in Values : /\ sent[Now] = <<b>>
                                 /\ \/ Begun(getState, at[Now], Pos(w))
                                    \/ InBlock(getState, b, at[Now], Pos(w))
                                    \/ HasBlock(getState, b, at[Now], Pos(w))
                                    \/ Stuck(getState, b, at[Now], Pos(w), clientBuffer)
<1>1. Now \in 1..Len(sent)
  BY ChunkInReply DEF ChunkAt
<1>2. HandlerAt(getState, Now, Len(sent), requests[Now].kind, sent[Now], at[Now], Pos(w), clientBuffer)
  BY DEF Written
<1>3. IsAnswerTo(Now, requests[Now].kind, sent[Now])
  BY <1>1, ReplyOnWire
<1>4. sent[Now] = <<>> \/ \E b \in Values : sent[Now] = <<b>>
  BY <1>3 DEF IsAnswerTo
<1>5. CASE Begun(getState, at[Now], Pos(w))
  BY <1>1, <1>4, <1>5
<1>6. CASE ~Begun(getState, at[Now], Pos(w))
  BY <1>1, <1>2, <1>6 DEF HandlerAt
<1>q. QED BY <1>5, <1>6

(* What is found where a line of the reply is in the buffer.                  *)
LineFound(id) ==
  /\ StartsWithLine(clientBuffer) /\ clientBuffer[1].id = id /\ Len(clientBuffer) >= 3
  /\ AfterLine(clientBuffer) \in Seq(CTokens) /\ RestOf(AfterLine(clientBuffer), clientBuffer, 3)

LEMMA LineIsFound ==
  ASSUME Books, NoneTorn, NEW w, NEW at, Written(w, at), clientBuffer # <<>>,
         NEW o, o = Pos(w) - at[Now], NEW m, m = Reply(Now), o + 3 <= Len(m),
         NEW id, m[o + 1] = Token(HEAD, "head", id),
         m[o + 2] = Token(CR, "line", id), m[o + 3] = Token(LF, "line", id)
  PROVE  LineFound(id)
<1>1. /\ Now \in 1..Len(sent) /\ o \in Nat /\ Pos(w) = at[Now] + o
      /\ clientBuffer \in Seq(CTokens) /\ Len(clientBuffer) \in Nat /\ Len(clientBuffer) # 0
      /\ o + Len(clientBuffer) <= Len(m) /\ Len(m) \in Nat
      /\ \A i \in 1..Len(clientBuffer) : clientBuffer[i] = m[o + i]
      /\ o + Len(clientBuffer) < Len(m) => m[o + Len(clientBuffer) + 1].part \in {"head", "block"}
  <2>1. Now \in 1..Len(sent) /\ o \in Nat /\ Pos(w) = at[Now] + o /\ ChunkAt(clientBuffer, m, o)
    BY ChunkInReply
  <2>q. QED BY <2>1, Zenon DEF ChunkAt
<1>2. m[o + 2].part = "line" /\ m[o + 3].part = "line"
  BY DEF Token
<1>3. Len(clientBuffer) >= 3
  <2>1. CASE Len(clientBuffer) = 1
    <3>1. o + Len(clientBuffer) < Len(m) /\ o + Len(clientBuffer) + 1 = o + 2
      BY <1>1, <2>1
    <3>q. QED BY <1>1, <1>2, <3>1
  <2>2. CASE Len(clientBuffer) = 2
    <3>1. o + Len(clientBuffer) < Len(m) /\ o + Len(clientBuffer) + 1 = o + 3
      BY <1>1, <2>2
    <3>q. QED BY <1>1, <1>2, <3>1
  <2>3. Len(clientBuffer) \in Nat /\ Len(clientBuffer) # 0
    BY <1>1
  <2>4. Len(clientBuffer) # 1 /\ Len(clientBuffer) # 2
    BY <1>1, <1>2, <2>1, <2>2
  <2>5. \A k \in Nat : k # 0 /\ k # 1 /\ k # 2 => k >= 3
    OBVIOUS
  <2>q. QED BY <2>3, <2>4, <2>5, Zenon
<1>4. 1 \in 1..Len(clientBuffer) /\ 2 \in 1..Len(clientBuffer) /\ 3 \in 1..Len(clientBuffer)
  BY <1>1, <1>3
<1>5. clientBuffer[1] = m[o + 1] /\ clientBuffer[2] = m[o + 2] /\ clientBuffer[3] = m[o + 3]
  BY <1>1, <1>4
<1>6. /\ clientBuffer[1].byte = HEAD /\ clientBuffer[1].id = id
      /\ clientBuffer[2].byte = CR /\ clientBuffer[3].byte = LF
  BY <1>5 DEF Token
<1>7. StartsWithLine(clientBuffer)
  BY <1>1, <1>3, <1>6, LineStarts
<1>8. AfterLine(clientBuffer) \in Seq(CTokens) /\ RestOf(AfterLine(clientBuffer), clientBuffer, 3)
  <2>1. 3 \in 0..Len(clientBuffer) /\ 3 + 1 = 4
    BY <1>1, <1>3
  <2>0. clientBuffer \in Seq(CTokens)
    BY <1>1
  <2>2. LET s == SubSeq(clientBuffer, 3 + 1, Len(clientBuffer))
        IN  /\ s \in Seq(CTokens) /\ Len(s) = Len(clientBuffer) - 3
            /\ \A i \in 1..Len(clientBuffer) - 3 : s[i] = clientBuffer[3 + i]
    BY <2>0, <2>1, SuffixOf, Zenon
  <2>3. AfterLine(clientBuffer) = SubSeq(clientBuffer, 3 + 1, Len(clientBuffer))
    BY DEF AfterLine
  <2>q. QED BY <2>1, <2>2, <2>3, Zenon DEF RestOf
<1>q. QED BY <1>3, <1>6, <1>7, <1>8 DEF LineFound

(* The line END at the end of a reply.                                        *)
LEMMA EndKeeps ==
  ASSUME Books, NoneTorn, NEW w, NEW at, Written(w, at), HandleGetLine, clientBuffer # <<>>,
         NEW o, o = Pos(w) - at[Now], NEW m, m = Reply(Now), o + 3 = Len(m),
         LineFound(EndId(Now)),
         getState \in HandlerStates, getState.results = sent[Now]
  PROVE  Books' /\ NoneTorn' /\ Written(w, at)'
<1>1. /\ o \in Nat /\ Len(clientBuffer) \in Nat /\ Len(m) \in Nat /\ o + Len(clientBuffer) <= Len(m)
  BY ChunkInReply DEF ChunkAt
<1>2. Len(clientBuffer) = 3
  <2>1. Len(clientBuffer) >= 3
    BY DEF LineFound
  <2>2. \A p, k, l \in Nat : p + 3 = l /\ p + k <= l /\ k >= 3 => k = 3
    OBVIOUS
  <2>q. QED BY <1>1, <2>1, <2>2
<1>3. AfterLine(clientBuffer) = <<>>
  <2>1. AfterLine(clientBuffer) \in Seq(CTokens) /\ Len(AfterLine(clientBuffer)) = 3 - 3
    BY <1>2 DEF LineFound, RestOf
  <2>q. QED BY <2>1
<1>4. clientBuffer[1].id.line = "END"
  BY DEF LineFound, EndId, ReplyLine
<1>5. ContinueGet(<<>>, [getState EXCEPT !.done = TRUE])
  <2>1. "END" # "VALUE"
    OBVIOUS
  <2>q. QED BY <1>3, <1>4, <2>1 DEF HandleGetLine
<1> DEFINE s == [getState EXCEPT !.done = TRUE]
<1>6. s.done = TRUE /\ s.results = sent[Now]
  <2>1. getState \in [awaited : Nat, value : Seq(CBytes), results : Seq(Seq(CBytes)), done : BOOLEAN]
    BY DEF HandlerStates
  <2>q. QED BY <2>1 
<1> HIDE DEF s
<1>7. /\ clientBuffer' = <<>> /\ Resolve(sent[Now])
      /\ UNCHANGED <<requests, toServer, fromServer, sent>>
  <2>1. ContinueGet(<<>>, s)
    BY <1>5 DEF s
  <2>q. QED BY <1>6, <2>1 DEF ContinueGet
<1>8. (Pos(w) - at[Now]) + Len(clientBuffer) = Len(Reply(Now))
  BY <1>1, <1>2
<1>q. QED BY <1>7, <1>8, AnsweredKeeps

(* The line VALUE, and what is there of the block.                            *)
LEMMA ValueKeeps ==
  ASSUME Books, NoneTorn, NEW w, NEW at, Written(w, at), HandleGetLine, clientBuffer # <<>>,
         Now \in 1..Len(sent), requests[Now].kind = "get",
         Begun(getState, at[Now], Pos(w)), NEW b \in Values, sent[Now] = <<b>>,
         LineFound(ValueId(Now, b)), IsValueReply(Reply(Now), Now, b)
  PROVE  Books' /\ NoneTorn' /\ Written(w, at)'
<1> DEFINE m == Reply(Now)
           rest == AfterLine(clientBuffer)
<1>1. b \in Seq(CBytes) /\ Len(b) \in Nat
  BY ValueIs
<1>2. getState \in HandlerStates /\ getState.results = <<>> /\ getState.done = FALSE
  BY NewHandlers DEF NewHandlerIs, Begun
<1>3. at[Now] \in Nat
  BY ReplyOnWire
<1>4. Pos(w) = at[Now] /\ Pos(w) - at[Now] = 0
  BY <1>3 DEF Begun
<1>5. /\ clientBuffer \in Seq(CTokens) /\ Len(clientBuffer) \in Nat
      /\ 0 + Len(clientBuffer) <= Len(m) /\ Len(m) \in Nat
      /\ \A i \in 1..Len(clientBuffer) : clientBuffer[i] = m[0 + i]
      /\ 0 + Len(clientBuffer) < Len(m) => m[0 + Len(clientBuffer) + 1].part \in {"head", "block"}
  BY <1>4, ChunkInReply DEF ChunkAt
<1>6. /\ Len(m) = Len(b) + 8 /\ m[3 + (Len(b) + 1)] = Token(CR, "end", ValueId(Now, b))
  BY DEF IsValueReply
<1>7. /\ Len(clientBuffer) >= 3 /\ rest \in Seq(CTokens) /\ RestOf(rest, clientBuffer, 3)
      /\ clientBuffer[1].id.line = "VALUE" /\ clientBuffer[1].id.bytes = Len(b)
  BY DEF LineFound, ValueId, ReplyLine
<1>8. /\ Len(rest) = Len(clientBuffer) - 3
      /\ \A i \in 1..Len(clientBuffer) - 3 : rest[i] = clientBuffer[3 + i]
  BY <1>7 DEF RestOf
<1> DEFINE taken == IF Len(b) = 0 THEN [value |-> <<>>, rest |-> rest] ELSE TakeBlock(<<>>, Len(b), rest)
<1>9. ContinueGet(taken.rest, WithBlock(Len(b), taken))
  <2>1. "END" # "VALUE"
    OBVIOUS
  <2>q. QED BY <1>7, <2>1 DEF HandleGetLine
<1> HIDE DEF m, rest
<1>10. CASE Len(b) = 0
  <2> DEFINE t == [value |-> <<>>, rest |-> rest]
             s == WithBlock(0, t)
  <2>1. t.value = <<>> /\ t.rest = rest /\ <<>> \in Seq(CBytes) /\ Len(<<>>) = 0
    BY EmptySeq
  <2>2. ContinueGet(rest, s)
    BY <1>9, <1>10, <2>1
  <2> HIDE DEF t
  <2>3. After(s, 0, <<>>)
    <3>1. t.value \in Seq(CBytes) /\ 0 \in Nat
      BY <2>1
    <3>2. After(WithBlock(0, t), 0, t.value)
      BY <1>2, <3>1, AfterBlock, Zenon
    <3>q. QED BY <2>1, <3>2
  <2>4. s.awaited = 0 /\ s.done = FALSE
    BY <2>1, <2>3 DEF After
  <2> HIDE DEF s
  <2>5. /\ clientBuffer' = rest /\ getState' = s
        /\ UNCHANGED <<requests, waiting, toServer, fromServer, sent, dataHandlerQueue, answers>>
    BY <2>2, <2>4 DEF ContinueGet
  <2>6. Books' /\ Now' = Now
    BY <2>5, BooksStay
  <2>7. rest # <<>>
    <3>1. Len(clientBuffer) # 3
      <4> SUFFICES ASSUME Len(clientBuffer) = 3 PROVE FALSE
        OBVIOUS
      <4>1. 0 + Len(clientBuffer) < Len(m) /\ 0 + Len(clientBuffer) + 1 = 3 + (Len(b) + 1)
        BY <1>5, <1>6, <1>10
      <4>q. QED BY <1>5, <1>6, <4>1 DEF Token
    <3>q. QED BY <1>5, <1>7, <1>8, <3>1
  <2>8. b = <<>>
    BY <1>1, <1>10
  <2>9. HandlerAt(getState', Now', Len(sent), requests[Now'].kind, sent[Now'], at[Now'],
                  Pos(w) + 3, clientBuffer')
    <3>1. Stuck(getState', b, at[Now], Pos(w) + 3, clientBuffer')
      BY <1>4, <2>4, <2>5, <2>7, <2>8 DEF Stuck
    <3>2. Now <= Len(sent)
      BY BooksAre
    <3>q. QED BY <2>6, <3>1, <3>2 DEF HandlerAt
  <2>10. RestOf(clientBuffer', clientBuffer, 3) /\ clientBuffer' \in Seq(CTokens)
    BY <1>7, <2>5
  <2>11. Written(w, at)'
    BY <2>5, <2>6, <2>9, <2>10, HandlerGoesOn
  <2>12. NoneTorn'
    BY <2>5 DEF NoneTorn
  <2>q. QED BY <2>6, <2>11, <2>12
<1>11. CASE Len(b) # 0
  <2> DEFINE t == TakeBlock(<<>>, Len(b), rest)
  <2>1. ContinueGet(t.rest, WithBlock(Len(b), t))
    BY <1>9, <1>11
  <2>2. Continues(m, Now, b, <<>>, rest)
    <3>1. <<>> \in Seq(CBytes) /\ Len(<<>>) = 0
      BY EmptySeq
    <3>2. 0 < Len(b) /\ 3 + 0 + Len(rest) = Len(clientBuffer)
      BY <1>1, <1>5, <1>7, <1>8, <1>11
    <3>3. 3 + 0 + Len(rest) <= Len(b) + 8
      BY <1>5, <1>6, <3>2
    <3>4. ASSUME NEW i \in 1..Len(rest) PROVE rest[i] = m[(3 + 0) + i]
      <4>1. i \in 1..Len(clientBuffer) - 3 /\ 3 + i \in 1..Len(clientBuffer) /\ 0 + (3 + i) = (3 + 0) + i
        BY <1>5, <1>7, <1>8
      <4>q. QED BY <1>5, <1>8, <4>1
    <3>5. 3 + 0 + Len(rest) < Len(b) + 8 => m[3 + 0 + Len(rest) + 1].part \in {"head", "block"}
      BY <1>5, <1>6, <3>2
    <3>6. IsValueReply(m, Now, b)
      BY DEF m
    <3>q. QED BY <1>7, <3>1, <3>2, <3>3, <3>4, <3>5, <3>6 DEF Continues
  <2>3. Pos(w) + 3 = at[Now] + (3 + Len(<<>>))
    BY <1>3, <1>4
  <2> HIDE DEF t
  <2>4. t = TakeBlock(<<>>, Len(b), rest)
    BY DEF t
  <2>q. QED BY <1>2, <1>7, <2>1, <2>2, <2>3, <2>4, BlockKeeps DEF m
<1>q. QED BY <1>10, <1>11

LEMMA RunningGet ==
  ASSUME Books, Running({"get"})
  PROVE  clientBuffer # <<>> /\ requests[Now].kind = "get"
<1>1. /\ clientBuffer # <<>> /\ dataHandlerQueue # <<>>
      /\ requests[Head(dataHandlerQueue)].kind \in {"get"}
  BY DEF Running
<1>q. QED BY <1>1, FirstIsNow

LEMMA HandleGetLineKeeps ==
  ASSUME Books, NoneTorn, NEW w, NEW at, Written(w, at), HandleGetLine
  PROVE  Books' /\ NoneTorn' /\ Written(w, at)'
<1> DEFINE m == Reply(Now)
           o == Pos(w) - at[Now]
<1>1. getState.awaited = 0 /\ StartsWithLine(clientBuffer) /\ Running({"get"})
  BY DEF HandleGetLine
<1>2. clientBuffer # <<>> /\ requests[Now].kind = "get"
  BY <1>1, RunningGet
<1>3. Now \in 1..Len(sent)
  BY <1>2, GetCases
<1>4. /\ IsAnswerTo(Now, requests[Now].kind, sent[Now]) /\ at[Now] \in Nat /\ Now \in Nat
      /\ "get" \in CallKinds
  BY <1>3, ReplyOnWire DEF CallKinds
<1>5. m = ReplyTo(Now, "get", sent[Now])
  BY <1>2 DEF Reply
<1>6. CASE sent[Now] = <<>> /\ Begun(getState, at[Now], Pos(w))
  <2>1. Len(m) = 3 /\ Begins(m, EndId(Now))
    BY <1>2, <1>4, <1>5, <1>6, ReplyIs
  <2>2. o = 0 /\ getState = NewHandler
    BY <1>4, <1>6 DEF Begun
  <2>3. getState \in HandlerStates /\ getState.results = sent[Now]
    BY <1>6, <2>2, NewHandlers DEF NewHandlerIs
  <2> HIDE DEF m, o
  <2>4. o + 3 = Len(m)
    BY <2>1, <2>2
  <2>5. LineFound(EndId(Now))
    <3>1. /\ m[o + 1] = Token(HEAD, "head", EndId(Now)) /\ m[o + 2] = Token(CR, "line", EndId(Now))
          /\ m[o + 3] = Token(LF, "line", EndId(Now)) /\ o + 3 <= Len(m)
      BY <2>1, <2>2 DEF Begins
    <3>q. QED BY <1>2, <3>1, LineIsFound DEF m, o
  <2>q. QED BY <1>2, <2>3, <2>4, <2>5, EndKeeps DEF m, o
<1>7. ASSUME NEW b \in Values, sent[Now] = <<b>>,
             \/ Begun(getState, at[Now], Pos(w))
             \/ InBlock(getState, b, at[Now], Pos(w))
             \/ HasBlock(getState, b, at[Now], Pos(w))
             \/ Stuck(getState, b, at[Now], Pos(w), clientBuffer)
      PROVE  Books' /\ NoneTorn' /\ Written(w, at)'
  <2>1. IsValueReply(m, Now, b)
    BY <1>2, <1>4, <1>5, <1>7, ReplyIs
  <2>2. Len(m) = Len(b) + 8 /\ Len(b) \in Nat
    BY <2>1 DEF IsValueReply
  <2>3. CASE Begun(getState, at[Now], Pos(w))
    <3>1. o = 0
      BY <1>4, <2>3 DEF Begun
    <3>2. LineFound(ValueId(Now, b))
      <4> HIDE DEF m, o
      <4>1. /\ m[o + 1] = Token(HEAD, "head", ValueId(Now, b))
            /\ m[o + 2] = Token(CR, "line", ValueId(Now, b))
            /\ m[o + 3] = Token(LF, "line", ValueId(Now, b)) /\ o + 3 <= Len(m)
        BY <2>1, <2>2, <3>1 DEF Begins, IsValueReply
      <4>q. QED BY <1>2, <4>1, LineIsFound DEF m, o
    <3>q. QED BY <1>2, <1>3, <1>7, <2>1, <2>3, <3>2, ValueKeeps
  <2>4. CASE InBlock(getState, b, at[Now], Pos(w))
    <3>1. Len(getState.value) < Len(b) /\ Len(b) = 0 /\ Len(getState.value) \in Nat
      BY <1>1, <2>4 DEF InBlock
    <3>q. QED BY <3>1
  <2>5. CASE HasBlock(getState, b, at[Now], Pos(w))
    <3>1. o = Len(b) + 5
      <4>1. Pos(w) = at[Now] + (Len(b) + 5)
        BY <2>5 DEF HasBlock
      <4>2. \A p, q \in Nat : (p + (q + 5)) - p = q + 5
        OBVIOUS
      <4>q. QED BY <1>4, <2>2, <4>1, <4>2
    <3>2. getState \in HandlerStates /\ getState.results = sent[Now]
      BY <1>7, <2>5 DEF HasBlock
    <3> HIDE DEF m, o
    <3>3. o + 3 = Len(m)
      BY <2>2, <3>1
    <3>4. LineFound(EndId(Now))
      <4>1. /\ m[o + 1] = Token(HEAD, "head", EndId(Now)) /\ m[o + 2] = Token(CR, "line", EndId(Now))
            /\ m[o + 3] = Token(LF, "line", EndId(Now))
        BY <2>1, <3>1 DEF IsValueReply
      <4>2. o + 3 <= Len(m)
        BY <2>2, <3>1
      <4>q. QED BY <1>2, <4>1, <4>2, LineIsFound DEF m, o
    <3>q. QED BY <1>2, <3>2, <3>3, <3>4, EndKeeps DEF m, o
  <2>6. CASE Stuck(getState, b, at[Now], Pos(w), clientBuffer)
    <3>1. b = <<>> /\ Pos(w) = at[Now] + 3
      BY <2>6 DEF Stuck
    <3>2. o = 3
      BY <1>4, <3>1
    <3>3. /\ clientBuffer \in Seq(CTokens) /\ Len(clientBuffer) \in Nat /\ Len(clientBuffer) # 0
          /\ \A i \in 1..Len(clientBuffer) : clientBuffer[i] = m[o + i]
      BY <1>2, ChunkInReply DEF ChunkAt
    <3>4. Len(b) = 0 /\ m[3 + (Len(b) + 1)] = Token(CR, "end", ValueId(Now, b))
      BY <2>1, <3>1 DEF IsValueReply
    <3> HIDE DEF m, o
    <3>5. 1 \in 1..Len(clientBuffer) /\ o + 1 = 3 + (Len(b) + 1)
      BY <3>2, <3>3, <3>4
    <3>6. clientBuffer[1].byte = CR
      BY <3>3, <3>4, <3>5 DEF Token
    <3>7. clientBuffer[1].byte = HEAD
      BY <1>1, <3>3, LineStarts
    <3>q. QED BY <3>6, <3>7, ByteAssumption
  <2>q. QED BY <1>7, <2>3, <2>4, <2>5, <2>6
<1>8. \/ sent[Now] = <<>> /\ Begun(getState, at[Now], Pos(w))
      \/ \E b \in Values : /\ sent[Now] = <<b>>
                           /\ \/ Begun(getState, at[Now], Pos(w))
                              \/ InBlock(getState, b, at[Now], Pos(w))
                              \/ HasBlock(getState, b, at[Now], Pos(w))
                              \/ Stuck(getState, b, at[Now], Pos(w), clientBuffer)
  BY <1>2, GetCases
<1>q. QED BY <1>6, <1>7, <1>8

LEMMA HandleGetBlockKeeps ==
  ASSUME Books, NoneTorn, NEW w, NEW at, Written(w, at), HandleGetBlock
  PROVE  Books' /\ NoneTorn' /\ Written(w, at)'
<1> DEFINE m == Reply(Now)
           o == Pos(w) - at[Now]
<1>1. /\ getState.awaited # 0 /\ Running({"get"})
  BY DEF HandleGetBlock
<1>2. clientBuffer # <<>> /\ requests[Now].kind = "get"
  BY <1>1, RunningGet
<1>3. Now \in 1..Len(sent)
  BY <1>2, GetCases
<1>4. /\ IsAnswerTo(Now, requests[Now].kind, sent[Now]) /\ at[Now] \in Nat /\ Now \in Nat
      /\ "get" \in CallKinds
  BY <1>3, ReplyOnWire DEF CallKinds
<1>5. m = ReplyTo(Now, "get", sent[Now])
  BY <1>2 DEF Reply
<1>6. ~Begun(getState, at[Now], Pos(w))
  BY <1>1, NewHandlers DEF Begun, NewHandlerIs
<1>7. \A b : /\ ~HasBlock(getState, b, at[Now], Pos(w))
             /\ ~Stuck(getState, b, at[Now], Pos(w), clientBuffer)
  BY <1>1 DEF HasBlock, Stuck
<1>8. PICK b \in Values : sent[Now] = <<b>> /\ InBlock(getState, b, at[Now], Pos(w))
  BY <1>2, <1>6, <1>7, GetCases
<1> DEFINE v == getState.value
           t == TakeBlock(v, Len(b), clientBuffer)
<1>9. /\ getState \in HandlerStates /\ getState.awaited = Len(b) /\ getState.results = <<>>
      /\ getState.done = FALSE /\ v \in Seq(CBytes) /\ Len(v) < Len(b)
      /\ \A k \in 1..Len(v) : v[k] = b[k]
      /\ Pos(w) = at[Now] + 3 + Len(v)
  BY <1>8 DEF InBlock
<1>10. ContinueGet(t.rest, WithBlock(Len(b), t))
  BY <1>9 DEF HandleGetBlock
<1>11. IsValueReply(m, Now, b)
  BY <1>2, <1>4, <1>5, <1>8, ReplyIs
<1>12. Len(m) = Len(b) + 8 /\ Len(b) \in Nat
  BY <1>11 DEF IsValueReply
<1>13. /\ clientBuffer \in Seq(CTokens) /\ Len(clientBuffer) \in Nat
       /\ o + Len(clientBuffer) <= Len(m) /\ Len(m) \in Nat
       /\ \A i \in 1..Len(clientBuffer) : clientBuffer[i] = m[o + i]
       /\ o + Len(clientBuffer) < Len(m) => m[o + Len(clientBuffer) + 1].part \in {"head", "block"}
  BY <1>2, ChunkInReply DEF ChunkAt
<1>14. o = 3 + Len(v) /\ Pos(w) + 0 = at[Now] + (3 + Len(v))
  <2>1. Len(v) \in Nat
    BY <1>9
  <2>2. \A p, q \in Nat : (p + 3 + q) - p = 3 + q /\ (p + 3 + q) + 0 = p + (3 + q)
    OBVIOUS
  <2>3. Pos(w) = at[Now] + 3 + Len(v) /\ at[Now] \in Nat
    BY <1>4, <1>9
  <2> HIDE DEF v, t
  <2>4. (at[Now] + 3 + Len(v)) - at[Now] = 3 + Len(v)
        /\ (at[Now] + 3 + Len(v)) + 0 = at[Now] + (3 + Len(v))
    BY <2>1, <2>2, <2>3, Zenon
  <2>q. QED BY <2>3, <2>4
<1> HIDE DEF m, o, v, t
<1>15. Continues(m, Now, b, v, clientBuffer)
  BY <1>9, <1>11, <1>12, <1>13, <1>14 DEF Continues
<1>16. RestOf(clientBuffer, clientBuffer, 0)
  <2>1. 0 \in 0..Len(clientBuffer) /\ Len(clientBuffer) = Len(clientBuffer) - 0
    BY <1>13
  <2>2. \A i \in 1..Len(clientBuffer) - 0 : 0 + i = i
    BY <1>13
  <2>q. QED BY <2>1, <2>2 DEF RestOf
<1>17. t = TakeBlock(v, Len(b), clientBuffer)
  BY DEF t
<1>q. QED BY <1>2, <1>3, <1>8, <1>9, <1>10, <1>14, <1>15, <1>16, <1>17, BlockKeeps DEF m

(* What throws ends the process and touches nothing of this.                  *)
LEMMA ThrowingKeeps ==
  ASSUME Books, NoneTorn, NEW w, NEW at, Written(w, at),
         UNCHANGED <<requests, waiting, toServer, fromServer, sent, dataHandlerQueue,
                     clientBuffer, getState, answers>>
  PROVE  Books' /\ NoneTorn' /\ Written(w, at)'
<1>1. Books' /\ Now' = Now
  BY BooksStay
<1>2. NoneTorn'
  BY DEF NoneTorn
<1>3. Replies' = Replies /\ Pos(w)' = Pos(w)
  BY DEF Replies, Pos
<1>4. Written(w, at)'
  BY <1>1, <1>3 DEF Written
<1>q. QED BY <1>1, <1>2, <1>4

LEMMA CallKeeps ==
  ASSUME Books, NoneTorn, NEW w, NEW at, Written(w, at), NEW c \in Callers, NEW kind \in CallKinds,
         Call(c, kind)
  PROVE  Books' /\ NoneTorn' /\ Written(w, at)'
<1>1. Books' /\ Now' = Now /\ \A r \in 1..Len(requests) : requests'[r] = requests[r]
  BY CallBooks
<1>2. UNCHANGED <<fromServer, sent, clientBuffer, getState>>
  BY DEF Call
<1>3. NoneTorn'
  BY <1>2 DEF NoneTorn
<1>4. \A r \in 1..Len(sent) : requests'[r].kind = requests[r].kind
  <2>1. Len(sent) \in Nat /\ Len(requests) \in Nat /\ Len(sent) <= Len(requests)
    BY BooksAre
  <2>2. \A r \in 1..Len(sent) : r \in 1..Len(requests)
    BY <2>1
  <2>q. QED BY <1>1, <2>2
<1>5. Replies' = Replies /\ Pos(w)' = Pos(w)
  BY <1>2, <1>4 DEF Replies, Pos
<1>6. HandlerAt(getState, Now, Len(sent), requests'[Now].kind, sent[Now], at[Now], Pos(w), clientBuffer)
  <2>1. HandlerAt(getState, Now, Len(sent), requests[Now].kind, sent[Now], at[Now], Pos(w), clientBuffer)
    BY DEF Written
  <2>2. Now <= Len(sent) => Now \in 1..Len(sent)
    BY BooksAre
  <2>3. CASE Begun(getState, at[Now], Pos(w))
    BY <2>3 DEF HandlerAt
  <2>4. CASE ~Begun(getState, at[Now], Pos(w))
    <3>1. Now <= Len(sent)
      BY <2>1, <2>4 DEF HandlerAt
    <3>2. requests'[Now].kind = requests[Now].kind
      BY <1>4, <2>2, <3>1
    <3>q. QED BY <2>1, <3>2
  <2>q. QED BY <2>3, <2>4
<1>7. Written(w, at)'
  BY <1>1, <1>2, <1>5, <1>6 DEF Written
<1>q. QED BY <1>1, <1>3, <1>7

(* A chunk of one reply is of the reply that is due.                          *)
LEMMA ReceiveKeeps ==
  ASSUME Books, NoneTorn, NEW w, NEW at, Written(w, at),
         NEW n \in 1..Len(fromServer), ReceiveReply(n), ~misread'
  PROVE  Books' /\ NoneTorn' /\ Written(w, at)'
<1>1. /\ clientBuffer = <<>>
      /\ clientBuffer' = SubSeq(fromServer, 1, n)
      /\ fromServer' = SubSeq(fromServer, n + 1, Len(fromServer))
      /\ HarmlessCut(fromServer, n) /\ OneReply(n)
      /\ UNCHANGED <<requests, waiting, toServer, sent, dataHandlerQueue, getState, answers>>
  BY DEF ReceiveReply, Idle
<1>2. Books' /\ Now' = Now
  BY <1>1, BooksStay
<1>3. /\ fromServer \in Seq(CTokens) /\ w \in Seq(CTokens)
      /\ Layout(w, at, Replies, Len(sent))
      /\ \A i \in 1..Len(w) : Belongs(w, at, Len(sent), i)
      /\ Pos(w) \in Nat
      /\ \A i \in 1..Len(fromServer) : fromServer[i] = w[(Len(w) - Len(fromServer)) + i]
      /\ HandlerAt(getState, Now, Len(sent), requests[Now].kind, sent[Now], at[Now], Pos(w), clientBuffer)
  BY DEF Written
<1>4. Len(fromServer) \in Nat /\ Len(w) \in Nat /\ n \in Nat /\ n <= Len(fromServer) /\ n # 0
  <2>1. Len(fromServer) \in Nat /\ Len(w) \in Nat
    BY <1>3
  <2>q. QED BY <2>1
<1>5. Pos(w) = Len(w) - Len(fromServer)
  <2>1. Len(clientBuffer) = 0
    BY <1>1
  <2>q. QED BY <1>4, <2>1 DEF Pos
<1>6. /\ clientBuffer' \in Seq(CTokens) /\ Len(clientBuffer') = n
      /\ \A i \in 1..n : clientBuffer'[i] = fromServer[i]
  <2>1. n \in 0..Len(fromServer)
    BY <1>4
  <2>2. LET s == SubSeq(fromServer, 1, n)
        IN  s \in Seq(CTokens) /\ Len(s) = n /\ \A i \in 1..n : s[i] = fromServer[i]
    BY <1>3, <2>1, PrefixOf, Zenon
  <2>q. QED BY <1>1, <2>2, Zenon
<1>7. /\ fromServer' \in Seq(CTokens) /\ Len(fromServer') = Len(fromServer) - n
      /\ \A i \in 1..Len(fromServer) - n : fromServer'[i] = fromServer[n + i]
  <2>1. n \in 0..Len(fromServer)
    BY <1>4
  <2>2. LET s == SubSeq(fromServer, n + 1, Len(fromServer))
        IN  /\ s \in Seq(CTokens) /\ Len(s) = Len(fromServer) - n
            /\ \A i \in 1..Len(fromServer) - n : s[i] = fromServer[n + i]
    BY <1>3, <2>1, SuffixOf, Zenon
  <2>q. QED BY <1>1, <2>2, Zenon
<1>8. Now \in Nat /\ 1 <= Now /\ Now <= Len(sent) + 1 /\ Len(sent) \in Nat
  BY BooksAre
<1>9. Now <= Len(sent)
  <2> SUFFICES ASSUME ~(Now <= Len(sent)) PROVE FALSE
    OBVIOUS
  <2>1. Now = Len(sent) + 1
    BY <1>8
  <2>2. Pos(w) = at[Now]
    BY <1>3 DEF HandlerAt, Begun
  <2>3. at[Len(sent) + 1] = Len(w)
    BY <1>3 DEF Layout
  <2>4. Len(w) - Len(fromServer) = Len(w)
    BY <1>5, <2>1, <2>2, <2>3
  <2>q. QED BY <1>4, <2>4
<1> DEFINE o == Pos(w) - at[Now]
           m == Reply(Now)
<1>10. /\ Now \in 1..Len(sent) /\ o \in Nat /\ o < Len(m) /\ at[Now] \in Nat /\ Pos(w) = at[Now] + o
  BY <1>9, HandlerWithin
<1>11. /\ m \in Seq(RTokens(Now)) /\ Len(m) \in Nat
       /\ \A j \in 1..Len(m) : w[at[Now] + j] = m[j]
  BY <1>10, ReplyOnWire
<1> HIDE DEF o, m
<1>12. fromServer[1].id.reply = Now
  <2>1. o + 1 \in 1..Len(m) /\ at[Now] + (o + 1) = Pos(w) + 1
    BY <1>10, <1>11
  <2>2. w[Pos(w) + 1] = m[o + 1]
    BY <1>11, <2>1
  <2>3. m[o + 1].id.reply = Now
    BY <1>11, <2>1, RTokensAre
  <2>4. 1 \in 1..Len(fromServer)
    BY <1>4
  <2>5. fromServer[1] = w[Pos(w) + 1]
    BY <1>3, <1>5, <2>4
  <2>q. QED BY <2>2, <2>3, <2>5
<1>13. Pos(w) + n <= at[Now + 1]
  <2>1. fromServer[n].id.reply = Now
    BY <1>1, <1>12 DEF OneReply
  <2>2. n \in 1..Len(fromServer) /\ Pos(w) + n \in 1..Len(w)
    BY <1>3, <1>4, <1>5
  <2>3. fromServer[n] = w[Pos(w) + n]
    BY <1>3, <1>5, <2>2
  <2>4. Belongs(w, at, Len(sent), Pos(w) + n)
    BY <1>3, <2>2
  <2>q. QED BY <2>1, <2>3, <2>4 DEF Belongs
<1>14. Replies' = Replies
  BY <1>1 DEF Replies
<1>15. Pos(w)' = Pos(w)
  <2>1. Pos(w)' = Len(w) - (Len(fromServer) - n) - n
    BY <1>6, <1>7 DEF Pos
  <2>q. QED BY <1>4, <1>5, <2>1
<1>16. ASSUME NEW i \in 1..Len(fromServer')
       PROVE  fromServer'[i] = w[(Len(w) - Len(fromServer')) + i]
  <2>1. i \in 1..Len(fromServer) - n /\ n + i \in 1..Len(fromServer)
    BY <1>4, <1>7
  <2>2. (Len(w) - Len(fromServer)) + (n + i) = (Len(w) - Len(fromServer')) + i
    BY <1>4, <1>7, <2>1
  <2>3. fromServer'[i] = fromServer[n + i] /\ fromServer[n + i] = w[(Len(w) - Len(fromServer)) + (n + i)]
    BY <1>3, <1>7, <2>1
  <2>q. QED BY <2>2, <2>3
<1>17. ASSUME NEW i \in 1..Len(clientBuffer') PROVE clientBuffer'[i] = w[Pos(w) + i]
  <2>1. i \in 1..n /\ i \in 1..Len(fromServer)
    BY <1>4, <1>6
  <2>q. QED BY <1>3, <1>5, <1>6, <2>1
<1>18. HandlerAt(getState, Now, Len(sent), requests[Now].kind, sent[Now], at[Now], Pos(w), clientBuffer')
  <2>1. \A b : ~Stuck(getState, b, at[Now], Pos(w), clientBuffer)
    BY <1>1 DEF Stuck
  <2>q. QED BY <1>3, <2>1 DEF HandlerAt
<1>19. NoneTorn'
  <2> SUFFICES ASSUME fromServer' # <<>> PROVE fromServer'[1].part \in {"head", "block"}
    BY DEF NoneTorn
  <2>1. Len(fromServer') # 0 /\ Len(fromServer') \in Nat
    BY <1>7
  <2>2. n < Len(fromServer) /\ 1 \in 1..Len(fromServer) - n
    BY <1>4, <1>7, <2>1
  <2>3. fromServer'[1] = fromServer[n + 1]
    BY <1>7, <2>2
  <2>q. QED BY <1>1, <2>2, <2>3 DEF HarmlessCut
<1>20. Written(w, at)'
  <2>1. Pos(w)' \in Nat /\ Now' <= Len(sent') /\ Pos(w)' + Len(clientBuffer') <= at[Now' + 1]
    BY <1>1, <1>2, <1>3, <1>6, <1>9, <1>13, <1>15
  <2>2. HandlerAt(getState', Now', Len(sent'), requests'[Now'].kind, sent'[Now'], at[Now'], Pos(w)', clientBuffer')
    BY <1>1, <1>2, <1>15, <1>18
  <2>3. \A i \in 1..Len(clientBuffer') : clientBuffer'[i] = w[Pos(w)' + i]
    BY <1>15, <1>17
  <2>4. /\ Layout(w, at, Replies', Len(sent'))
        /\ \A i \in 1..Len(w) : Belongs(w, at, Len(sent'), i)
    BY <1>1, <1>3, <1>14
  <2>q. QED BY <1>3, <1>6, <1>7, <1>16, <2>1, <2>2, <2>3, <2>4 DEF Written
<1>q. QED BY <1>2, <1>19, <1>20

Grown(S, w, at, m, more, n) ==
  \E v, to : /\ v \in Seq(S) /\ Joins(v, w, m) /\ Layout(v, to, more, n + 1)
             /\ to = [k \in 1..n + 2 |-> IF k <= n + 1 THEN at[k] ELSE Len(w) + Len(m)]

LEMMA GrownBy ==
  ASSUME NEW S, NEW n \in Nat, NEW w \in Seq(S), NEW at, NEW msgs, Layout(w, at, msgs, n),
         NEW m \in Seq(S), NEW more, \A k \in 1..n : more[k] = msgs[k], more[n + 1] = m
  PROVE  Grown(S, w, at, m, more, n)
<1> DEFINE v == w \o m
           to == [k \in 1..n + 2 |-> IF k <= n + 1 THEN at[k] ELSE Len(w) + Len(m)]
<1>1. v \in Seq(S) /\ Layout(v, to, more, n + 1)
  BY LayoutGrows
<1>2. Joins(v, w, m)
  BY Appended
<1> HIDE DEF v
<1>q. QED BY <1>1, <1>2 DEF Grown

(* What the server writes comes behind all it has written.                    *)
LEMMA ServerReplyKeeps ==
  ASSUME Books, NoneTorn, NEW w, NEW at, Written(w, at), ServerReply
  PROVE  Books' /\ NoneTorn' /\ \E v, to : Written(v, to)'
<1> DEFINE n == Len(sent)
           r == Len(sent) + 1
<1>1. PICK answer : /\ r \in 1..Len(requests)
                    /\ IsAnswerTo(r, requests[r].kind, answer)
                    /\ sent' = Append(sent, answer)
                    /\ fromServer' = fromServer \o ReplyTo(r, requests[r].kind, answer)
                    /\ Books' /\ Now' = Now
  BY AnswerBooks, Zenon
<1>2. UNCHANGED <<requests, waiting, dataHandlerQueue, clientBuffer, getState, answers>>
  BY DEF ServerReply
<1>3. /\ Len(sent) \in Nat /\ Len(requests) \in Nat /\ Now \in Nat /\ 1 <= Now /\ Now <= Len(sent) + 1
      /\ \A i \in 1..Len(requests) : requests[i].kind \in CallKinds
  BY BooksAre
<1>4. /\ fromServer \in Seq(CTokens) /\ clientBuffer \in Seq(CTokens) /\ w \in Seq(CTokens)
      /\ Layout(w, at, Replies, n)
      /\ \A i \in 1..Len(w) : Belongs(w, at, n, i)
      /\ Pos(w) \in Nat
      /\ \A i \in 1..Len(fromServer) : fromServer[i] = w[(Len(w) - Len(fromServer)) + i]
      /\ \A i \in 1..Len(clientBuffer) : clientBuffer[i] = w[Pos(w) + i]
      /\ clientBuffer # <<>> => Now <= n /\ Pos(w) + Len(clientBuffer) <= at[Now + 1]
      /\ HandlerAt(getState, Now, n, requests[Now].kind, sent[Now], at[Now], Pos(w), clientBuffer)
  BY DEF Written
<1> DEFINE m == ReplyTo(r, requests[r].kind, answer)
           more == [k \in 1..n + 1 |-> ReplyTo(k, requests[k].kind, sent'[k])]
<1>5. n \in Nat /\ r \in Nat /\ r = n + 1
  BY <1>3
<1>6. m \in Seq(RTokens(r)) /\ Len(m) \in Nat /\ Len(m) # 0 /\ m[1].part = "head"
  <2>1. requests[r].kind \in CallKinds
    BY <1>1, <1>3
  <2>q. QED BY <1>1, <1>5, <2>1, ReplyIs
<1>7. m \in Seq(CTokens) /\ \A i \in 1..Len(m) : m[i].id.reply = r
  BY <1>6, RTokensAre
<1>8. Len(sent') = n + 1 /\ sent'[n + 1] = answer /\ \A k \in 1..n : sent'[k] = sent[k]
  <2>1. sent \in Seq(Answers) /\ sent' \in Seq(Answers)
    BY <1>1 DEF Books, BookTypes
  <2>q. QED BY <1>1, <2>1
<1>9. Replies' = more
  BY <1>2, <1>8 DEF Replies
<1>10. more[n + 1] = m /\ \A k \in 1..n : more[k] = Replies[k]
  BY <1>5, <1>8 DEF Replies
<1> HIDE DEF m, more, n
<1>a. Grown(CTokens, w, at, m, more, n)
  <2>1. /\ n \in Nat /\ w \in Seq(CTokens) /\ Layout(w, at, Replies, n) /\ m \in Seq(CTokens)
        /\ more[n + 1] = m /\ \A k \in 1..n : more[k] = Replies[k]
    BY <1>4, <1>5, <1>7, <1>10 DEF n
  <2>q. QED BY <2>1, GrownBy
<1>11. PICK v, to :
         /\ v \in Seq(CTokens) /\ Joins(v, w, m) /\ Layout(v, to, more, n + 1)
         /\ to = [k \in 1..n + 2 |-> IF k <= n + 1 THEN at[k] ELSE Len(w) + Len(m)]
  BY <1>a DEF Grown
<1>12. v \in Seq(CTokens) /\ Joins(v, w, m)
  BY <1>11
<1>13. fromServer' \in Seq(CTokens) /\ Joins(fromServer', fromServer, m)
  <2>1. fromServer' = fromServer \o m
    BY <1>1 DEF m
  <2>q. QED BY <1>4, <1>7, <2>1, Appended
<1>14. at \in [1..n + 1 -> 0..Len(w)] /\ at[n + 1] = Len(w)
  BY <1>4 DEF Layout
<1>15. /\ \A k \in 1..n + 1 : to[k] = at[k]
       /\ to[n + 2] = Len(w) + Len(m)
  BY <1>5, <1>11
<1> HIDE DEF r
<1>16. /\ Len(v) = Len(w) + Len(m) /\ \A i \in 1..Len(w) : v[i] = w[i]
       /\ \A i \in 1..Len(m) : v[Len(w) + i] = m[i]
       /\ Len(fromServer') = Len(fromServer) + Len(m)
       /\ \A i \in 1..Len(fromServer) : fromServer'[i] = fromServer[i]
       /\ \A i \in 1..Len(m) : fromServer'[Len(fromServer) + i] = m[i]
  BY <1>12, <1>13 DEF Joins
<1>17. Len(w) \in Nat /\ Len(fromServer) \in Nat /\ Len(clientBuffer) \in Nat
  BY <1>4
<1>18. Pos(v)' = Pos(w)
  <2>1. Pos(v)' = Len(v) - Len(fromServer') - Len(clientBuffer)
        /\ Pos(w) = Len(w) - Len(fromServer) - Len(clientBuffer)
    BY <1>2 DEF Pos
  <2>2. Len(v) = Len(w) + Len(m) /\ Len(fromServer') = Len(fromServer) + Len(m)
    BY <1>16
  <2>3. \A a, b, c, d \in Nat : (a + b) - (c + b) - d = a - c - d
    OBVIOUS
  <2>q. QED BY <1>6, <1>17, <2>1, <2>2, <2>3
<1>19. ASSUME NEW i \in 1..Len(v) PROVE Belongs(v, to, n + 1, i)
  <2>1. CASE i \in 1..Len(w)
    <3>1. w[i].id.reply \in 1..n /\ at[w[i].id.reply] < i /\ i <= at[w[i].id.reply + 1]
      BY <1>4, <2>1 DEF Belongs, n
    <3> DEFINE q == w[i].id.reply
    <3>2. v[i].id.reply = q /\ q \in 1..n + 1 /\ q + 1 \in 1..n + 1
      BY <1>5, <1>16, <2>1, <3>1
    <3> HIDE DEF q
    <3>3. to[q] = at[q] /\ to[q + 1] = at[q + 1]
      BY <1>15, <3>2
    <3>q. QED BY <3>1, <3>2, <3>3 DEF Belongs, q
  <2>2. CASE i \notin 1..Len(w)
    <3>1. i - Len(w) \in 1..Len(m) /\ i = Len(w) + (i - Len(w)) /\ Len(w) < i /\ i <= Len(w) + Len(m)
      <4>1. i \in Nat /\ i <= Len(w) + Len(m) /\ Len(w) < i
        BY <1>6, <1>16, <1>17, <2>2
      <4>q. QED BY <1>6, <1>17, <4>1
    <3>2. v[i].id.reply = r
      <4>1. v[Len(w) + (i - Len(w))] = m[i - Len(w)]
        BY <1>16, <3>1
      <4>2. m[i - Len(w)].id.reply = r
        BY <1>7, <3>1
      <4>q. QED BY <3>1, <4>1, <4>2
    <3>3. n + 1 \in 1..n + 1 /\ (n + 1) + 1 = n + 2
      BY <1>5
    <3>4. to[r] = Len(w) /\ to[r + 1] = Len(w) + Len(m)
      BY <1>5, <1>14, <1>15, <3>3
    <3>q. QED BY <1>5, <3>1, <3>2, <3>3, <3>4 DEF Belongs
  <2>q. QED BY <2>1, <2>2
<1>20. ASSUME NEW i \in 1..Len(fromServer')
       PROVE  fromServer'[i] = v[(Len(v) - Len(fromServer')) + i]
  <2>1. Len(v) - Len(fromServer') = Len(w) - Len(fromServer)
    BY <1>6, <1>16, <1>17
  <2>2. Len(w) - Len(fromServer) \in Nat
    BY <1>4, <1>17 DEF Pos
  <2>3. CASE i \in 1..Len(fromServer)
    <3>1. (Len(w) - Len(fromServer)) + i \in 1..Len(w)
      BY <1>17, <2>2, <2>3
    <3>q. QED BY <1>4, <1>16, <2>1, <2>3, <3>1
  <2>4. CASE i \notin 1..Len(fromServer)
    <3>1. i \in Nat /\ Len(fromServer) < i /\ i <= Len(fromServer) + Len(m)
      BY <1>6, <1>16, <1>17, <2>4
    <3>2. i - Len(fromServer) \in 1..Len(m) /\ i = Len(fromServer) + (i - Len(fromServer))
      BY <1>6, <1>17, <3>1
    <3>3. (Len(w) - Len(fromServer)) + i = Len(w) + (i - Len(fromServer))
      BY <1>17, <3>1
    <3>4. fromServer'[i] = m[i - Len(fromServer)] /\ v[Len(w) + (i - Len(fromServer))] = m[i - Len(fromServer)]
      BY <1>16, <3>2
    <3>q. QED BY <2>1, <3>3, <3>4
  <2>q. QED BY <2>3, <2>4
<1>21. ASSUME NEW i \in 1..Len(clientBuffer') PROVE clientBuffer'[i] = v[Pos(w) + i]
  <2>1. i \in 1..Len(clientBuffer) /\ Pos(w) + i \in 1..Len(w)
    <3>1. Pos(w) + Len(clientBuffer) <= Len(w) /\ Pos(w) \in Nat
      <4>1. Pos(w) = Len(w) - Len(fromServer) - Len(clientBuffer) /\ Pos(w) \in Nat
        BY <1>4 DEF Pos
      <4>q. QED BY <1>17, <4>1
    <3>2. i \in 1..Len(clientBuffer)
      BY <1>2
    <3>q. QED BY <1>17, <3>1, <3>2
  <2>q. QED BY <1>2, <1>4, <1>16, <2>1
<1>22. clientBuffer' # <<>> => Now <= n + 1 /\ Pos(w) + Len(clientBuffer') <= to[Now + 1]
  <2> SUFFICES ASSUME clientBuffer' # <<>>
      PROVE  Now <= n + 1 /\ Pos(w) + Len(clientBuffer') <= to[Now + 1]
    OBVIOUS
  <2>1. Now <= n /\ Pos(w) + Len(clientBuffer) <= at[Now + 1]
    BY <1>2, <1>4 DEF n
  <2>2. Now + 1 \in 1..n + 1
    BY <1>3, <1>5, <2>1
  <2>3. to[Now + 1] = at[Now + 1]
    BY <1>15, <2>2
  <2>q. QED BY <1>2, <1>3, <1>5, <2>1, <2>3
<1>23. HandlerAt(getState, Now, n + 1, requests[Now].kind, sent'[Now], to[Now], Pos(w), clientBuffer)
  <2>1. Now \in 1..n + 1
    BY <1>3, <1>5 DEF n
  <2>2. to[Now] = at[Now]
    BY <1>15, <2>1
  <2>3. CASE Begun(getState, at[Now], Pos(w))
    BY <2>2, <2>3 DEF HandlerAt
  <2>4. CASE ~Begun(getState, at[Now], Pos(w))
    <3>1. Now <= n
      BY <1>4, <2>4 DEF HandlerAt, n
    <3>2. Now \in 1..n /\ Now <= n + 1
      BY <1>3, <1>5, <3>1
    <3>3. sent'[Now] = sent[Now]
      BY <1>8, <3>2 DEF n
    <3>q. QED BY <1>4, <2>2, <3>2, <3>3 DEF HandlerAt, n
  <2>q. QED BY <2>3, <2>4
<1>24. NoneTorn'
  <2> SUFFICES ASSUME fromServer' # <<>> PROVE fromServer'[1].part \in {"head", "block"}
    BY DEF NoneTorn
  <2>1. CASE fromServer = <<>>
    <3>1. Len(fromServer) = 0 /\ 1 \in 1..Len(m) /\ Len(fromServer) + 1 = 1
      BY <1>6, <2>1
    <3>2. fromServer'[1] = m[1]
      BY <1>16, <3>1
    <3>q. QED BY <1>6, <3>2 DEF m
  <2>2. CASE fromServer # <<>>
    <3>1. 1 \in 1..Len(fromServer)
      BY <1>4, <1>17, <2>2
    <3>q. QED BY <1>16, <2>2, <3>1 DEF NoneTorn
  <2>q. QED BY <2>1, <2>2
<1>25. Written(v, to)'
  <2>1. Len(sent') = n + 1 /\ Layout(v, to, Replies', n + 1)
    BY <1>8, <1>9, <1>11 DEF n
  <2>2. /\ Pos(v)' \in Nat
        /\ clientBuffer' # <<>> => Now' <= n + 1 /\ Pos(v)' + Len(clientBuffer') <= to[Now' + 1]
    BY <1>1, <1>4, <1>18, <1>22
  <2>3. HandlerAt(getState', Now', n + 1, requests'[Now'].kind, sent'[Now'], to[Now'], Pos(v)', clientBuffer')
    BY <1>1, <1>2, <1>18, <1>23
  <2>4. clientBuffer' \in Seq(CTokens) /\ \A i \in 1..Len(clientBuffer') : clientBuffer'[i] = v[Pos(v)' + i]
    BY <1>2, <1>4, <1>18, <1>21
  <2>5. /\ fromServer' \in Seq(CTokens) /\ v \in Seq(CTokens)
        /\ \A i \in 1..Len(v) : Belongs(v, to, n + 1, i)
        /\ \A i \in 1..Len(fromServer') : fromServer'[i] = v[(Len(v) - Len(fromServer')) + i]
    BY <1>12, <1>13, <1>19, <1>20
  <2>q. QED BY <2>1, <2>2, <2>3, <2>4, <2>5 DEF Written
<1>q. QED BY <1>1, <1>24, <1>25

LEMMA ClientInitInv ==
  ASSUME ClientInit PROVE ClientInv
<1>1. Books
  BY ClientInitBooks
<1>2. /\ requests = <<>> /\ fromServer = <<>> /\ sent = <<>> /\ clientBuffer = <<>>
      /\ dataHandlerQueue = <<>> /\ getState = NewHandler
  BY DEF ClientInit
<1>3. NoneTorn
  BY <1>2 DEF NoneTorn
<1> DEFINE w == <<>>
           at == [k \in 1..1 |-> 0]
<1>4. w \in Seq(CTokens) /\ Len(w) = 0 /\ Len(sent) = 0 /\ Now = 1
  BY <1>2, EmptySeq DEF Now
<1>5. Layout(w, at, Replies, Len(sent))
  BY <1>4 DEF Layout
<1>6. Pos(w) = 0 /\ at[Now] = 0
  <2>1. Len(fromServer) = 0 /\ Len(clientBuffer) = 0 /\ at[1] = 0
    BY <1>2
  <2>2. Pos(w) = Len(w) - Len(fromServer) - Len(clientBuffer)
    BY DEF Pos
  <2> HIDE DEF w, at
  <2>q. QED BY <1>4, <2>1, <2>2
<1> HIDE DEF w, at
<1>7. HandlerAt(getState, Now, Len(sent), requests[Now].kind, sent[Now], at[Now], Pos(w), clientBuffer)
  BY <1>2, <1>6 DEF HandlerAt, Begun
<1>8. Written(w, at)
  BY <1>2, <1>4, <1>5, <1>6, <1>7 DEF Written
<1>q. QED BY <1>1, <1>3, <1>8 DEF ClientInv

LEMMA ClientStepInv ==
  ASSUME ClientInv, ClientNext PROVE ClientInv'
<1> SUFFICES ASSUME ~misread' PROVE Books' /\ NoneTorn' /\ (\E w, at : Written(w, at)')
  BY DEF ClientInv
<1>1. ~misread
  <2>1. CASE \E c \in Callers, kind \in Kinds : Call(c, kind)
    BY <2>1 DEF Call
  <2>2. CASE ServerReply
    BY <2>2 DEF ServerReply
  <2>3. CASE Receive
    BY <2>3 DEF Receive, ReceiveReply
  <2>4. CASE Handle
    <3>1. misread' = misread
      BY <2>4 DEF Handle, HandleStatus, HandleGetLine, HandleGetBlock, HandleThrows, HandleUndefined,
                  ContinueGet
    <3>q. QED BY <3>1
  <2>q. QED BY <2>1, <2>2, <2>3, <2>4 DEF ClientNext
<1>2. Books /\ NoneTorn /\ \E w, at : Written(w, at)
  BY <1>1 DEF ClientInv
<1>3. PICK w, at : Written(w, at)
  BY <1>2
<1>4. ASSUME NEW c \in Callers, NEW kind \in Kinds, Call(c, kind)
      PROVE  Books' /\ NoneTorn' /\ Written(w, at)'
  <2>1. kind # "noreply"
    BY <1>4 DEF Call
  <2>2. kind \in CallKinds
    BY <2>1, ClientAssumption DEF CallKinds
  <2>q. QED BY <1>2, <1>3, <1>4, <2>2, CallKeeps
<1>5. CASE ServerReply
  BY <1>2, <1>3, <1>5, ServerReplyKeeps
<1>6. ASSUME NEW n \in 1..Len(fromServer), ReceiveReply(n)
      PROVE  Books' /\ NoneTorn' /\ Written(w, at)'
  BY <1>2, <1>3, <1>6, ReceiveKeeps
<1>7. CASE HandleStatus
  BY <1>2, <1>3, <1>7, HandleStatusKeeps
<1>8. CASE HandleGetLine
  BY <1>2, <1>3, <1>8, HandleGetLineKeeps
<1>9. CASE HandleGetBlock
  BY <1>2, <1>3, <1>9, HandleGetBlockKeeps
<1>10. CASE HandleThrows \/ HandleUndefined
  <2>1. UNCHANGED <<requests, waiting, toServer, fromServer, sent, dataHandlerQueue,
                    clientBuffer, getState, answers>>
    BY <1>10 DEF HandleThrows, HandleUndefined
  <2>q. QED BY <1>2, <1>3, <2>1, ThrowingKeeps
<1>q. QED BY <1>4, <1>5, <1>6, <1>7, <1>8, <1>9, <1>10 DEF ClientNext, Receive, Handle

LEMMA ClientStutterInv ==
  ASSUME ClientInv, UNCHANGED clientVars PROVE ClientInv'
<1>1. /\ misread' = misread
      /\ UNCHANGED <<requests, waiting, toServer, fromServer, sent, dataHandlerQueue,
                     clientBuffer, getState, answers>>
  BY DEF clientVars
<1>2. CASE misread
  BY <1>1, <1>2 DEF ClientInv
<1>3. CASE ~misread
  <2>1. Books /\ NoneTorn /\ \E w, at : Written(w, at)
    BY <1>3 DEF ClientInv
  <2>2. PICK w, at : Written(w, at)
    BY <2>1
  <2>3. Books' /\ NoneTorn' /\ Written(w, at)'
    BY <1>1, <2>1, <2>2, ThrowingKeeps
  <2>q. QED BY <2>3 DEF ClientInv
<1>q. QED BY <1>2, <1>3

(* The client keeps its books and reads the replies in the order of the       *)
(* requests, as long as no chunk holds pieces of two replies or begins in a   *)
(* line and no call is made with noreply.                                     *)
THEOREM ClientInvariance == ClientSpec => []ClientInv
<1>1. ClientInit => ClientInv
  BY ClientInitInv
<1>2. ClientInv /\ [ClientNext]_clientVars => ClientInv'
  BY ClientStepInv, ClientStutterInv
<1>q. QED BY <1>1, <1>2, PTL DEF ClientSpec

(* Whoever is answered has got what the server answered to that request, for  *)
(* any number of callers and any values, and wherever blocks are cut: handlers *)
(* leave the queue of client/index.ts in the order of the replies.            *)
THEOREM EachGetsItsOwnAnswer == ClientSpec => []OwnAnswers
<1>1. ASSUME ClientInv PROVE OwnAnswers
  <2> SUFFICES ASSUME ~misread, NEW r \in Ids, IsAnswered(r)
               PROVE  r <= Len(sent) /\ answers[r] = sent[r]
    BY DEF OwnAnswers
  <2>1. Books
    BY <1>1 DEF ClientInv
  <2>2. Len(requests) \in Nat /\ Len(sent) \in Nat /\ Now \in Nat /\ 1 <= Now /\ Now <= Len(sent) + 1
    BY <2>1, BooksAre
  <2>3. r \in 1..Len(requests) /\ waiting[requests[r].caller] # r
    BY DEF Ids, IsAnswered
  <2>4. r \notin Now..Len(requests)
    BY <2>1, <2>3 DEF Books, Awaited
  <2>5. r \in 1..Now - 1 /\ r <= Len(sent)
    BY <2>2, <2>3, <2>4
  <2>q. QED BY <2>1, <2>5 DEF Books, Given
<1>2. ClientInv => OwnAnswers
  BY <1>1
<1>q. QED BY <1>2, ClientInvariance, PTL
=============================================================================
