---------------------------- MODULE MultipartProofs ----------------------------
(***************************************************************************)
(* The parts of a multipart body come out as they were sent, for every     *)
(* boundary, every parts that do not contain it, every way of cutting the  *)
(* body into chunks, and any delay of the second transform.                *)
(*                                                                         *)
(* The body has a layout: where its delimiters, headers and data are.      *)
(* Stands says what the parser knows at a place of it, state by state, and *)
(* what the second transform will have built when it has taken all events  *)
(* pushed so far: the View of the part being read.  A turn of the loop     *)
(* (Goes) and the end of a chunk (Leaves) keep that; Held says that a      *)
(* possible delimiter, which an event only refers to, is still in the      *)
(* lookbehind buffer when the event is taken.                              *)
(***************************************************************************)
EXTENDS MultipartParser, SequenceTheorems, WellFoundedInduction, NaturalsInduction, TLAPS

(* A set of numbers that is not empty has a least one. *)
LEMMA LeastOf ==
  ASSUME NEW S \in SUBSET Nat, S # {}
  PROVE  \E m \in S : \A n \in S : m <= n
<1>1. PICK m \in S : \A n \in S : ~ (<<n, m>> \in OpToRel(<, Nat))
  BY WFMin, NatLessThanWellFounded, Zenon
<1>2. \A n \in S : ~ (n < m)
  BY <1>1 DEF OpToRel
<1>q. QED BY <1>2

(* A stream w holds n messages one behind the other; message k begins after   *)
(* at[k] tokens.                                                              *)
Layout(w, at, msgs, n) ==
  /\ at \in [1..n + 1 -> 0..Len(w)] /\ at[1] = 0 /\ at[n + 1] = Len(w)
  /\ \A k \in 1..n : /\ at[k + 1] = at[k] + Len(msgs[k])
                     /\ \A j \in 1..Len(msgs[k]) : w[at[k] + j] = msgs[k][j]

Joins(w, s, t) ==
  /\ Len(w) = Len(s) + Len(t) /\ Len(s) \in Nat /\ Len(t) \in Nat
  /\ \A i \in 1..Len(s) : w[i] = s[i]
  /\ \A i \in 1..Len(t) : w[Len(s) + i] = t[i]

(* A joined sequence is its two parts one behind the other. *)
LEMMA JoinedUp ==
  ASSUME NEW S, NEW s \in Seq(S), NEW t \in Seq(S)
  PROVE  s \o t \in Seq(S) /\ Joins(s \o t, s, t)
<1>1. /\ s \o t \in Seq(S) /\ Len(s \o t) = Len(s) + Len(t)
      /\ \A i \in 1..Len(s) + Len(t) : (s \o t)[i] = IF i <= Len(s) THEN s[i] ELSE t[i - Len(s)]
  BY ConcatProperties, Zenon
<1>2. Len(s) \in Nat /\ Len(t) \in Nat
  BY LenProperties
<1>3. ASSUME NEW i \in 1..Len(t) PROVE (s \o t)[Len(s) + i] = t[i]
  <2>1. Len(s) + i \in 1..Len(s) + Len(t) /\ ~(Len(s) + i <= Len(s)) /\ Len(s) + i - Len(s) = i
    BY <1>2
  <2>q. QED BY <1>1, <2>1
<1>q. QED BY <1>1, <1>2, <1>3 DEF Joins

(* One message more behind n of them. *)
LEMMA LayoutGrows ==
  ASSUME NEW S, NEW n \in Nat, NEW w \in Seq(S), NEW at, NEW msgs, Layout(w, at, msgs, n),
         NEW m \in Seq(S), NEW more, \A k \in 1..n : more[k] = msgs[k], more[n + 1] = m
  PROVE  /\ w \o m \in Seq(S)
         /\ Layout(w \o m, [k \in 1..n + 2 |-> IF k <= n + 1 THEN at[k] ELSE Len(w) + Len(m)],
                   more, n + 1)
<1> DEFINE v == w \o m
           to == [k \in 1..n + 2 |-> IF k <= n + 1 THEN at[k] ELSE Len(w) + Len(m)]
<1>0. v \in Seq(S) /\ Joins(v, w, m)
  BY JoinedUp, Zenon
<1> HIDE DEF v
<1>1. /\ v \in Seq(S) /\ Len(v) = Len(w) + Len(m) /\ Len(w) \in Nat /\ Len(m) \in Nat
      /\ \A i \in 1..Len(w) : v[i] = w[i]
      /\ \A i \in 1..Len(m) : v[Len(w) + i] = m[i]
  BY <1>0 DEF Joins
<1>2. /\ at \in [1..n + 1 -> 0..Len(w)] /\ at[1] = 0 /\ at[n + 1] = Len(w)
      /\ \A k \in 1..n : /\ at[k + 1] = at[k] + Len(msgs[k])
                         /\ \A j \in 1..Len(msgs[k]) : w[at[k] + j] = msgs[k][j]
  BY DEF Layout
<1>3. to \in [1..(n + 1) + 1 -> 0..Len(v)] /\ to[1] = 0 /\ to[(n + 1) + 1] = Len(v)
  BY <1>1, <1>2
<1>4. ASSUME NEW k \in 1..n
      PROVE  to[k + 1] = to[k] + Len(more[k]) /\ \A j \in 1..Len(more[k]) : v[to[k] + j] = more[k][j]
  <2>1. to[k + 1] = at[k + 1] /\ to[k] = at[k] /\ more[k] = msgs[k]
    OBVIOUS
  <2>2. at[k] \in Nat /\ at[k + 1] \in Nat /\ at[k] + Len(msgs[k]) = at[k + 1] /\ at[k + 1] <= Len(w)
    BY <1>1, <1>2
  <2>3. ASSUME NEW j \in 1..Len(msgs[k]) PROVE v[at[k] + j] = msgs[k][j]
    <3>1. at[k] + j \in 1..Len(w)
      <4>1. at[k] \in Nat /\ at[k] + Len(msgs[k]) <= Len(w) /\ Len(w) \in Nat
        BY <1>1, <2>2
      <4>q. QED BY <4>1
    <3>q. QED BY <1>1, <1>2, <3>1
  <2>q. QED BY <2>1, <2>2, <2>3
<1>5. to[n + 1] = Len(w) /\ to[(n + 1) + 1] = Len(w) + Len(more[n + 1])
      /\ \A j \in 1..Len(more[n + 1]) : v[to[n + 1] + j] = more[n + 1][j]
  <2>1. to[n + 1] = Len(w) /\ to[(n + 1) + 1] = Len(w) + Len(m)
    BY <1>2
  <2>q. QED BY <1>1, <2>1
<1>6. \A k \in 1..n + 1 : k \in 1..n \/ k = n + 1
  OBVIOUS
<1> HIDE DEF to
<1>7. \A k \in 1..n + 1 : /\ to[k + 1] = to[k] + Len(more[k])
                          /\ \A j \in 1..Len(more[k]) : v[to[k] + j] = more[k][j]
  BY <1>4, <1>5, <1>6
<1>8. Layout(v, to, more, n + 1)
  BY <1>3, <1>7 DEF Layout
<1>q. QED BY <1>1, <1>8 DEF to, v

Flattening(f, msgs, n) ==
  f = [i \in 1..n |-> IF i = 1 THEN msgs[i] ELSE f[i - 1] \o msgs[i]]

(* The recursive function FlattenSeq is defined by exists. *)
LEMMA FlatteningExists ==
  ASSUME NEW msgs, NEW n \in Nat
  PROVE  \E f : Flattening(f, msgs, n)
<1> DEFINE Bad == {k \in Nat : ~\E f : Flattening(f, msgs, k)}
<1>1. ASSUME NEW k \in Nat, NEW f, Flattening(f, msgs, k)
      PROVE  \E g : Flattening(g, msgs, k + 1)
  <2> DEFINE g == [i \in 1..k + 1 |-> IF i <= k THEN f[i] ELSE IF i = 1 THEN msgs[i] ELSE f[i - 1] \o msgs[i]]
  <2>1. ASSUME NEW i \in 1..k + 1 PROVE g[i] = IF i = 1 THEN msgs[i] ELSE g[i - 1] \o msgs[i]
    <3>1. CASE i <= k
      <4>1. i \in 1..k /\ g[i] = f[i] /\ (i # 1 => i - 1 \in 1..k + 1 /\ g[i - 1] = f[i - 1])
        BY <3>1
      <4>2. f[i] = IF i = 1 THEN msgs[i] ELSE f[i - 1] \o msgs[i]
        BY <1>1, <4>1 DEF Flattening
      <4>q. QED BY <4>1, <4>2
    <3>2. CASE i = k + 1
      BY <3>2
    <3>q. QED BY <3>1, <3>2
  <2>2. g = [i \in 1..k + 1 |-> g[i]]
    OBVIOUS
  <2> HIDE DEF g
  <2>3. g = [i \in 1..k + 1 |-> IF i = 1 THEN msgs[i] ELSE g[i - 1] \o msgs[i]]
    BY <2>1, <2>2
  <2>q. QED BY <2>3 DEF Flattening
<1>2. 0 \notin Bad
  <2>1. Flattening(<<>>, msgs, 0)
    BY DEF Flattening
  <2>q. QED BY <2>1
<1>3. Bad = {}
  <2> SUFFICES ASSUME Bad # {} PROVE FALSE
    OBVIOUS
  <2>1. Bad \in SUBSET Nat
    OBVIOUS
  <2>2. PICK k \in Bad : \A j \in Bad : k <= j
    BY <2>1, LeastOf
  <2>3. k - 1 \in Nat /\ k - 1 \notin Bad /\ k = (k - 1) + 1
    BY <1>2, <2>2
  <2>q. QED BY <1>1, <2>2, <2>3
<1>q. QED BY <1>3

(* FlattenSeq puts messages one behind the other.                             *)
LEMMA FlattenLayout ==
  ASSUME NEW S, NEW msgs \in Seq(Seq(S))
  PROVE  FlattenSeq(msgs) \in Seq(S) /\ \E at : Layout(FlattenSeq(msgs), at, msgs, Len(msgs))
<1>0. Len(msgs) \in Nat /\ \A k \in 1..Len(msgs) : msgs[k] \in Seq(S)
  OBVIOUS
<1>1. CASE Len(msgs) = 0
  <2>1. msgs = <<>> /\ FlattenSeq(msgs) = msgs
    BY <1>1 DEF FlattenSeq
  <2>2. Layout(<<>>, [k \in 1..1 |-> 0], <<>>, 0)
    BY DEF Layout
  <2>3. <<>> \in Seq(S) /\ Len(msgs) = 0
    BY <1>1
  <2>q. QED BY <2>1, <2>2, <2>3
<1>2. CASE Len(msgs) # 0
  <2>1. PICK f : Flattening(f, msgs, Len(msgs)) /\ FlattenSeq(msgs) = f[Len(msgs)]
    <3> DEFINE F == CHOOSE f : Flattening(f, msgs, Len(msgs))
    <3>1. FlattenSeq(msgs) = F[Len(msgs)]
      BY <1>2 DEF FlattenSeq, Flattening
    <3>2. Flattening(F, msgs, Len(msgs))
      BY <1>0, FlatteningExists
    <3>q. QED BY <3>1, <3>2
  <2>0. \A i \in 1..Len(msgs) : f[i] = IF i = 1 THEN msgs[i] ELSE f[i - 1] \o msgs[i]
    BY <2>1 DEF Flattening
  <2> DEFINE Good(k) == f[k] \in Seq(S) /\ \E at : Layout(f[k], at, msgs, k)
             Bad == {k \in 1..Len(msgs) : ~Good(k)}
  <2>2. Good(1)
    <3>1. f[1] = msgs[1] /\ msgs[1] \in Seq(S) /\ Len(msgs[1]) \in Nat
      BY <1>0, <1>2, <2>0
    <3>2. Layout(msgs[1], [k \in 1..2 |-> IF k = 1 THEN 0 ELSE Len(msgs[1])], msgs, 1)
      BY <3>1 DEF Layout
    <3>q. QED BY <3>1, <3>2
  <2>3. ASSUME NEW k \in 1..Len(msgs), k + 1 \in 1..Len(msgs), Good(k) PROVE Good(k + 1)
    <3>1. PICK at : Layout(f[k], at, msgs, k)
      BY <2>3
    <3>2. k + 1 # 1 /\ (k + 1) - 1 = k
      OBVIOUS
    <3>3. f[k + 1] = f[k] \o msgs[k + 1]
      BY <2>0, <2>3, <3>2
    <3>4. f[k] \in Seq(S) /\ msgs[k + 1] \in Seq(S) /\ k \in Nat
      BY <1>0, <2>3
    <3> DEFINE to == [i \in 1..k + 2 |-> IF i <= k + 1 THEN at[i] ELSE Len(f[k]) + Len(msgs[k + 1])]
    <3>5. f[k] \o msgs[k + 1] \in Seq(S) /\ Layout(f[k] \o msgs[k + 1], to, msgs, k + 1)
      BY <3>1, <3>4, LayoutGrows
    <3> HIDE DEF to
    <3>q. QED BY <3>3, <3>5
  <2> HIDE DEF Good
  <2>4. Bad = {}
    <3> SUFFICES ASSUME Bad # {} PROVE FALSE
      OBVIOUS
    <3>1. Bad \in SUBSET Nat
      OBVIOUS
    <3>2. PICK k \in Bad : \A j \in Bad : k <= j
      BY <3>1, LeastOf
    <3>3. k \in 1..Len(msgs) /\ k # 1
      BY <2>2, <3>2
    <3> HIDE DEF Bad
    <3>4. k - 1 \in 1..Len(msgs) /\ k = (k - 1) + 1 /\ ~(k <= k - 1)
      <4>1. Len(msgs) \in Nat
        BY <1>0
      <4>q. QED BY <3>3, <4>1
    <3>5. k - 1 \notin Bad
      BY <3>2, <3>4
    <3>6. Good(k - 1)
      BY <3>4, <3>5 DEF Bad
    <3>7. Good((k - 1) + 1)
      BY <2>3, <3>3, <3>4, <3>6
    <3>8. ~Good(k)
      BY <3>2 DEF Bad
    <3>q. QED BY <3>4, <3>7, <3>8
  <2>5. Good(Len(msgs))
    <3>1. Len(msgs) \in 1..Len(msgs)
      BY <1>0, <1>2
    <3>q. QED BY <2>4, <3>1
  <2>q. QED BY <2>1, <2>5 DEF Good
<1>q. QED BY <1>1, <1>2

-----------------------------------------------------------------------------
(* bytes at a place                                                          *)

(* The bytes of s stand in w behind the first a.                             *)
HasAt(w, a, s) ==
  /\ a \in Nat /\ Len(s) \in Nat /\ a + Len(s) <= Len(w)
  /\ \A j \in 1..Len(s) : w[a + j] = s[j]

(* What stands somewhere stands there part by part. *)
LEMMA HasAtParts ==
  ASSUME NEW S, NEW w \in Seq(S), NEW a, NEW s \in Seq(S), NEW t \in Seq(S), HasAt(w, a, s \o t)
  PROVE  HasAt(w, a, s) /\ HasAt(w, a + Len(s), t)
<1>1. Joins(s \o t, s, t)
  BY JoinedUp, Zenon
<1>2. /\ Len(s \o t) = Len(s) + Len(t) /\ Len(s) \in Nat /\ Len(t) \in Nat /\ Len(w) \in Nat
      /\ \A i \in 1..Len(s) : (s \o t)[i] = s[i]
      /\ \A i \in 1..Len(t) : (s \o t)[Len(s) + i] = t[i]
  BY <1>1 DEF Joins
<1> DEFINE u == s \o t
<1> HIDE DEF u
<1>3. a \in Nat /\ a + Len(u) <= Len(w) /\ \A j \in 1..Len(u) : w[a + j] = u[j]
  BY DEF HasAt, u
<1>4. ASSUME NEW j \in 1..Len(s) PROVE w[a + j] = s[j]
  <2>1. j \in 1..Len(u)
    BY <1>2 DEF u
  <2>q. QED BY <1>2, <1>3, <2>1 DEF u
<1>5. ASSUME NEW j \in 1..Len(t) PROVE w[a + Len(s) + j] = t[j]
  <2>1. Len(s) + j \in 1..Len(u) /\ a + (Len(s) + j) = a + Len(s) + j
    BY <1>2, <1>3 DEF u
  <2>2. w[a + (Len(s) + j)] = u[Len(s) + j]
    BY <1>3, <2>1
  <2>q. QED BY <1>2, <2>1, <2>2 DEF u
<1>q. QED BY <1>2, <1>3, <1>4, <1>5 DEF HasAt, u

(* A place within something that has a place. *)
LEMMA HasAtWithin ==
  ASSUME NEW S, NEW w \in Seq(S), NEW u \in Seq(S), NEW s \in Seq(S), NEW a, NEW b,
         HasAt(w, a, u), HasAt(u, b, s)
  PROVE  HasAt(w, a + b, s)
<1>1. /\ a \in Nat /\ b \in Nat /\ Len(s) \in Nat /\ Len(u) \in Nat /\ Len(w) \in Nat
      /\ a + Len(u) <= Len(w) /\ b + Len(s) <= Len(u)
      /\ \A j \in 1..Len(u) : w[a + j] = u[j]
      /\ \A j \in 1..Len(s) : u[b + j] = s[j]
  BY DEF HasAt
<1>2. ASSUME NEW j \in 1..Len(s) PROVE w[a + b + j] = s[j]
  <2>1. b + j \in 1..Len(u) /\ a + (b + j) = a + b + j
    BY <1>1
  <2>q. QED BY <1>1, <2>1
<1>q. QED BY <1>1, <1>2 DEF HasAt

(* Everything stands in itself. *)
LEMMA HasAtSelf ==
  ASSUME NEW S, NEW w \in Seq(S) PROVE HasAt(w, 0, w)
BY DEF HasAt

(* Sequences of one length with the same elements are the same. *)
LEMMA SameSeq ==
  ASSUME NEW S, NEW s \in Seq(S), NEW t \in Seq(S), Len(s) = Len(t), \A j \in 1..Len(s) : s[j] = t[j]
  PROVE  s = t
<1>1. s = [j \in 1..Len(s) |-> s[j]] /\ t = [j \in 1..Len(s) |-> t[j]]
  OBVIOUS
<1>q. QED BY <1>1

(* A beginning and what follows it are a longer beginning. *)
LEMMA SubSeqJoins ==
  ASSUME NEW S, NEW s \in Seq(S), NEW a \in Nat, NEW b \in Nat, a <= b, b <= Len(s)
  PROVE  SubSeq(s, 1, a) \o SubSeq(s, a + 1, b) = SubSeq(s, 1, b)
<1>0. Len(s) \in Nat
  OBVIOUS
<1>1. SubSeq(s, 1, a) = [j \in 1..a |-> s[j]] /\ SubSeq(s, 1, a) \in Seq(S) /\ Len(SubSeq(s, 1, a)) = a
  BY <1>0
<1>2. /\ SubSeq(s, a + 1, b) = [j \in 1..b - a |-> s[a + j]]
      /\ SubSeq(s, a + 1, b) \in Seq(S) /\ Len(SubSeq(s, a + 1, b)) = b - a
  BY <1>0
<1>3. SubSeq(s, 1, b) = [j \in 1..b |-> s[j]]
  BY <1>0
<1>4. Joins(SubSeq(s, 1, a) \o SubSeq(s, a + 1, b), SubSeq(s, 1, a), SubSeq(s, a + 1, b))
      /\ SubSeq(s, 1, a) \o SubSeq(s, a + 1, b) \in Seq(S)
  BY <1>1, <1>2, JoinedUp, Zenon
<1> DEFINE u == SubSeq(s, 1, a) \o SubSeq(s, a + 1, b)
<1> HIDE DEF u
<1>5. u \in Seq(S) /\ Len(u) = b
  BY <1>1, <1>2, <1>4 DEF Joins, u
<1>6. ASSUME NEW j \in 1..b PROVE u[j] = s[j]
  <2>1. CASE j <= a
    BY <1>1, <1>4, <2>1 DEF Joins, u
  <2>2. CASE ~(j <= a)
    <3>1. j - a \in 1..b - a /\ a + (j - a) = j
      BY <2>2
    <3>2. u[a + (j - a)] = SubSeq(s, a + 1, b)[j - a]
      BY <1>1, <1>2, <1>4, <3>1 DEF Joins, u
    <3>q. QED BY <1>2, <3>1, <3>2
  <2>q. QED BY <2>1, <2>2
<1>7. u = [j \in 1..b |-> u[j]]
  BY <1>5
<1>8. u = SubSeq(s, 1, b)
  BY <1>3, <1>6, <1>7
<1>q. QED BY <1>8 DEF u

-----------------------------------------------------------------------------
(* the body                                                                  *)

(* The body with the line end in front of it that every delimiter has.       *)
Whole(parts) ==
  FlattenSeq([i \in DOMAIN parts |-> Boundary \o <<CR, LF>> \o PartBytes(parts[i])])
    \o Boundary \o <<HYPHEN, HYPHEN, CR, LF>>

HeaderAt(w, a, h) ==
  /\ a \in Nat
  /\ HasAt(w, a, h.field)
  /\ HasAt(w, a + Len(h.field), <<COLON, SPACE>>)
  /\ HasAt(w, a + Len(h.field) + 2, h.value)
  /\ HasAt(w, a + Len(h.field) + 2 + Len(h.value), <<CR, LF>>)
EndOfHeader(a, h) == a + Len(h.field) + 2 + Len(h.value) + 2

(* A part whose delimiter begins behind a: where its headers begin and, the  *)
(* last of these places, the line end behind them.                           *)
PartAt(w, a, heads, p) ==
  LET n == Len(p.headers) IN
  /\ a \in Nat
  /\ HasAt(w, a, Boundary)
  /\ HasAt(w, a + BoundaryLength, <<CR, LF>>)
  /\ heads \in [1..n + 1 -> Nat] /\ heads[1] = a + BoundaryLength + 2
  /\ \A h \in 1..n : HeaderAt(w, heads[h], p.headers[h]) /\ heads[h + 1] = EndOfHeader(heads[h], p.headers[h])
  /\ HasAt(w, heads[n + 1], <<CR, LF>>)
  /\ HasAt(w, heads[n + 1] + 2, p.data)
EndOfPart(heads, p) == heads[Len(p.headers) + 1] + 2 + Len(p.data)

(* Where the delimiters begin, and the headers of each part.                 *)
BodyLayout(parts, w, D, H) ==
  LET n == Len(parts) IN
  /\ D \in [1..n + 1 -> Nat] /\ D[1] = 0
  /\ \A k \in 1..n : PartAt(w, D[k], H[k], parts[k]) /\ D[k + 1] = EndOfPart(H[k], parts[k])
  /\ HasAt(w, D[n + 1], Boundary)
  /\ HasAt(w, D[n + 1] + BoundaryLength, <<HYPHEN, HYPHEN, CR, LF>>)
  /\ Len(w) = D[n + 1] + BoundaryLength + 4

(* The delimiter begins with the only CR in it. *)
LEMMA BoundaryIs ==
  /\ Boundary \in Seq(Bytes) /\ BoundaryLength \in Nat /\ BoundaryLength >= 4
  /\ Boundary[1] = CR /\ \A j \in 2..BoundaryLength : Boundary[j] # CR
  /\ Boundary[2] = LF
<1>1. BoundaryStr \in Seq(Bytes) /\ <<CR, LF, HYPHEN, HYPHEN>> \in Seq(Bytes)
  BY ParserAssumption DEF Bytes
<1>2. Boundary \in Seq(Bytes) /\ Joins(Boundary, <<CR, LF, HYPHEN, HYPHEN>>, BoundaryStr)
  BY <1>1, JoinedUp DEF Boundary
<1>3. \A j \in 1..Len(BoundaryStr) : BoundaryStr[j] # CR
  BY ParserAssumption
<1>4. ASSUME NEW j \in 2..BoundaryLength PROVE Boundary[j] # CR
  <2>1. CASE j <= 4
    BY <1>2, <2>1 DEF Joins, CR, LF, HYPHEN
  <2>2. CASE j > 4
    <3>1. j - 4 \in 1..Len(BoundaryStr) /\ 4 + (j - 4) = j
      BY <1>2, <2>2 DEF Joins, BoundaryLength
    <3>2. Boundary[4 + (j - 4)] = BoundaryStr[j - 4]
      BY <1>2, <3>1 DEF Joins
    <3>q. QED BY <1>3, <3>1, <3>2
  <2>q. QED BY <2>1, <2>2
<1>q. QED BY <1>2, <1>4 DEF Joins, BoundaryLength

(* The tail of a joined sequence. *)
LEMMA TailJoins ==
  ASSUME NEW S, NEW s \in Seq(S), NEW t \in Seq(S), s # <<>>
  PROVE  Tail(s) \in Seq(S) /\ Len(Tail(s)) = Len(s) - 1 /\ Tail(s \o t) = Tail(s) \o t
<1>1. /\ Tail(s) \in Seq(S) /\ Len(Tail(s)) = Len(s) - 1 /\ Len(s) \in Nat /\ Len(s) # 0 /\ Len(t) \in Nat
      /\ \A i \in 1..Len(s) - 1 : Tail(s)[i] = s[i + 1]
  BY HeadTailProperties
<1>2. s \o t \in Seq(S) /\ Joins(s \o t, s, t) /\ Tail(s) \o t \in Seq(S) /\ Joins(Tail(s) \o t, Tail(s), t)
  BY <1>1, JoinedUp, Zenon
<1> DEFINE u == s \o t
           v == Tail(s) \o t
<1> HIDE DEF u, v
<1>3. /\ u \in Seq(S) /\ Len(u) = Len(s) + Len(t) /\ u # <<>>
      /\ \A i \in 1..Len(s) : u[i] = s[i]
      /\ \A i \in 1..Len(t) : u[Len(s) + i] = t[i]
  BY <1>1, <1>2 DEF u, Joins
<1>4. /\ v \in Seq(S) /\ Len(v) = Len(s) - 1 + Len(t)
      /\ \A i \in 1..Len(s) - 1 : v[i] = Tail(s)[i]
      /\ \A i \in 1..Len(t) : v[Len(s) - 1 + i] = t[i]
  BY <1>1, <1>2 DEF v, Joins
<1>5. /\ Tail(u) \in Seq(S) /\ Len(Tail(u)) = Len(u) - 1
      /\ \A i \in 1..Len(u) - 1 : Tail(u)[i] = u[i + 1]
  BY <1>3, HeadTailProperties
<1>6. ASSUME NEW i \in 1..Len(v) PROVE Tail(u)[i] = v[i]
  <2>1. CASE i <= Len(s) - 1
    <3>1. i \in 1..Len(s) - 1 /\ i + 1 \in 1..Len(s) /\ i \in 1..Len(u) - 1
      BY <1>1, <1>3, <1>4, <2>1
    <3>q. QED BY <1>1, <1>3, <1>4, <1>5, <3>1
  <2>2. CASE ~(i <= Len(s) - 1)
    <3> DEFINE j == i - (Len(s) - 1)
    <3>1. j \in 1..Len(t) /\ i = Len(s) - 1 + j /\ i + 1 = Len(s) + j /\ i \in 1..Len(u) - 1
      BY <1>1, <1>3, <1>4, <2>2
    <3> HIDE DEF j
    <3>q. QED BY <1>3, <1>4, <1>5, <3>1
  <2>q. QED BY <2>1, <2>2
<1>7. Tail(u) = [i \in 1..Len(v) |-> Tail(u)[i]] /\ v = [i \in 1..Len(v) |-> v[i]]
  <2>1. Len(Tail(u)) = Len(v)
    BY <1>1, <1>3, <1>4, <1>5
  <2> DEFINE x == Tail(u)
  <2> HIDE DEF x
  <2>2. x \in Seq(S) /\ Len(x) = Len(v)
    BY <1>5, <2>1 DEF x
  <2>3. x = [i \in 1..Len(v) |-> x[i]]
    BY <2>2
  <2>q. QED BY <1>4, <2>3 DEF x
<1>8. Tail(u) = v
  BY <1>6, <1>7
<1>q. QED BY <1>1, <1>8 DEF u, v

-----------------------------------------------------------------------------
(* where things are in the body                                              *)

(* What the body is made of is bytes. *)
LEMMA BytesAre ==
  /\ <<CR, LF>> \in Seq(Bytes) /\ <<COLON, SPACE>> \in Seq(Bytes)
  /\ <<HYPHEN, HYPHEN, CR, LF>> \in Seq(Bytes)
  /\ Fields \subseteq Seq(Bytes) /\ Values \subseteq Seq(Bytes) /\ Datas \subseteq Seq(Bytes)
<1>1. /\ CR \in Bytes /\ LF \in Bytes /\ COLON \in Bytes /\ SPACE \in Bytes /\ HYPHEN \in Bytes
      /\ Letters \cup {HYPHEN} \subseteq Bytes
  BY DEF Bytes
<1>2. Fields \subseteq Seq(Bytes)
  BY <1>1 DEF Fields
<1>3. Values \subseteq Seq(Bytes)
  BY <1>1 DEF Values
<1>q. QED BY <1>1, <1>2, <1>3 DEF Datas

HeaderFits(r) ==
  /\ r = [field |-> r.field, value |-> r.value]
  /\ r.field \in Fields /\ r.value \in Values
  /\ r.field \in Seq(Bytes) /\ r.value \in Seq(Bytes)
PartFits(p) ==
  /\ p = [headers |-> p.headers, data |-> p.data]
  /\ Len(p.headers) \in Nat /\ p.headers \in Seq([field : Fields, value : Values])
  /\ p.data \in Seq(Bytes) /\ p.data \in Datas
  /\ \A h \in 1..Len(p.headers) : HeaderFits(p.headers[h])

(* What the assumption says of the parts that are sent. *)
LEMMA PartIs ==
  ASSUME NEW parts \in Messages
  PROVE  /\ parts \in Seq(Parts) /\ Len(parts) \in Nat \ {0}
         /\ \A k \in 1..Len(parts) : PartFits(parts[k])
<1>1. parts \in Seq(Parts) /\ parts # <<>>
  BY ParserAssumption
<1>2. \A k \in 1..Len(parts) : parts[k] \in Parts
  BY <1>1
<1> DEFINE R == [field : Fields, value : Values]
<1>3. ASSUME NEW p \in Parts
      PROVE  /\ p = [headers |-> p.headers, data |-> p.data]
             /\ Len(p.headers) \in Nat /\ p.headers \in Seq(R) /\ p.data \in Seq(Bytes) /\ p.data \in Datas
  BY BytesAre DEF Parts
<1>4. ASSUME NEW r \in R PROVE HeaderFits(r)
  BY BytesAre DEF HeaderFits
<1> HIDE DEF R
<1>5. ASSUME NEW p \in Parts, NEW h \in 1..Len(p.headers) PROVE HeaderFits(p.headers[h])
  <2>1. p.headers \in Seq(R)
    BY <1>3
  <2>2. p.headers[h] \in R
    BY <2>1
  <2>q. QED BY <1>4, <2>2
<1>6. ASSUME NEW p \in Parts PROVE PartFits(p)
  BY <1>3, <1>5 DEF PartFits, R
<1>q. QED BY <1>1, <1>2, <1>6

(* Where a header stands, its field, colon, value and line end do. *)
LEMMA HeaderBytesAt ==
  ASSUME NEW w \in Seq(Bytes), NEW a, NEW h, h.field \in Seq(Bytes), h.value \in Seq(Bytes),
         HasAt(w, a, HeaderBytes(h))
  PROVE  /\ HeaderAt(w, a, h) /\ EndOfHeader(a, h) = a + Len(HeaderBytes(h))
<1>1. /\ h.field \o <<COLON, SPACE>> \in Seq(Bytes)
      /\ h.field \o <<COLON, SPACE>> \o h.value \in Seq(Bytes)
      /\ HeaderBytes(h) = h.field \o <<COLON, SPACE>> \o h.value \o <<CR, LF>>
  BY BytesAre DEF HeaderBytes
<1>2. /\ Len(h.field \o <<COLON, SPACE>>) = Len(h.field) + 2
      /\ Len(h.field \o <<COLON, SPACE>> \o h.value) = Len(h.field) + 2 + Len(h.value)
      /\ Len(HeaderBytes(h)) = Len(h.field) + 2 + Len(h.value) + 2
      /\ Len(h.field) \in Nat /\ Len(h.value) \in Nat /\ a \in Nat
  BY <1>1, BytesAre DEF HasAt
<1> DEFINE f == h.field \o <<COLON, SPACE>>
           g == f \o h.value
<1> HIDE DEF f, g
<1>3. HasAt(w, a, g) /\ HasAt(w, a + Len(g), <<CR, LF>>)
  <2>1. HasAt(w, a, g \o <<CR, LF>>) /\ g \in Seq(Bytes)
    BY <1>1 DEF f, g
  <2>q. QED BY <2>1, BytesAre, HasAtParts, Zenon
<1>4. HasAt(w, a, f) /\ HasAt(w, a + Len(f), h.value)
  <2>1. HasAt(w, a, f \o h.value) /\ f \in Seq(Bytes)
    BY <1>1, <1>3 DEF f, g
  <2>q. QED BY <2>1, HasAtParts, Zenon
<1>5. HasAt(w, a, h.field) /\ HasAt(w, a + Len(h.field), <<COLON, SPACE>>)
  <2>1. HasAt(w, a, h.field \o <<COLON, SPACE>>)
    BY <1>4 DEF f
  <2>q. QED BY <2>1, BytesAre, HasAtParts, Zenon
<1>0. Len(f) = Len(h.field) + 2 /\ Len(g) = Len(h.field) + 2 + Len(h.value)
  BY <1>2 DEF f, g
<1>6. /\ a + Len(g) = a + Len(h.field) + 2 + Len(h.value)
      /\ a + Len(f) = a + Len(h.field) + 2
      /\ a + Len(h.field) + 2 + Len(h.value) + 2 = a + Len(HeaderBytes(h))
  <2> DEFINE m == Len(h.field)
             n == Len(h.value)
             l == Len(HeaderBytes(h))
  <2>1. m \in Nat /\ n \in Nat /\ a \in Nat /\ l = m + 2 + n + 2
    BY <1>2
  <2>2. Len(f) = m + 2 /\ Len(g) = m + 2 + n
    BY <1>0
  <2> HIDE DEF m, n, l
  <2>3. /\ a + Len(g) = a + m + 2 + n /\ a + Len(f) = a + m + 2 /\ a + m + 2 + n + 2 = a + l
    BY <2>1, <2>2
  <2>q. QED BY <2>3 DEF m, n, l
<1>q. QED BY <1>2, <1>3, <1>4, <1>5, <1>6 DEF HeaderAt, EndOfHeader

(* Each message of a layout has its place. *)
LEMMA LayoutHasAt ==
  ASSUME NEW S, NEW msgs \in Seq(Seq(S)), NEW w \in Seq(S), NEW at, NEW n \in Nat, n = Len(msgs),
         Layout(w, at, msgs, n), NEW k \in 1..n
  PROVE  HasAt(w, at[k], msgs[k]) /\ at[k + 1] = at[k] + Len(msgs[k])
<1>1. /\ at \in [1..n + 1 -> 0..Len(w)] /\ at[k + 1] = at[k] + Len(msgs[k])
      /\ \A j \in 1..Len(msgs[k]) : w[at[k] + j] = msgs[k][j]
  BY DEF Layout
<1>2. msgs[k] \in Seq(S)
  OBVIOUS
<1>3. Len(msgs[k]) \in Nat /\ Len(w) \in Nat
  BY <1>2
<1>4. k \in 1..n + 1 /\ k + 1 \in 1..n + 1
  OBVIOUS
<1>5. at[k] \in Nat /\ at[k + 1] <= Len(w)
  <2>1. at[k] \in 0..Len(w) /\ at[k + 1] \in 0..Len(w)
    BY <1>1, <1>4, Zenon
  <2>q. QED BY <1>3, <2>1
<1>q. QED BY <1>1, <1>3, <1>5 DEF HasAt

(* Where the bytes of a part stand, its headers and its data do. *)
LEMMA HeadersAt ==
  ASSUME NEW w \in Seq(Bytes), NEW a, NEW p, PartFits(p), HasAt(w, a, PartBytes(p))
  PROVE  /\ PartBytes(p) \in Seq(Bytes)
         /\ \E heads :
            /\ heads \in [1..Len(p.headers) + 1 -> Nat] /\ heads[1] = a
            /\ \A h \in 1..Len(p.headers) :
                 HeaderAt(w, heads[h], p.headers[h]) /\ heads[h + 1] = EndOfHeader(heads[h], p.headers[h])
            /\ HasAt(w, heads[Len(p.headers) + 1], <<CR, LF>>)
            /\ HasAt(w, heads[Len(p.headers) + 1] + 2, p.data)
            /\ EndOfPart(heads, p) = a + Len(PartBytes(p))
<1> DEFINE n == Len(p.headers)
           msgs == [i \in DOMAIN p.headers |-> HeaderBytes(p.headers[i])]
           F == FlattenSeq(msgs)
<1>0. n \in Nat /\ p.headers \in Seq([field : Fields, value : Values]) /\ DOMAIN p.headers = 1..n
      /\ p.data \in Seq(Bytes) /\ a \in Nat /\ \A h \in 1..n : HeaderFits(p.headers[h])
  BY DEF PartFits, HasAt
<1>1. ASSUME NEW h, HeaderFits(h) PROVE HeaderBytes(h) \in Seq(Bytes)
  BY <1>1, BytesAre DEF HeaderFits, HeaderBytes
<1>2. msgs \in Seq(Seq(Bytes)) /\ Len(msgs) = n /\ \A h \in 1..n : msgs[h] = HeaderBytes(p.headers[h])
  <2>1. \A h \in 1..n : HeaderBytes(p.headers[h]) \in Seq(Bytes)
    BY <1>0, <1>1
  <2>2. msgs = [i \in 1..n |-> HeaderBytes(p.headers[i])]
    BY <1>0
  <2>q. QED BY <1>0, <2>1, <2>2
<1> HIDE DEF msgs
<1>3. PICK at : F \in Seq(Bytes) /\ Layout(F, at, msgs, n)
  BY <1>2, FlattenLayout
<1>4. PartBytes(p) = (F \o <<CR, LF>>) \o p.data
  BY DEF PartBytes, msgs
<1> HIDE DEF F
<1> DEFINE G == F \o <<CR, LF>>
<1>5. G \in Seq(Bytes) /\ Len(G) = Len(F) + 2 /\ G \o p.data \in Seq(Bytes)
      /\ Len(G \o p.data) = Len(F) + 2 + Len(p.data) /\ Len(F) \in Nat /\ Len(p.data) \in Nat
  BY <1>0, <1>3, BytesAre
<1>6. HasAt(w, a, G \o p.data)
  BY <1>4
<1> HIDE DEF G
<1>7. HasAt(w, a, G) /\ HasAt(w, a + Len(G), p.data)
  BY <1>0, <1>5, <1>6, HasAtParts, Zenon
<1>8. HasAt(w, a, F) /\ HasAt(w, a + Len(F), <<CR, LF>>)
  BY <1>3, <1>7, BytesAre, HasAtParts, Zenon DEF G
<1> DEFINE heads == [h \in 1..n + 1 |-> a + at[h]]
<1>9. /\ at \in [1..n + 1 -> 0..Len(F)] /\ at[1] = 0 /\ at[n + 1] = Len(F)
  BY <1>3 DEF Layout
<1>10. heads \in [1..n + 1 -> Nat] /\ heads[1] = a /\ heads[n + 1] = a + Len(F)
  <2>1. ASSUME NEW h \in 1..n + 1 PROVE a + at[h] \in Nat
    <3>1. at[h] \in 0..Len(F)
      BY <1>9, Zenon
    <3>q. QED BY <1>0, <1>5, <3>1
  <2>2. 1 \in 1..n + 1 /\ n + 1 \in 1..n + 1
    BY <1>0
  <2>3. heads \in [1..n + 1 -> Nat]
    BY <2>1
  <2>4. heads[1] = a + at[1] /\ heads[n + 1] = a + at[n + 1]
    BY <2>2
  <2>q. QED BY <1>0, <1>9, <2>3, <2>4
<1>11. ASSUME NEW h \in 1..n
       PROVE  HeaderAt(w, heads[h], p.headers[h]) /\ heads[h + 1] = EndOfHeader(heads[h], p.headers[h])
  <2>1. HasAt(F, at[h], msgs[h]) /\ at[h + 1] = at[h] + Len(msgs[h])
    BY <1>0, <1>2, <1>3, LayoutHasAt
  <2>2. msgs[h] = HeaderBytes(p.headers[h]) /\ msgs[h] \in Seq(Bytes) /\ HeaderFits(p.headers[h])
    BY <1>0, <1>2
  <2>3. HasAt(w, a + at[h], msgs[h])
    BY <1>3, <1>8, <2>1, <2>2, HasAtWithin, Zenon
  <2>4. HeaderAt(w, a + at[h], p.headers[h])
        /\ EndOfHeader(a + at[h], p.headers[h]) = a + at[h] + Len(HeaderBytes(p.headers[h]))
    BY <2>2, <2>3, HeaderBytesAt DEF HeaderFits
  <2>5. heads[h] = a + at[h] /\ heads[h + 1] = a + at[h + 1] /\ at[h] \in Nat /\ Len(msgs[h]) \in Nat
    BY <1>0, <1>9, <2>2, SMTT(60)
  <2>6. heads[h + 1] = a + at[h] + Len(msgs[h])
    BY <1>0, <2>1, <2>5
  <2>q. QED BY <2>2, <2>4, <2>5, <2>6
<1>12. HasAt(w, heads[n + 1], <<CR, LF>>) /\ HasAt(w, heads[n + 1] + 2, p.data)
       /\ EndOfPart(heads, p) = a + Len(G \o p.data)
  <2>1. a + Len(G) = a + Len(F) + 2 /\ a + Len(F) + 2 + Len(p.data) = a + Len(G \o p.data)
    <3> DEFINE f == Len(F)
               d == Len(p.data)
               u == Len(G \o p.data)
    <3>1. Len(G) = f + 2 /\ u = f + 2 + d /\ f \in Nat /\ d \in Nat /\ a \in Nat
      BY <1>0, <1>5
    <3> HIDE DEF f, d, u
    <3>2. a + Len(G) = a + f + 2 /\ a + f + 2 + d = a + u
      BY <3>1
    <3>q. QED BY <3>2 DEF f, d, u
  <2>q. QED BY <1>7, <1>8, <1>10, <2>1 DEF EndOfPart
<1> HIDE DEF heads
<1>q. QED BY <1>4, <1>5, <1>10, <1>11, <1>12 DEF G

(* The same with the delimiter in front of the part. *)
LEMMA PartUnitAt ==
  ASSUME NEW w \in Seq(Bytes), NEW a, NEW p, PartFits(p),
         HasAt(w, a, Boundary \o <<CR, LF>> \o PartBytes(p)), PartBytes(p) \in Seq(Bytes)
  PROVE  \E heads : /\ PartAt(w, a, heads, p)
                    /\ EndOfPart(heads, p) = a + Len(Boundary \o <<CR, LF>> \o PartBytes(p))
<1> DEFINE F == Boundary \o <<CR, LF>>
           u == F \o PartBytes(p)
<1>1. /\ Boundary \in Seq(Bytes) /\ F \in Seq(Bytes) /\ Len(F) = BoundaryLength + 2 /\ BoundaryLength \in Nat
      /\ u \in Seq(Bytes) /\ Len(u) = BoundaryLength + 2 + Len(PartBytes(p)) /\ Len(PartBytes(p)) \in Nat
  BY BoundaryIs, BytesAre DEF BoundaryLength
<1>2. a \in Nat /\ HasAt(w, a, u)
  BY DEF HasAt
<1> HIDE DEF F
<1>3. HasAt(w, a, F) /\ HasAt(w, a + Len(F), PartBytes(p))
  BY <1>1, <1>2, HasAtParts, Zenon
<1>4. HasAt(w, a, Boundary) /\ HasAt(w, a + BoundaryLength, <<CR, LF>>)
  BY <1>1, <1>3, BytesAre, HasAtParts, Zenon DEF F, BoundaryLength
<1>5. PICK heads :
            /\ heads \in [1..Len(p.headers) + 1 -> Nat] /\ heads[1] = a + Len(F)
            /\ \A h \in 1..Len(p.headers) :
                 HeaderAt(w, heads[h], p.headers[h]) /\ heads[h + 1] = EndOfHeader(heads[h], p.headers[h])
            /\ HasAt(w, heads[Len(p.headers) + 1], <<CR, LF>>)
            /\ HasAt(w, heads[Len(p.headers) + 1] + 2, p.data)
            /\ EndOfPart(heads, p) = a + Len(F) + Len(PartBytes(p))
  BY <1>3, HeadersAt
<1>6. a + Len(F) = a + BoundaryLength + 2 /\ a + Len(F) + Len(PartBytes(p)) = a + Len(u)
  BY <1>1, <1>2
<1>7. PartAt(w, a, heads, p)
  BY <1>2, <1>4, <1>5, <1>6 DEF PartAt
<1>q. QED BY <1>5, <1>6, <1>7 DEF F

(* The body is a layout of delimiters and parts, its first line end left out. *)
LEMMA BodyIs ==
  ASSUME NEW parts \in Messages
  PROVE  /\ Whole(parts) \in Seq(Bytes) /\ Encode(parts) \in Seq(Bytes)
         /\ Len(Encode(parts)) = Len(Whole(parts)) - 2 /\ Len(Whole(parts)) >= 2
         /\ \A x \in 1..Len(Encode(parts)) : Encode(parts)[x] = Whole(parts)[x + 2]
         /\ \E D, H : BodyLayout(parts, Whole(parts), D, H)
<1> DEFINE n == Len(parts)
           unit(k) == Boundary \o <<CR, LF>> \o PartBytes(parts[k])
           msgs == [i \in DOMAIN parts |-> unit(i)]
           F == FlattenSeq(msgs)
           G == F \o Boundary
           End == <<HYPHEN, HYPHEN, CR, LF>>
           w == G \o End
<1>0. n \in Nat \ {0} /\ DOMAIN parts = 1..n /\ \A k \in 1..n : PartFits(parts[k])
  BY PartIs
<1>1. ASSUME NEW k \in 1..n
      PROVE  PartBytes(parts[k]) \in Seq(Bytes) /\ unit(k) \in Seq(Bytes) /\ Len(unit(k)) > 2
  <2>1. PartFits(parts[k])
    BY <1>0
  <2>2. \A i \in DOMAIN parts[k].headers : HeaderBytes(parts[k].headers[i]) \in Seq(Bytes)
    <3>1. DOMAIN parts[k].headers = 1..Len(parts[k].headers)
      BY <2>1 DEF PartFits
    <3>2. ASSUME NEW h, HeaderFits(h) PROVE HeaderBytes(h) \in Seq(Bytes)
      BY <3>2, BytesAre DEF HeaderFits, HeaderBytes
    <3>q. QED BY <2>1, <3>1, <3>2 DEF PartFits
  <2>3. [i \in DOMAIN parts[k].headers |-> HeaderBytes(parts[k].headers[i])] \in Seq(Seq(Bytes))
    BY <2>1, <2>2 DEF PartFits
  <2>4. FlattenSeq([i \in DOMAIN parts[k].headers |-> HeaderBytes(parts[k].headers[i])]) \in Seq(Bytes)
    BY <2>3, FlattenLayout
  <2>5. PartBytes(parts[k]) \in Seq(Bytes)
    BY <2>1, <2>4, BytesAre DEF PartBytes, PartFits
  <2>q. QED BY <2>5, BoundaryIs, BytesAre DEF BoundaryLength
<1>2. msgs \in Seq(Seq(Bytes)) /\ Len(msgs) = n /\ \A k \in 1..n : msgs[k] = unit(k) /\ Len(msgs[k]) > 2
  <2>1. msgs = [i \in 1..n |-> unit(i)]
    BY <1>0
  <2> HIDE DEF unit
  <2>q. QED BY <1>0, <1>1, <2>1
<1>3. Whole(parts) = w /\ Encode(parts) = (Tail(Tail(F)) \o Boundary) \o End
  BY DEF Whole, Encode
<1> HIDE DEF msgs
<1>4. PICK at : F \in Seq(Bytes) /\ Layout(F, at, msgs, n)
  BY <1>0, <1>2, FlattenLayout
<1>5. \A k \in 1..n : HasAt(F, at[k], msgs[k]) /\ at[k + 1] = at[k] + Len(msgs[k])
  BY <1>0, <1>2, <1>4, LayoutHasAt
<1>6. at \in [1..n + 1 -> 0..Len(F)] /\ at[1] = 0 /\ at[n + 1] = Len(F) /\ Len(F) \in Nat
  BY <1>4 DEF Layout
<1> HIDE DEF F, End
<1>7. /\ Boundary \in Seq(Bytes) /\ End \in Seq(Bytes) /\ Len(End) = 4 /\ BoundaryLength \in Nat
      /\ G \in Seq(Bytes) /\ Len(G) = Len(F) + BoundaryLength
      /\ w \in Seq(Bytes) /\ Len(w) = Len(F) + BoundaryLength + 4
  BY <1>4, <1>6, BoundaryIs, BytesAre DEF End, BoundaryLength
<1>8. /\ HasAt(w, 0, G) /\ HasAt(w, Len(F) + BoundaryLength, End)
      /\ HasAt(w, 0, F) /\ HasAt(w, Len(F), Boundary)
  <2>1. HasAt(w, 0, G) /\ HasAt(w, 0 + Len(G), End)
    <3>1. HasAt(w, 0, G \o End)
      BY <1>7, HasAtSelf
    <3>q. QED BY <1>7, <3>1, HasAtParts, Zenon
  <2>2. HasAt(w, 0, F) /\ HasAt(w, 0 + Len(F), Boundary)
    BY <1>4, <1>7, <2>1, HasAtParts, Zenon
  <2>q. QED BY <1>6, <1>7, <2>1, <2>2
<1>9. ASSUME NEW k \in 1..n
      PROVE  \E heads : PartAt(w, at[k], heads, parts[k]) /\ EndOfPart(heads, parts[k]) = at[k + 1]
  <2>1. HasAt(F, at[k], msgs[k]) /\ at[k + 1] = at[k] + Len(msgs[k]) /\ msgs[k] = unit(k)
    BY <1>2, <1>5
  <2>2. HasAt(w, 0 + at[k], unit(k))
    BY <1>1, <1>4, <1>7, <1>8, <2>1, HasAtWithin, Zenon
  <2>3. 0 + at[k] = at[k]
    BY <1>0, <1>6
  <2>4. /\ PartFits(parts[k]) /\ PartBytes(parts[k]) \in Seq(Bytes)
        /\ HasAt(w, at[k], Boundary \o <<CR, LF>> \o PartBytes(parts[k]))
    BY <1>0, <1>1, <2>2, <2>3
  <2>5. PICK heads : /\ PartAt(w, at[k], heads, parts[k])
                     /\ EndOfPart(heads, parts[k]) = at[k] + Len(unit(k))
    BY <1>7, <2>4, PartUnitAt
  <2>q. QED BY <2>1, <2>5
<1> DEFINE D == [k \in 1..n + 1 |-> at[k]]
           H == [k \in 1..n |-> CHOOSE heads :
                   PartAt(w, at[k], heads, parts[k]) /\ EndOfPart(heads, parts[k]) = at[k + 1]]
<1>10. \A k \in 1..n : PartAt(w, D[k], H[k], parts[k]) /\ EndOfPart(H[k], parts[k]) = D[k + 1]
  <2> TAKE k \in 1..n
  <2>1. PartAt(w, at[k], H[k], parts[k]) /\ EndOfPart(H[k], parts[k]) = at[k + 1]
    BY <1>9
  <2>2. D[k] = at[k] /\ D[k + 1] = at[k + 1]
    BY <1>0
  <2>q. QED BY <2>1, <2>2
<1>11. D \in [1..n + 1 -> Nat] /\ D[1] = 0 /\ D[n + 1] = Len(F)
  BY <1>0, <1>6
<1> HIDE DEF H, D
<1>12. BodyLayout(parts, w, D, H)
  BY <1>7, <1>8, <1>10, <1>11 DEF BodyLayout, End
<1>13. Len(F) > 2
  <2>1. 1 \in 1..n /\ Len(msgs[1]) > 2 /\ HasAt(F, at[1], msgs[1])
    BY <1>0, <1>2, <1>5
  <2>q. QED BY <1>6, <2>1 DEF HasAt
<1>14. Encode(parts) = Tail(Tail(w))
  <2>1. F # <<>> /\ G # <<>>
    BY <1>7, <1>13
  <2>2. Tail(F) \in Seq(Bytes) /\ Tail(F) # <<>> /\ Tail(G) = Tail(F) \o Boundary
    <3>1. Tail(F) \in Seq(Bytes) /\ Len(Tail(F)) = Len(F) - 1 /\ Tail(F \o Boundary) = Tail(F) \o Boundary
      BY <1>4, <1>7, <2>1, TailJoins
    <3>2. Len(F) - 1 # 0
      <4> DEFINE f == Len(F)
      <4>1. f \in Nat /\ f > 2
        BY <1>6, <1>13
      <4> HIDE DEF f
      <4>2. f - 1 # 0
        BY <4>1
      <4>q. QED BY <4>2 DEF f
    <3>q. QED BY <3>1, <3>2
  <2>3. Tail(Tail(F)) \in Seq(Bytes) /\ Tail(Tail(G)) = Tail(Tail(F)) \o Boundary
    BY <1>7, <2>2, TailJoins
  <2>4. Tail(G) \in Seq(Bytes) /\ Tail(G) # <<>> /\ Tail(w) = Tail(G) \o End
    <3>1. Tail(G) \in Seq(Bytes) /\ Len(Tail(G)) = Len(G) - 1 /\ Tail(G \o End) = Tail(G) \o End
      BY <1>7, <2>1, TailJoins
    <3>2. Len(G) - 1 # 0
      BY <1>6, <1>7, <1>13
    <3>q. QED BY <3>1, <3>2
  <2>5. Tail(Tail(w)) = Tail(Tail(G)) \o End
    BY <1>7, <2>4, TailJoins
  <2>q. QED BY <1>3, <2>3, <2>5
<1>15. /\ Tail(Tail(w)) \in Seq(Bytes) /\ Len(Tail(Tail(w))) = Len(w) - 2 /\ Len(w) >= 2
       /\ \A x \in 1..Len(w) - 2 : Tail(Tail(w))[x] = w[x + 2]
  <2>0. w \in Seq(Bytes) /\ Len(w) \in Nat /\ Len(w) > 2
    BY <1>6, <1>7
  <2> HIDE DEF w
  <2>1. Tail(w) \in Seq(Bytes) /\ Len(Tail(w)) = Len(w) - 1 /\ \A x \in 1..Len(w) - 1 : Tail(w)[x] = w[x + 1]
    BY <2>0, HeadTailProperties
  <2> DEFINE t == Tail(w)
  <2> HIDE DEF t
  <2>2. t \in Seq(Bytes) /\ t # <<>> /\ Len(t) = Len(w) - 1
    BY <2>0, <2>1, SMTT(90) DEF t
  <2>3. Tail(t) \in Seq(Bytes) /\ Len(Tail(t)) = Len(w) - 2 /\ \A x \in 1..Len(w) - 2 : Tail(t)[x] = t[x + 1]
    BY <2>0, <2>2, HeadTailProperties
  <2>4. ASSUME NEW x \in 1..Len(w) - 2 PROVE Tail(t)[x] = w[x + 2]
    <3>1. x + 1 \in 1..Len(w) - 1 /\ x + 1 + 1 = x + 2
      BY <2>0
    <3>q. QED BY <2>1, <2>3, <3>1 DEF t
  <2>q. QED BY <2>0, <2>3, <2>4 DEF t
<1> HIDE DEF w
<1>q. QED BY <1>3, <1>7, <1>12, <1>14, <1>15

-----------------------------------------------------------------------------
(* what the second transform makes of events                                 *)

EventNames ==
  {"partBegin", "headerField", "headerValue", "headerEnd", "headersEnd", "partData", "partEnd", "end"}
Event == [name : EventNames, from : {"none", "chunk", "lookbehind"}, data : Seq(Bytes)]

(* Its state, and what an event whose bytes are its data does to it.         *)
After(c, e) ==
  [part |->
     CASE e.name = "partBegin" -> NewPart
       [] e.name = "headerField" -> [c.part EXCEPT !.field = @ \o e.data]
       [] e.name = "headerValue" -> [c.part EXCEPT !.value = @ \o e.data]
       [] e.name = "headerEnd" ->
            [c.part EXCEPT !.headers = Append(@, [field |-> c.part.field, value |-> c.part.value]),
                           !.field = <<>>, !.value = <<>>]
       [] e.name = "partData" -> [c.part EXCEPT !.data = @ \o e.data]
       [] OTHER -> c.part,
   results |-> IF e.name = "partEnd"
                 THEN Append(c.results, [headers |-> c.part.headers, data |-> c.part.data]) ELSE c.results,
   over |-> c.over \/ e.name = "end"]

(* torn: the body ended early.                                               *)
Sound(parts, c, torn) ==
  /\ \/ IsPrefix(c.results, parts)
     \/ torn /\ Last(c.results) = EmptyPart /\ IsPrefix(Front(c.results), parts)
  /\ c.over /\ ~torn => c.results = parts

(* The events lead from a to b.                                              *)
Leads(parts, es, a, b, torn) ==
  \E at : /\ at[0] = a /\ at[Len(es)] = b
          /\ \A i \in 1..Len(es) : at[i] = After(at[i - 1], es[i])
          /\ \A i \in 0..Len(es) : Sound(parts, at[i], torn)

(* No event leads on. *)
LEMMA LeadsNone ==
  ASSUME NEW parts, NEW a, NEW torn, Sound(parts, a, torn)
  PROVE  Leads(parts, <<>>, a, a, torn)
<1> DEFINE at == [i \in 0..0 |-> a]
<1>1. at[0] = a /\ Len(<<>>) = 0
  OBVIOUS
<1> HIDE DEF at
<1>2. (\A i \in 1..Len(<<>>) : at[i] = After(at[i - 1], <<>>[i])) /\ \A i \in 0..Len(<<>>) : Sound(parts, at[i], torn)
  BY <1>1
<1>q. QED BY <1>1, <1>2 DEF Leads

(* One event more. *)
LEMMA LeadsOn ==
  ASSUME NEW parts, NEW es \in Seq(Event), NEW e \in Event, NEW a, NEW b, NEW torn,
         Leads(parts, es, a, b, torn), Sound(parts, After(b, e), torn)
  PROVE  Append(es, e) \in Seq(Event) /\ Leads(parts, Append(es, e), a, After(b, e), torn)
<1> DEFINE n == Len(es)
<1>1. PICK at : /\ at[0] = a /\ at[n] = b
                /\ \A i \in 1..n : at[i] = After(at[i - 1], es[i])
                /\ \A i \in 0..n : Sound(parts, at[i], torn)
  BY DEF Leads
<1> DEFINE fs == Append(es, e)
           to == [i \in 0..n + 1 |-> IF i <= n THEN at[i] ELSE After(b, e)]
<1>2. n \in Nat /\ fs \in Seq(Event) /\ Len(fs) = n + 1 /\ fs[n + 1] = e /\ \A i \in 1..n : fs[i] = es[i]
  OBVIOUS
<1> HIDE DEF fs
<1>3. to[0] = a /\ to[n] = b /\ to[n + 1] = After(b, e) /\ \A i \in 0..n : to[i] = at[i]
  BY <1>1, <1>2
<1> HIDE DEF to, n
<1>4. ASSUME NEW i \in 1..n + 1 PROVE to[i] = After(to[i - 1], fs[i])
  <2>1. CASE i \in 1..n
    <3>1. i - 1 \in 0..n /\ i \in 0..n
      BY <1>2, <2>1
    <3>q. QED BY <1>1, <1>2, <1>3, <2>1, <3>1
  <2>2. CASE i = n + 1
    <3>1. i - 1 = n
      BY <1>2, <2>2
    <3>q. QED BY <1>2, <1>3, <2>2, <3>1
  <2>q. QED BY <1>2, <2>1, <2>2
<1>5. ASSUME NEW i \in 0..n + 1 PROVE Sound(parts, to[i], torn)
  <2>1. i \in 0..n \/ i = n + 1
    BY <1>2
  <2>q. QED BY <1>1, <1>3, <2>1
<1>6. Leads(parts, fs, a, After(b, e), torn)
  BY <1>2, <1>3, <1>4, <1>5 DEF Leads
<1>q. QED BY <1>2, <1>6 DEF fs

(* Events behind events. *)
LEMMA LeadsThrough ==
  ASSUME NEW parts, NEW es \in Seq(Event), NEW fs \in Seq(Event), NEW a, NEW b, NEW c, NEW torn,
         Leads(parts, es, a, b, torn), Leads(parts, fs, b, c, torn)
  PROVE  es \o fs \in Seq(Event) /\ Leads(parts, es \o fs, a, c, torn)
<1> DEFINE n == Len(es)
           m == Len(fs)
           gs == es \o fs
<1>1. PICK at : /\ at[0] = a /\ at[n] = b
                /\ \A i \in 1..n : at[i] = After(at[i - 1], es[i])
                /\ \A i \in 0..n : Sound(parts, at[i], torn)
  BY DEF Leads
<1>2. PICK on : /\ on[0] = b /\ on[m] = c
                /\ \A i \in 1..m : on[i] = After(on[i - 1], fs[i])
                /\ \A i \in 0..m : Sound(parts, on[i], torn)
  BY DEF Leads
<1>3. gs \in Seq(Event) /\ Joins(gs, es, fs)
  BY JoinedUp, Zenon
<1>4. /\ n \in Nat /\ m \in Nat /\ gs \in Seq(Event) /\ Len(gs) = n + m
      /\ (\A i \in 1..n : gs[i] = es[i]) /\ \A i \in 1..m : gs[n + i] = fs[i]
  BY <1>3 DEF Joins
<1> DEFINE to == [i \in 0..n + m |-> IF i <= n THEN at[i] ELSE on[i - n]]
<1> HIDE DEF gs, n, m
<1>5. \A i \in 0..n : to[i] = at[i]
  BY <1>4
<1>6. \A i \in 0..m : to[n + i] = on[i]
  <2> TAKE i \in 0..m
  <2>1. n + i \in 0..n + m /\ (n + i) - n = i /\ (n + i <= n => i = 0)
    BY <1>4
  <2>2. CASE i = 0
    BY <1>1, <1>2, <1>4, <2>1, <2>2
  <2>3. CASE i # 0
    BY <1>4, <2>1, <2>3
  <2>q. QED BY <2>2, <2>3
<1> HIDE DEF to
<1>7. ASSUME NEW i \in 1..n + m PROVE to[i] = After(to[i - 1], gs[i])
  <2>1. CASE i \in 1..n
    <3>1. i - 1 \in 0..n /\ i \in 0..n
      BY <1>4, <2>1
    <3>q. QED BY <1>1, <1>4, <1>5, <2>1, <3>1
  <2>2. CASE i \notin 1..n
    <3> DEFINE j == i - n
    <3>1. j \in 1..m /\ n + j = i /\ j - 1 \in 0..m /\ n + (j - 1) = i - 1 /\ j \in 0..m
      BY <1>4, <2>2
    <3> HIDE DEF j
    <3>2. to[i] = on[j] /\ to[i - 1] = on[j - 1] /\ gs[i] = fs[j]
      BY <1>4, <1>6, <3>1
    <3>q. QED BY <1>2, <3>1, <3>2
  <2>q. QED BY <2>1, <2>2
<1>8. ASSUME NEW i \in 0..n + m PROVE Sound(parts, to[i], torn)
  <2>1. CASE i \in 0..n
    BY <1>1, <1>5, <2>1
  <2>2. CASE i \notin 0..n
    <3>1. i - n \in 0..m /\ n + (i - n) = i
      BY <1>4, <2>2
    <3>q. QED BY <1>2, <1>6, <3>1
  <2>q. QED BY <2>1, <2>2
<1>9. to[0] = a /\ to[n + m] = c
  <2>1. 0 \in 0..n /\ m \in 0..m
    BY <1>4
  <2>q. QED BY <1>1, <1>2, <1>5, <1>6, <2>1
<1>10. Leads(parts, gs, a, c, torn)
  BY <1>4, <1>7, <1>8, <1>9 DEF Leads
<1>q. QED BY <1>3, <1>10 DEF gs

(* The first event is taken. *)
LEMMA LeadsFrom ==
  ASSUME NEW parts, NEW es \in Seq(Event), es # <<>>, NEW a, NEW b, NEW torn, Leads(parts, es, a, b, torn)
  PROVE  /\ Head(es) \in Event /\ Tail(es) \in Seq(Event)
         /\ Leads(parts, Tail(es), After(a, Head(es)), b, torn)
<1> DEFINE n == Len(es)
           fs == Tail(es)
<1>1. PICK at : /\ at[0] = a /\ at[n] = b
                /\ \A i \in 1..n : at[i] = After(at[i - 1], es[i])
                /\ \A i \in 0..n : Sound(parts, at[i], torn)
  BY DEF Leads
<1>2. /\ Head(es) = es[1] /\ Head(es) \in Event /\ fs \in Seq(Event) /\ Len(fs) = n - 1
      /\ \A i \in 1..n - 1 : fs[i] = es[i + 1]
  BY HeadTailProperties
<1>3. n \in Nat /\ n # 0
  OBVIOUS
<1> DEFINE to == [i \in 0..n - 1 |-> at[i + 1]]
<1> HIDE DEF fs, n
<1>4. \A i \in 0..n - 1 : to[i] = at[i + 1]
  OBVIOUS
<1> HIDE DEF to
<1>5. to[0] = After(a, es[1]) /\ to[n - 1] = b
  <2>1. 0 \in 0..n - 1 /\ n - 1 \in 0..n - 1 /\ (n - 1) + 1 = n /\ 1 \in 1..n /\ 1 - 1 = 0 /\ 0 + 1 = 1
    BY <1>3
  <2>2. at[1] = After(at[1 - 1], es[1])
    BY <1>1, <2>1
  <2>q. QED BY <1>1, <1>4, <2>1, <2>2
<1>6. ASSUME NEW i \in 1..n - 1 PROVE to[i] = After(to[i - 1], fs[i])
  <2>1. i \in 0..n - 1 /\ i - 1 \in 0..n - 1 /\ (i - 1) + 1 = i /\ i + 1 \in 1..n /\ (i + 1) - 1 = i
    BY <1>3
  <2>2. at[i + 1] = After(at[(i + 1) - 1], es[i + 1])
    BY <1>1, <2>1
  <2>q. QED BY <1>2, <1>4, <2>1, <2>2
<1>7. ASSUME NEW i \in 0..n - 1 PROVE Sound(parts, to[i], torn)
  <2>1. i + 1 \in 0..n
    BY <1>3
  <2>q. QED BY <1>1, <1>4, <2>1
<1>8. Leads(parts, fs, After(a, es[1]), b, torn)
  BY <1>2, <1>5, <1>6, <1>7 DEF Leads
<1>q. QED BY <1>2, <1>8 DEF fs

(* Both ends of the way are sound. *)
LEMMA LeadsSound ==
  ASSUME NEW parts, NEW es \in Seq(Event), NEW a, NEW b, NEW torn, Leads(parts, es, a, b, torn)
  PROVE  Sound(parts, a, torn) /\ Sound(parts, b, torn)
<1>1. PICK at : /\ at[0] = a /\ at[Len(es)] = b /\ \A i \in 0..Len(es) : Sound(parts, at[i], torn)
  BY DEF Leads
<1>2. 0 \in 0..Len(es) /\ Len(es) \in 0..Len(es)
  OBVIOUS
<1>q. QED BY <1>1, <1>2

(* Less is asked of a body that ended early. *)
LEMMA SoundTorn ==
  ASSUME NEW parts, NEW c, Sound(parts, c, FALSE) PROVE Sound(parts, c, TRUE)
BY DEF Sound

(* So every way is one for a body that ended early. *)
LEMMA LeadsTorn ==
  ASSUME NEW parts, NEW es, NEW a, NEW b, NEW torn \in BOOLEAN, Leads(parts, es, a, b, FALSE)
  PROVE  Leads(parts, es, a, b, torn)
<1>1. CASE torn = FALSE
  BY <1>1
<1>2. CASE torn = TRUE
  BY <1>2, SoundTorn DEF Leads
<1>q. QED BY <1>1, <1>2

(* It has k - 1 parts, and of the next h headers, a field and a value that    *)
(* may be cut off, and d bytes of data.                                       *)
View(parts, k, h, f, v, d) ==
  [part |-> [headers |-> SubSeq(parts[k].headers, 1, h), data |-> SubSeq(parts[k].data, 1, d),
             field |-> f, value |-> v],
   results |-> SubSeq(parts, 1, k - 1), over |-> FALSE]

(* The first k parts are sound as a result. *)
LEMMA PrefixSound ==
  ASSUME NEW parts \in Messages, NEW k \in 0..Len(parts)
  PROVE  /\ SubSeq(parts, 1, k) \in Seq(Parts) /\ Len(SubSeq(parts, 1, k)) = k
         /\ IsPrefix(SubSeq(parts, 1, k), parts)
         /\ \A c, torn : c.results = SubSeq(parts, 1, k) /\ (~c.over \/ torn \/ k = Len(parts))
                           => Sound(parts, c, torn)
<1>0. parts \in Seq(Parts) /\ Len(parts) \in Nat
  BY PartIs
<1>1. SubSeq(parts, 1, k) \in Seq(Parts) /\ Len(SubSeq(parts, 1, k)) = k
      /\ \A i \in 1..k : SubSeq(parts, 1, k)[i] = parts[i]
  BY <1>0
<1> DEFINE s == SubSeq(parts, 1, k)
<1>2. SubSeq(s, 1, k) = s
  <2>1. s \in Seq(Parts) /\ Len(s) = k
    BY <1>1
  <2> HIDE DEF s
  <2>q. QED BY <2>1
<1>3. IsPrefix(s, parts)
  BY <1>0, <1>1, <1>2 DEF IsPrefix
<1>4. k = Len(parts) => s = parts
  BY <1>0
<1>q. QED BY <1>1, <1>3, <1>4 DEF Sound

(* Whatever is known of part k, the parts before it are sound. *)
LEMMA ViewSound ==
  ASSUME NEW parts \in Messages, NEW k \in 1..Len(parts), NEW h, NEW f, NEW v, NEW d, NEW torn
  PROVE  Sound(parts, View(parts, k, h, f, v, d), torn)
<1>1. k - 1 \in 0..Len(parts) /\ View(parts, k, h, f, v, d).results = SubSeq(parts, 1, k - 1)
      /\ ~View(parts, k, h, f, v, d).over
  BY PartIs DEF View
<1>q. QED BY <1>1, PrefixSound

(* What each event adds to the view, one lemma each. *)
LEMMA BeginView ==
  ASSUME NEW parts \in Messages, NEW k \in 1..Len(parts), NEW c, NEW e, e.name = "partBegin",
         c.results = SubSeq(parts, 1, k - 1), c.over = FALSE
  PROVE  After(c, e) = View(parts, k, 0, <<>>, <<>>, 0)
<1>1. SubSeq(parts[k].headers, 1, 0) = <<>> /\ SubSeq(parts[k].data, 1, 0) = <<>>
  <2>1. PartFits(parts[k])
    BY PartIs
  <2>q. QED BY <2>1 DEF PartFits
<1>q. QED BY <1>1 DEF After, View, NewPart

(* A piece of the field. *)
LEMMA FieldView ==
  ASSUME NEW parts, NEW k, NEW h, NEW f, NEW v, NEW d, NEW e, e.name = "headerField"
  PROVE  After(View(parts, k, h, f, v, d), e) = View(parts, k, h, f \o e.data, v, d)
BY DEF After, View

(* A piece of the value. *)
LEMMA ValueView ==
  ASSUME NEW parts, NEW k, NEW h, NEW f, NEW v, NEW d, NEW e, e.name = "headerValue"
  PROVE  After(View(parts, k, h, f, v, d), e) = View(parts, k, h, f, v \o e.data, d)
BY DEF After, View

(* A header is complete. *)
LEMMA HeaderView ==
  ASSUME NEW parts \in Messages, NEW k \in 1..Len(parts), NEW h \in 1..Len(parts[k].headers), NEW d, NEW e,
         e.name = "headerEnd"
  PROVE  After(View(parts, k, h - 1, parts[k].headers[h].field, parts[k].headers[h].value, d), e)
           = View(parts, k, h, <<>>, <<>>, d)
<1>1. PartFits(parts[k])
  BY PartIs
<1> DEFINE hs == parts[k].headers
           r == parts[k].headers[h]
<1>2. hs \in Seq([field : Fields, value : Values]) /\ Len(hs) \in Nat
      /\ r = [field |-> r.field, value |-> r.value]
  BY <1>1 DEF PartFits, HeaderFits
<1> HIDE DEF hs, r
<1> DEFINE S == [field : Fields, value : Values]
<1>3. hs \in Seq(S) /\ r = hs[h] /\ h \in 1..Len(hs)
  BY <1>2 DEF hs, r
<1> HIDE DEF S
<1>4. Append(SubSeq(hs, 1, h - 1), r) = SubSeq(hs, 1, h)
  <2> DEFINE u == SubSeq(hs, 1, h - 1)
             t == SubSeq(hs, 1, h)
  <2>1. u \in Seq(S) /\ Len(u) = h - 1 /\ \A i \in 1..h - 1 : u[i] = hs[i]
    BY <1>2, <1>3
  <2>2. t \in Seq(S) /\ Len(t) = h /\ \A i \in 1..h : t[i] = hs[i]
    BY <1>2, <1>3
  <2>3. r \in S
    BY <1>3
  <2> HIDE DEF u, t
  <2>4. Append(u, r) \in Seq(S) /\ Len(Append(u, r)) = h /\ \A i \in 1..h : Append(u, r)[i] = t[i]
    BY <1>2, <1>3, <2>1, <2>2, <2>3
  <2>5. Append(u, r) = t
    BY <2>2, <2>4, SameSeq
  <2>q. QED BY <2>5 DEF u, t
<1> DEFINE c == View(parts, k, h - 1, r.field, r.value, d)
           u == SubSeq(hs, 1, h - 1)
           o == SubSeq(parts[k].data, 1, d)
<1>5. c.part = [headers |-> u, data |-> o, field |-> r.field, value |-> r.value]
  BY DEF View, hs
<1>6. After(c, e).part = [headers |-> Append(u, [field |-> r.field, value |-> r.value]),
                          data |-> o, field |-> <<>>, value |-> <<>>]
  <2> DEFINE q == c.part
  <2>1. After(c, e).part = [q EXCEPT !.headers = Append(@, [field |-> q.field, value |-> q.value]),
                                     !.field = <<>>, !.value = <<>>]
    BY DEF After
  <2>2. q = [headers |-> u, data |-> o, field |-> r.field, value |-> r.value]
    BY <1>5
  <2> HIDE DEF q, u, o, c
  <2>q. QED BY <2>1, <2>2
<1>7. After(View(parts, k, h - 1, r.field, r.value, d), e) =
        [part |-> After(View(parts, k, h - 1, r.field, r.value, d), e).part,
         results |-> SubSeq(parts, 1, k - 1), over |-> FALSE]
  BY DEF After, View
<1>8. After(View(parts, k, h - 1, r.field, r.value, d), e) = View(parts, k, h, <<>>, <<>>, d)
  BY <1>2, <1>4, <1>6, <1>7 DEF View, hs
<1>q. QED BY <1>8 DEF r

(* The end of the headers adds nothing. *)
LEMMA NothingView ==
  ASSUME NEW parts, NEW k, NEW h, NEW f, NEW v, NEW d, NEW e, e.name = "headersEnd"
  PROVE  After(View(parts, k, h, f, v, d), e) = View(parts, k, h, f, v, d)
BY DEF After, View

(* A piece of the data. *)
LEMMA MoreDataView ==
  ASSUME NEW parts \in Messages, NEW k \in 1..Len(parts), NEW h, NEW f, NEW v, NEW d \in Nat, NEW n \in Nat,
         NEW e, e.name = "partData", d <= n, n <= Len(parts[k].data), e.data = SubSeq(parts[k].data, d + 1, n)
  PROVE  After(View(parts, k, h, f, v, d), e) = View(parts, k, h, f, v, n)
<1>1. PartFits(parts[k])
  BY PartIs
<1>2. parts[k].data \in Seq(Bytes)
  BY <1>1 DEF PartFits
<1>3. SubSeq(parts[k].data, 1, d) \o SubSeq(parts[k].data, d + 1, n) = SubSeq(parts[k].data, 1, n)
  BY <1>2, SubSeqJoins
<1>q. QED BY <1>3 DEF After, View

(* The part is complete.                                                      *)
LEMMA EndView ==
  ASSUME NEW parts \in Messages, NEW k \in 1..Len(parts), NEW e, e.name = "partEnd"
  PROVE  LET c == View(parts, k, Len(parts[k].headers), <<>>, <<>>, Len(parts[k].data)) IN
         /\ After(c, e) = [part |-> c.part, results |-> SubSeq(parts, 1, k), over |-> FALSE]
         /\ \A torn : Sound(parts, After(c, e), torn)
<1> DEFINE c == View(parts, k, Len(parts[k].headers), <<>>, <<>>, Len(parts[k].data))
           p == parts[k]
<1>1. PartFits(p) /\ parts \in Seq(Parts) /\ p \in Parts /\ Len(parts) \in Nat
  BY PartIs
<1>2. SubSeq(p.headers, 1, Len(p.headers)) = p.headers /\ SubSeq(p.data, 1, Len(p.data)) = p.data
      /\ p = [headers |-> p.headers, data |-> p.data]
  BY <1>1 DEF PartFits
<1>3. [headers |-> c.part.headers, data |-> c.part.data] = p
  BY <1>2 DEF View
<1> DEFINE u == SubSeq(parts, 1, k - 1)
           t == SubSeq(parts, 1, k)
<1>4. Append(u, p) = t
  <2>1. u \in Seq(Parts) /\ Len(u) = k - 1 /\ \A i \in 1..k - 1 : u[i] = parts[i]
    BY <1>1
  <2>2. t \in Seq(Parts) /\ Len(t) = k /\ \A i \in 1..k : t[i] = parts[i]
    BY <1>1
  <2> HIDE DEF u, t
  <2>4. Append(u, p) \in Seq(Parts) /\ Len(Append(u, p)) = k /\ \A i \in 1..k : Append(u, p)[i] = t[i]
    BY <1>1, <2>1, <2>2
  <2> HIDE DEF p
  <2>5. Append(u, p) = t
    BY <2>2, <2>4, SameSeq
  <2>q. QED BY <2>5 DEF u, t
<1>5. After(c, e).part = c.part /\ After(c, e).over = FALSE /\ After(c, e).results = Append(u, p)
  BY <1>3 DEF After, View
<1>6. After(c, e) = [part |-> After(c, e).part, results |-> After(c, e).results, over |-> After(c, e).over]
  BY DEF After
<1>7. After(c, e) = [part |-> c.part, results |-> t, over |-> FALSE]
  BY <1>4, <1>5, <1>6
<1>8. \A torn : Sound(parts, After(c, e), torn)
  <2>1. k \in 0..Len(parts) /\ After(c, e).results = t /\ ~After(c, e).over
    BY <1>4, <1>5
  <2>q. QED BY <2>1, PrefixSound
<1>q. QED BY <1>7, <1>8

(* Nothing of a part has come but its delimiter.                              *)
LEMMA TornView ==
  ASSUME NEW parts \in Messages, NEW k \in 1..Len(parts), NEW e, e.name = "partEnd", NEW o, o.name = "end"
  PROVE  LET c == View(parts, k, 0, <<>>, <<>>, 0) IN
         Sound(parts, After(c, e), TRUE) /\ Sound(parts, After(After(c, e), o), TRUE)
<1> DEFINE c == View(parts, k, 0, <<>>, <<>>, 0)
           u == SubSeq(parts, 1, k - 1)
<1>1. SubSeq(parts[k].headers, 1, 0) = <<>> /\ SubSeq(parts[k].data, 1, 0) = <<>>
  <2>1. PartFits(parts[k])
    BY PartIs
  <2>q. QED BY <2>1 DEF PartFits
<1>2. [headers |-> c.part.headers, data |-> c.part.data] = EmptyPart /\ c.results = u
  BY <1>1 DEF View, EmptyPart
<1>3. After(c, e).results = Append(u, EmptyPart) /\ After(After(c, e), o).results = Append(u, EmptyPart)
  BY <1>2 DEF After
<1>4. u \in Seq(Parts) /\ Len(u) = k - 1 /\ k - 1 \in Nat /\ IsPrefix(u, parts)
  <2>1. k - 1 \in 0..Len(parts)
    BY PartIs
  <2>q. QED BY <2>1, PrefixSound
<1> HIDE DEF u
<1>5. Last(Append(u, EmptyPart)) = EmptyPart /\ Front(Append(u, EmptyPart)) = u
  <2>1. EmptyPart \in Parts \cup {EmptyPart} /\ u \in Seq(Parts \cup {EmptyPart})
    BY <1>4
  <2> DEFINE S == Parts \cup {EmptyPart}
             x == EmptyPart
  <2> HIDE DEF S, x
  <2>2. u \in Seq(S) /\ x \in S
    BY <2>1 DEF S, x
  <2>3. Append(u, x) \in Seq(S) /\ Len(Append(u, x)) = k /\ Append(u, x)[k] = x
        /\ \A i \in 1..k - 1 : Append(u, x)[i] = u[i]
    BY <1>4, <2>2
  <2>4. SubSeq(Append(u, x), 1, k - 1) = [i \in 1..k - 1 |-> u[i]]
    BY <1>4, <2>3
  <2>5. u = [i \in 1..k - 1 |-> u[i]]
    BY <1>4
  <2>q. QED BY <2>3, <2>4, <2>5 DEF Last, Front, x
<1>q. QED BY <1>3, <1>4, <1>5 DEF Sound

-----------------------------------------------------------------------------
(* places in the body                                                        *)

Places(parts) == CHOOSE l : BodyLayout(parts, Whole(parts), l.delimiters, l.headers)
DelimiterAt(parts, k) == Places(parts).delimiters[k]
HeadAt(parts, k, h) == Places(parts).headers[k][h]
DataAt(parts, k) == HeadAt(parts, k, Len(parts[k].headers) + 1) + 2

(* The bytes of the body, and what is at which place.                         *)
LEMMA WholeIs ==
  ASSUME NEW parts \in Messages
  PROVE  LET w == Whole(parts)
             n == Len(parts) IN
         /\ w \in Seq(Bytes) /\ Len(w) \in Nat /\ n \in Nat \ {0}
         /\ BodyLayout(parts, w, Places(parts).delimiters, Places(parts).headers)
         /\ \A k \in 1..n + 1 : DelimiterAt(parts, k) \in Nat /\ HasAt(w, DelimiterAt(parts, k), Boundary)
         /\ DelimiterAt(parts, 1) = 0
         /\ Len(w) = DelimiterAt(parts, n + 1) + BoundaryLength + 4
         /\ HasAt(w, DelimiterAt(parts, n + 1) + BoundaryLength, <<HYPHEN, HYPHEN, CR, LF>>)
<1>1. PICK D, H : BodyLayout(parts, Whole(parts), D, H)
  BY BodyIs
<1> DEFINE l == [delimiters |-> D, headers |-> H]
<1>2. BodyLayout(parts, Whole(parts), l.delimiters, l.headers)
  BY <1>1
<1> HIDE DEF l
<1>3. BodyLayout(parts, Whole(parts), Places(parts).delimiters, Places(parts).headers)
  BY <1>2 DEF Places
<1>4. Whole(parts) \in Seq(Bytes) /\ Len(parts) \in Nat \ {0}
  BY BodyIs, PartIs
<1> DEFINE n == Len(parts)
           d == Places(parts).delimiters
           g == Places(parts).headers
           w == Whole(parts)
<1> HIDE DEF n, d, g, w
<1>5. /\ d \in [1..n + 1 -> Nat] /\ d[1] = 0
      /\ \A k \in 1..n : PartAt(w, d[k], g[k], parts[k])
      /\ HasAt(w, d[n + 1], Boundary)
      /\ HasAt(w, d[n + 1] + BoundaryLength, <<HYPHEN, HYPHEN, CR, LF>>)
      /\ Len(w) = d[n + 1] + BoundaryLength + 4
  BY <1>3 DEF BodyLayout, n, d, g, w
<1>6. \A k \in 1..n : HasAt(w, d[k], Boundary)
  BY <1>5 DEF PartAt
<1>7. \A k \in 1..n + 1 : k \in 1..n \/ k = n + 1
  BY <1>4 DEF n
<1>q. QED BY <1>3, <1>4, <1>5, <1>6, <1>7 DEF n, d, g, w, DelimiterAt

(* Where the pieces of part k are. *)
LEMMA PlacesOfPart ==
  ASSUME NEW parts \in Messages, NEW k \in 1..Len(parts)
  PROVE  LET w == Whole(parts)
             m == Len(parts[k].headers)
             d == DelimiterAt(parts, k) + BoundaryLength IN
         /\ m \in Nat /\ PartFits(parts[k])
         /\ d \in Nat /\ d + 2 <= Len(w) /\ w[d + 1] = CR /\ w[d + 2] = LF
         /\ HeadAt(parts, k, 1) = d + 2
         /\ \A h \in 1..m + 1 : HeadAt(parts, k, h) \in Nat
         /\ \A h \in 1..m : /\ HeaderAt(w, HeadAt(parts, k, h), parts[k].headers[h])
                            /\ HeadAt(parts, k, h + 1) = EndOfHeader(HeadAt(parts, k, h), parts[k].headers[h])
         /\ w[HeadAt(parts, k, m + 1) + 1] = CR /\ w[HeadAt(parts, k, m + 1) + 2] = LF
         /\ DataAt(parts, k) \in Nat /\ DataAt(parts, k) = HeadAt(parts, k, m + 1) + 2
         /\ HasAt(w, DataAt(parts, k), parts[k].data)
         /\ DelimiterAt(parts, k + 1) = DataAt(parts, k) + Len(parts[k].data)
<1> DEFINE w == Whole(parts)
           m == Len(parts[k].headers)
           a == DelimiterAt(parts, k)
           g == Places(parts).headers[k]
<1>1. PartFits(parts[k]) /\ m \in Nat
  BY PartIs DEF PartFits
<1>2. /\ BodyLayout(parts, w, Places(parts).delimiters, Places(parts).headers)
      /\ a \in Nat /\ Len(w) \in Nat /\ DelimiterAt(parts, k + 1) \in Nat /\ BoundaryLength \in Nat
  <2>1. k \in 1..Len(parts) + 1 /\ k + 1 \in 1..Len(parts) + 1
    BY WholeIs
  <2>q. QED BY <2>1, WholeIs, BoundaryIs
<1>3. PartAt(w, a, g, parts[k]) /\ DelimiterAt(parts, k + 1) = EndOfPart(g, parts[k])
  BY <1>2 DEF BodyLayout, DelimiterAt
<1> HIDE DEF a, g, w, m
<1>4. /\ HasAt(w, a + BoundaryLength, <<CR, LF>>)
      /\ g \in [1..m + 1 -> Nat] /\ g[1] = a + BoundaryLength + 2
      /\ \A h \in 1..m : HeaderAt(w, g[h], parts[k].headers[h]) /\ g[h + 1] = EndOfHeader(g[h], parts[k].headers[h])
      /\ HasAt(w, g[m + 1], <<CR, LF>>)
      /\ HasAt(w, g[m + 1] + 2, parts[k].data)
  BY <1>3 DEF PartAt, m
<1>5. /\ a + BoundaryLength + 2 <= Len(w) /\ a + BoundaryLength \in Nat
      /\ w[a + BoundaryLength + 1] = CR /\ w[a + BoundaryLength + 2] = LF
  BY <1>4 DEF HasAt
<1>6. g[m + 1] \in Nat /\ w[g[m + 1] + 1] = CR /\ w[g[m + 1] + 2] = LF
  BY <1>4, SMTT(60) DEF HasAt
<1>7. \A h : HeadAt(parts, k, h) = g[h]
  BY DEF HeadAt, g
<1>8. DataAt(parts, k) = g[m + 1] + 2
  BY <1>7 DEF DataAt, m
<1>9. DelimiterAt(parts, k + 1) = g[m + 1] + 2 + Len(parts[k].data)
  BY <1>3 DEF EndOfPart, m
<1>10. /\ HeadAt(parts, k, 1) = a + BoundaryLength + 2
       /\ \A h \in 1..m + 1 : HeadAt(parts, k, h) \in Nat
       /\ \A h \in 1..m : /\ HeaderAt(w, HeadAt(parts, k, h), parts[k].headers[h])
                          /\ HeadAt(parts, k, h + 1) = EndOfHeader(HeadAt(parts, k, h), parts[k].headers[h])
  BY <1>4, <1>7, SMTT(60)
<1>11. /\ w[HeadAt(parts, k, m + 1) + 1] = CR /\ w[HeadAt(parts, k, m + 1) + 2] = LF
       /\ DataAt(parts, k) \in Nat /\ DataAt(parts, k) = HeadAt(parts, k, m + 1) + 2
       /\ HasAt(w, DataAt(parts, k), parts[k].data)
       /\ DelimiterAt(parts, k + 1) = DataAt(parts, k) + Len(parts[k].data)
  BY <1>4, <1>6, <1>7, <1>8, <1>9, SMTT(60)
<1>q. QED BY <1>1, <1>5, <1>10, <1>11 DEF a, w, m

(* Where the pieces of header h of part k are. *)
LEMMA PlacesOfHeader ==
  ASSUME NEW parts \in Messages, NEW k \in 1..Len(parts), NEW h \in 1..Len(parts[k].headers)
  PROVE  LET w == Whole(parts)
             f == parts[k].headers[h].field
             v == parts[k].headers[h].value
             a == HeadAt(parts, k, h)
             c == HeadAt(parts, k, h) + Len(f) + 2 IN
         /\ a \in Nat /\ Len(f) \in Nat \ {0} /\ Len(v) \in Nat /\ c = a + Len(f) + 2
         /\ f \in Seq(Bytes) /\ v \in Seq(Bytes) /\ HasAt(w, a, f) /\ HasAt(w, c, v)
         /\ \A j \in 1..Len(f) : w[a + j] \in Letters \cup {HYPHEN}
         /\ w[a + Len(f) + 1] = COLON /\ w[c] = SPACE
         /\ \A j \in 1..Len(v) : w[c + j] # CR
         /\ Len(v) > 0 => w[c + 1] # SPACE
         /\ w[c + Len(v) + 1] = CR /\ w[c + Len(v) + 2] = LF
         /\ HeadAt(parts, k, h + 1) = c + Len(v) + 2
<1> DEFINE w == Whole(parts)
           r == parts[k].headers[h]
           f == parts[k].headers[h].field
           v == parts[k].headers[h].value
           a == HeadAt(parts, k, h)
           c == a + Len(f) + 2
<1>1. HeaderFits(r)
  BY PlacesOfPart DEF PartFits
<1>2. HeaderAt(w, a, r) /\ HeadAt(parts, k, h + 1) = EndOfHeader(a, r)
  BY PlacesOfPart
<1> HIDE DEF w, a
<1>3. /\ HasAt(w, a, f) /\ HasAt(w, a + Len(f), <<COLON, SPACE>>) /\ HasAt(w, c, v)
      /\ HasAt(w, c + Len(v), <<CR, LF>>) /\ HeadAt(parts, k, h + 1) = c + Len(v) + 2
  BY <1>2 DEF HeaderAt, EndOfHeader
<1>4. /\ f \in Fields /\ v \in Values /\ f \in Seq(Bytes) /\ v \in Seq(Bytes)
  BY <1>1 DEF HeaderFits
<1> HIDE DEF f, v
<1>5. Len(f) \in Nat \ {0} /\ \A j \in 1..Len(f) : f[j] \in Letters \cup {HYPHEN}
  BY <1>4 DEF Fields
<1>6. Len(v) \in Nat /\ (\A j \in 1..Len(v) : v[j] # CR) /\ (Len(v) > 0 => v[1] # SPACE)
  BY <1>4 DEF Values
<1>7. a \in Nat /\ c \in Nat /\ a + Len(f) \in Nat /\ a + Len(f) + 2 = c
  BY <1>3, <1>5 DEF HasAt
<1>8. \A j \in 1..Len(f) : w[a + j] = f[j]
  BY <1>3 DEF HasAt
<1>9. \A j \in 1..Len(v) : w[c + j] = v[j]
  BY <1>3 DEF HasAt
<1>10. w[a + Len(f) + 1] = COLON /\ w[a + Len(f) + 2] = SPACE
  BY <1>3, <1>7, SMTT(60) DEF HasAt
<1>11. w[c + Len(v) + 1] = CR /\ w[c + Len(v) + 2] = LF
  BY <1>3, <1>6, <1>7, SMTT(60) DEF HasAt
<1>12. Len(v) > 0 => w[c + 1] # SPACE
  BY <1>6, <1>9
<1> HIDE DEF c
<1>q. QED BY <1>3, <1>4, <1>5, <1>6, <1>7, <1>8, <1>9, <1>10, <1>11, <1>12 DEF w, f, v, a, c

(* Where header h of part k ends, and the value before it. *)
LEMMA EndOfValue ==
  ASSUME NEW parts \in Messages, NEW k \in 1..Len(parts), NEW h \in 1..Len(parts[k].headers)
  PROVE  LET w == Whole(parts)
             f == parts[k].headers[h].field
             v == parts[k].headers[h].value
             a == HeadAt(parts, k, h)
             o == a + Len(f) + 2 IN
         /\ a \in Nat /\ v \in Seq(Bytes) /\ Len(v) \in Nat /\ w[o + Len(v) + 1] = CR /\ Len(f) \in Nat
         /\ HeadAt(parts, k, h + 1) = o + Len(v) + 2
BY PlacesOfHeader, ZenonT(60)

-----------------------------------------------------------------------------
(* what the parser knows at a place                                          *)

States ==
  {"START", "START_BOUNDARY", "HEADER_FIELD_START", "HEADER_FIELD", "HEADER_VALUE_START", "HEADER_VALUE",
   "HEADER_VALUE_ALMOST_DONE", "HEADERS_ALMOST_DONE", "PART_DATA_START", "PART_DATA", "END"}
Lookbehinds == [0..BoundaryLength -> Bytes]
Chunks == Seq(Bytes)
Pushed == Seq(Event)
LoopType ==
  [index : Int, state : States, flags : SUBSET {"PART", "LAST"}, lookbehind : Lookbehinds,
   headerField : Int, headerValue : Int, partData : Int,
   i : Int, chunk : Chunks, out : Pushed, err : BOOLEAN]

Marks(s, field, value, data) == s.headerField = field /\ s.headerValue = value /\ s.partData = data
NoMarks(s) == Marks(s, NoMark, NoMark, NoMark)
Remembered(lookbehind, n) == \A j \in 0..n - 1 : lookbehind[j] = Boundary[j + 1]

(* In each state: the place x, counted from the line end in front of the      *)
(* body, and the view b that the events give.  Marks count from base.         *)
InFirstDelimiter(parts, s, x, b) ==
  /\ \/ s.state = "START" /\ x = 2
     \/ s.state = "START_BOUNDARY" /\ s.index \in 1..BoundaryLength - 1 /\ x = s.index + 2
  /\ s.flags = {} /\ NoMarks(s)
  /\ b.results = <<>> /\ b.over = FALSE

AtField(parts, k, h, s, x, b) ==
  /\ s.state = "HEADER_FIELD_START" /\ h \in 1..Len(parts[k].headers) + 1 /\ x = HeadAt(parts, k, h)
  /\ s.index \in Nat /\ (s.index = 0 => h = 1)
  /\ s.flags = {} /\ NoMarks(s)
  /\ b = View(parts, k, h - 1, <<>>, <<>>, 0)

InField(parts, k, h, s, x, base, b) ==
  LET f == parts[k].headers[h].field
      a == HeadAt(parts, k, h) IN
  /\ s.state = "HEADER_FIELD" /\ h \in 1..Len(parts[k].headers) /\ x \in a + 1..a + Len(f)
  /\ s.index \in Nat \ {0} /\ s.headerField \in Nat /\ base + s.headerField \in a..x
  /\ s.flags = {} /\ Marks(s, s.headerField, NoMark, NoMark)
  /\ b = View(parts, k, h - 1, SubSeq(f, 1, base + s.headerField - a), <<>>, 0)

BeforeValue(parts, k, h, s, x, b) ==
  LET f == parts[k].headers[h].field
      a == HeadAt(parts, k, h) IN
  /\ s.state = "HEADER_VALUE_START" /\ h \in 1..Len(parts[k].headers) /\ x \in a + Len(f) + 1..a + Len(f) + 2
  /\ s.index \in Nat \ {0} /\ s.flags = {} /\ NoMarks(s)
  /\ b = View(parts, k, h - 1, f, <<>>, 0)

InValue(parts, k, h, s, x, base, b) ==
  LET f == parts[k].headers[h].field
      v == parts[k].headers[h].value
      c == HeadAt(parts, k, h) + Len(f) + 2 IN
  /\ s.state = "HEADER_VALUE" /\ h \in 1..Len(parts[k].headers) /\ x \in c + 1..c + Len(v)
  /\ s.index \in Nat \ {0} /\ s.headerValue \in Nat /\ base + s.headerValue \in c..x
  /\ s.flags = {} /\ Marks(s, NoMark, s.headerValue, NoMark)
  /\ b = View(parts, k, h - 1, f, SubSeq(v, 1, base + s.headerValue - c), 0)

BehindValue(parts, k, h, s, x, b) ==
  /\ s.state = "HEADER_VALUE_ALMOST_DONE" /\ h \in 1..Len(parts[k].headers)
  /\ x = HeadAt(parts, k, h + 1) - 1
  /\ s.index \in Nat \ {0} /\ s.flags = {} /\ NoMarks(s)
  /\ b = View(parts, k, h, <<>>, <<>>, 0)

BehindHeaders(parts, k, s, x, b) ==
  /\ \/ s.state = "HEADERS_ALMOST_DONE" /\ x = DataAt(parts, k) - 1
     \/ s.state = "PART_DATA_START" /\ x = DataAt(parts, k)
  /\ s.index = 0 /\ s.flags = {} /\ NoMarks(s)
  /\ b = View(parts, k, Len(parts[k].headers), <<>>, <<>>, 0)

DataView(parts, k, n) == View(parts, k, Len(parts[k].headers), <<>>, <<>>, n)

InData(parts, k, s, x, base, b) ==
  /\ s.state = "PART_DATA" /\ s.index = 0 /\ x \in DataAt(parts, k)..DelimiterAt(parts, k + 1)
  /\ s.partData \in Nat /\ base + s.partData \in DataAt(parts, k)..x
  /\ s.flags = {} /\ Marks(s, NoMark, NoMark, s.partData)
  /\ b = DataView(parts, k, base + s.partData - DataAt(parts, k))

\* What may be a delimiter, and the one it is if it is long enough.
InLead(parts, k, s, x, b) ==
  LET from == x - s.index IN
  /\ s.state = "PART_DATA" /\ s.index \in 1..BoundaryLength
  /\ from \in DataAt(parts, k)..DelimiterAt(parts, k + 1)
  /\ \A j \in 1..s.index : Whole(parts)[from + j] = Boundary[j]
  /\ Remembered(s.lookbehind, s.index)
  /\ s.flags = {} /\ NoMarks(s)
  /\ b = DataView(parts, k, from - DataAt(parts, k))

BehindDelimiter(parts, k, s, x, b) ==
  /\ s.state = "PART_DATA" /\ s.index = BoundaryLength + 1
  /\ x = DelimiterAt(parts, k + 1) + BoundaryLength + 1
  /\ s.flags = IF k < Len(parts) THEN {"PART"} ELSE {"LAST"}
  /\ NoMarks(s)
  /\ b = DataView(parts, k, Len(parts[k].data))

AtTheEnd(parts, s, x, b) ==
  /\ s.state = "END" /\ x >= DelimiterAt(parts, Len(parts) + 1) + BoundaryLength + 2
  /\ NoMarks(s) /\ b.results = parts /\ b.over = TRUE

InHeaders(parts, k, s, x, base, b) ==
  \E h \in 1..Len(parts[k].headers) + 1 :
    \/ AtField(parts, k, h, s, x, b) \/ InField(parts, k, h, s, x, base, b)
    \/ BeforeValue(parts, k, h, s, x, b) \/ InValue(parts, k, h, s, x, base, b)
    \/ BehindValue(parts, k, h, s, x, b)

InPart(parts, k, s, x, base, b) ==
  \/ InHeaders(parts, k, s, x, base, b) \/ BehindHeaders(parts, k, s, x, b)
  \/ InData(parts, k, s, x, base, b) \/ InLead(parts, k, s, x, b) \/ BehindDelimiter(parts, k, s, x, b)

Stands(parts, s, x, base, b) ==
  \/ InFirstDelimiter(parts, s, x, b)
  \/ \E k \in 1..Len(parts) : InPart(parts, k, s, x, base, b)
  \/ AtTheEnd(parts, s, x, b)

-----------------------------------------------------------------------------
(* one turn of the loop                                                      *)

Place(p, base) == base + (IF p.i <= Len(p.chunk) THEN p.i ELSE Len(p.chunk))
TurnsLeft(p) == 2 * (Len(p.chunk) - p.i) - (IF p.index = 0 THEN 1 ELSE 0)

(* The chunk is what the body has behind base.                                *)
ChunkAt(parts, chunk, base) == base \in Nat /\ HasAt(Whole(parts), base, chunk)

(* Bytes that were held back are still in the lookbehind buffer.              *)
Held(es, lookbehind) ==
  \A i \in 1..Len(es) : es[i].from = "lookbehind" =>
    \E n \in 0..BoundaryLength : /\ es[i].data = [j \in 1..n |-> Boundary[j]]
                                 /\ Remembered(lookbehind, n)
Keeps(old, new) == \A n \in 0..BoundaryLength : Remembered(old, n) => Remembered(new, n)

Common(parts, base, a, p, b) ==
  /\ parts \in Messages /\ p \in LoopType /\ ~p.err /\ p.i \in Nat
  /\ ChunkAt(parts, p.chunk, base)
  /\ Leads(parts, p.out, a, b, FALSE) /\ Held(p.out, p.lookbehind)
Ready(parts, base, a, p, b) == Common(parts, base, a, p, b) /\ p.i < Len(p.chunk)

Goes(parts, base, a, p, q) ==
  /\ q.chunk = p.chunk /\ Keeps(p.lookbehind, q.lookbehind) /\ TurnsLeft(q) < TurnsLeft(p)
  /\ \E b : Common(parts, base, a, q, b) /\ Stands(parts, q, Place(q, base), base, b)

(* What is known when the parser looks at a byte. *)
LEMMA ReadyFacts ==
  ASSUME NEW parts, NEW base, NEW a, NEW p, NEW b, Ready(parts, base, a, p, b)
  PROVE  /\ parts \in Messages /\ p \in LoopType /\ p.err = FALSE /\ p.i \in Nat /\ p.i < Len(p.chunk)
         /\ p.chunk \in Seq(Bytes) /\ Len(p.chunk) \in Nat /\ p.out \in Seq(Event) /\ base \in Nat
         /\ Place(p, base) = base + p.i /\ base + p.i \in Nat /\ base + p.i + 1 <= Len(Whole(parts))
         /\ Whole(parts) \in Seq(Bytes) /\ Len(Whole(parts)) \in Nat
         /\ At(p.chunk, p.i) = Whole(parts)[base + p.i + 1] /\ At(p.chunk, p.i) \in Bytes
         /\ Leads(parts, p.out, a, b, FALSE)
<1>1. /\ parts \in Messages /\ p \in LoopType /\ ~p.err /\ p.i \in Nat /\ p.i < Len(p.chunk)
      /\ Leads(parts, p.out, a, b, FALSE) /\ base \in Nat /\ HasAt(Whole(parts), base, p.chunk)
  BY DEF Ready, Common, ChunkAt
<1>2. p.err \in BOOLEAN /\ p.chunk \in Seq(Bytes) /\ p.out \in Seq(Event)
  BY <1>1 DEF LoopType, Chunks, Pushed
<1>3. Len(p.chunk) \in Nat
  BY <1>2
<1>4. Whole(parts) \in Seq(Bytes) /\ Len(Whole(parts)) \in Nat
  BY <1>1, WholeIs
<1>5. base + Len(p.chunk) <= Len(Whole(parts)) /\ \A j \in 1..Len(p.chunk) : Whole(parts)[base + j] = p.chunk[j]
  BY <1>1 DEF HasAt
<1>6. p.i + 1 \in 1..Len(p.chunk) /\ base + (p.i + 1) = base + p.i + 1
  BY <1>1, <1>3
<1>7. p.chunk[p.i + 1] = Whole(parts)[base + p.i + 1] /\ p.chunk[p.i + 1] \in Bytes
  BY <1>2, <1>5, <1>6
<1>8. Place(p, base) = base + p.i /\ base + p.i \in Nat /\ base + p.i + 1 <= Len(Whole(parts))
  BY <1>1, <1>3, <1>4, <1>5 DEF Place
<1>q. QED BY <1>1, <1>2, <1>3, <1>4, <1>7, <1>8 DEF At

(* An event more is held if what it refers to is remembered. *)
LEMMA HeldOn ==
  ASSUME NEW es \in Seq(Event), NEW e, NEW lookbehind, Held(es, lookbehind),
         e.from = "lookbehind" => \E n \in 0..BoundaryLength : /\ e.data = [j \in 1..n |-> Boundary[j]]
                                                               /\ Remembered(lookbehind, n)
  PROVE  Held(Append(es, e), lookbehind)
<1> DEFINE fs == Append(es, e)
<1>1. Len(fs) = Len(es) + 1 /\ Len(es) \in Nat /\ fs[Len(es) + 1] = e /\ \A i \in 1..Len(es) : fs[i] = es[i]
  OBVIOUS
<1> HIDE DEF fs
<1>2. \A i \in 1..Len(fs) : i \in 1..Len(es) \/ i = Len(es) + 1
  BY <1>1
<1>3. \A i \in 1..Len(fs) : fs[i].from = "lookbehind" =>
        \E n \in 0..BoundaryLength : /\ fs[i].data = [j \in 1..n |-> Boundary[j]]
                                     /\ Remembered(lookbehind, n)
  BY <1>1, <1>2 DEF Held
<1>q. QED BY <1>3 DEF Held, fs

(* What was held stays held. *)
LEMMA HeldKept ==
  ASSUME NEW es, NEW old, NEW new, Held(es, old), Keeps(old, new) PROVE Held(es, new)
BY DEF Held, Keeps

(* A turn goes on that looks at the next byte next. *)
LEMMA Advances ==
  ASSUME NEW parts, NEW base, NEW a, NEW p, NEW b, Ready(parts, base, a, p, b),
         NEW q \in LoopType, q.err = FALSE, q.chunk = p.chunk, q.i = p.i + 1,
         Keeps(p.lookbehind, q.lookbehind), Held(q.out, q.lookbehind),
         NEW c, Leads(parts, q.out, a, c, FALSE), Stands(parts, q, base + p.i + 1, base, c)
  PROVE  Goes(parts, base, a, p, q)
<1>1. /\ parts \in Messages /\ p \in LoopType /\ p.i \in Nat /\ p.i < Len(p.chunk) /\ Len(p.chunk) \in Nat
      /\ base \in Nat /\ p.index \in Int
  <2>1. p \in LoopType /\ p.i < Len(p.chunk) /\ Len(p.chunk) \in Nat /\ parts \in Messages /\ p.i \in Nat /\ base \in Nat
    BY ReadyFacts
  <2>2. p.index \in Int
    BY <2>1 DEF LoopType
  <2>q. QED BY <2>1, <2>2
<1>2. Common(parts, base, a, q, c)
  <2>1. ChunkAt(parts, p.chunk, base)
    BY DEF Ready, Common
  <2>2. q.i \in Nat
    BY <1>1
  <2>q. QED BY <1>1, <2>1, <2>2 DEF Common
<1>3. Place(q, base) = base + p.i + 1
  BY <1>1 DEF Place
<1>4. TurnsLeft(q) < TurnsLeft(p)
  BY <1>1, SMTT(60) DEF TurnsLeft
<1>q. QED BY <1>2, <1>3, <1>4 DEF Goes

(* A buffer that is left alone remembers what it did. *)
LEMMA KeepsSame == ASSUME NEW l PROVE Keeps(l, l)
BY DEF Keeps

(* A turn that pushes nothing. *)
LEMMA Quiet ==
  ASSUME NEW parts, NEW base, NEW a, NEW p, NEW b, Ready(parts, base, a, p, b),
         NEW q \in LoopType, q.err = FALSE, q.chunk = p.chunk, q.i = p.i + 1,
         q.lookbehind = p.lookbehind, q.out = p.out, Stands(parts, q, base + p.i + 1, base, b)
  PROVE  Goes(parts, base, a, p, q)
<1>1. Held(q.out, q.lookbehind) /\ Leads(parts, q.out, a, b, FALSE)
  BY DEF Ready, Common
<1>q. QED BY <1>1, KeepsSame, Advances

(* A turn that pushes one event. *)
LEMMA Pushes ==
  ASSUME NEW parts, NEW base, NEW a, NEW p, NEW b, Ready(parts, base, a, p, b),
         NEW q \in LoopType, q.err = FALSE, q.chunk = p.chunk, q.i = p.i + 1,
         q.lookbehind = p.lookbehind, NEW e \in Event, e.from # "lookbehind", q.out = Append(p.out, e),
         Sound(parts, After(b, e), FALSE), Stands(parts, q, base + p.i + 1, base, After(b, e))
  PROVE  Goes(parts, base, a, p, q)
<1>1. p.out \in Seq(Event) /\ Leads(parts, p.out, a, b, FALSE)
  BY ReadyFacts
<1>2. Leads(parts, q.out, a, After(b, e), FALSE)
  BY <1>1, LeadsOn
<1>3. Held(p.out, p.lookbehind)
  BY DEF Ready, Common
<1>4. Held(q.out, q.lookbehind)
  BY <1>1, <1>3, HeldOn
<1>q. QED BY <1>2, <1>4, KeepsSame, Advances

Mark(name) == [name |-> name, from |-> "none", data |-> <<>>]

(* An event without bytes. *)
LEMMA MarkIs ==
  ASSUME NEW name \in EventNames
  PROVE  Mark(name) \in Event /\ Mark(name).name = name /\ Mark(name).from = "none"
BY DEF Mark, Event

Turned(p, state, index, flags, lookbehind, field, value, data, out) ==
  [p EXCEPT !.state = state, !.index = index, !.flags = flags, !.lookbehind = lookbehind,
            !.headerField = field, !.headerValue = value, !.partData = data, !.out = out, !.i = p.i + 1]

TurnedInto(q, p, state, index, flags, lookbehind, field, value, data, out) ==
  /\ q \in LoopType /\ q.err = p.err /\ q.chunk = p.chunk /\ q.i = p.i + 1
  /\ q.state = state /\ q.index = index /\ q.flags = flags /\ q.lookbehind = lookbehind
  /\ q.headerField = field /\ q.headerValue = value /\ q.partData = data /\ q.out = out

(* The fields of the parser after a turn. *)
LEMMA TurnedIs ==
  ASSUME NEW p \in LoopType, NEW state \in States, NEW index \in Int, NEW flags \in SUBSET {"PART", "LAST"},
         NEW lookbehind \in Lookbehinds, NEW field \in Int, NEW value \in Int, NEW data \in Int,
         NEW out \in Pushed
  PROVE  TurnedInto(Turned(p, state, index, flags, lookbehind, field, value, data, out),
                    p, state, index, flags, lookbehind, field, value, data, out)
<1> DEFINE i == p.i + 1
           q == Turned(p, state, index, flags, lookbehind, field, value, data, out)
<1>1. i \in Int
  BY DEF LoopType
<1> HIDE DEF i
<1>2. [p EXCEPT !.state = state, !.index = index, !.flags = flags, !.lookbehind = lookbehind,
            !.headerField = field, !.headerValue = value, !.partData = data, !.out = out, !.i = i] \in LoopType
  BY <1>1 DEF LoopType
<1>3. q \in LoopType
  BY <1>2 DEF Turned, i
<1>4. /\ q \in LoopType /\ q.err = p.err /\ q.chunk = p.chunk /\ q.i = p.i + 1
      /\ q.state = state /\ q.index = index /\ q.flags = flags /\ q.lookbehind = lookbehind
      /\ q.headerField = field /\ q.headerValue = value /\ q.partData = data /\ q.out = out
  BY <1>3 DEF Turned, LoopType
<1> HIDE DEF q
<1>q. QED BY <1>4 DEF TurnedInto, q

(* The types of the fields. *)
LEMMA LoopFields ==
  ASSUME NEW p \in LoopType
  PROVE  /\ p.state \in States /\ p.index \in Int /\ p.flags \in SUBSET {"PART", "LAST"}
         /\ p.lookbehind \in Lookbehinds /\ p.headerField \in Int /\ p.headerValue \in Int /\ p.partData \in Int
         /\ p.i \in Int /\ p.chunk \in Chunks /\ p.out \in Pushed /\ p.err \in BOOLEAN
BY DEF LoopType

(* The states one by one. *)
LEMMA StatesAre ==
  /\ "START" \in States /\ "START_BOUNDARY" \in States /\ "HEADER_FIELD_START" \in States
  /\ "HEADER_FIELD" \in States /\ "HEADER_VALUE_START" \in States /\ "HEADER_VALUE" \in States
  /\ "HEADER_VALUE_ALMOST_DONE" \in States /\ "HEADERS_ALMOST_DONE" \in States
  /\ "PART_DATA_START" \in States /\ "PART_DATA" \in States /\ "END" \in States
  /\ NoMark \in Int /\ 0 \in Int
BY DEF States, NoMark

-----------------------------------------------------------------------------
(* the first delimiter *)

(* A turn within the first delimiter, and at its end the first part begins. *)
LEMMA FirstDelimiterTurn ==
  ASSUME NEW parts, NEW base, NEW a, NEW p, NEW b, Ready(parts, base, a, p, b),
         InFirstDelimiter(parts, p, base + p.i, b)
  PROVE  Goes(parts, base, a, p, Turn(p))
<1> DEFINE w == Whole(parts)
           x == base + p.i
           c == At(p.chunk, p.i)
           n == x - 2
<1>1. /\ p \in LoopType /\ p.err = FALSE /\ p.i \in Nat /\ x \in Nat /\ c = w[x + 1] /\ parts \in Messages
      /\ base \in Nat
  BY ReadyFacts
<1>2. /\ p.state \in {"START", "START_BOUNDARY"} /\ n \in 0..BoundaryLength - 1
      /\ n = IF p.state = "START" THEN 0 ELSE p.index
      /\ p.flags = {} /\ NoMarks(p) /\ b.results = <<>> /\ b.over = FALSE
  BY BoundaryIs DEF InFirstDelimiter
<1>3. BoundaryLength \in Nat /\ BoundaryLength >= 4 /\ x = n + 2
  BY <1>1, <1>2, BoundaryIs
<1>4. /\ 1 \in 1..Len(parts) /\ DelimiterAt(parts, 1) = 0 /\ HasAt(w, 0, Boundary)
      /\ w[BoundaryLength + 1] = CR /\ w[BoundaryLength + 2] = LF /\ HeadAt(parts, 1, 1) = BoundaryLength + 2
  <2>1. 1 \in 1..Len(parts) /\ 1 \in 1..Len(parts) + 1
    BY <1>1, PartIs
  <2>2. 0 + BoundaryLength = BoundaryLength
    BY <1>3
  <2>q. QED BY <1>1, <2>1, <2>2, WholeIs, PlacesOfPart, SMTT(90)
<1>5. Turn(p) = [StartBoundary(p, c) EXCEPT !.i = @ + 1]
  BY <1>2 DEF Turn
<1> DEFINE q == [p EXCEPT !.state = "START_BOUNDARY"]
<1> HIDE DEF n, c, w, x
<1>6. CASE n < BoundaryLength - 2
  <2> DEFINE r == Turned(p, "START_BOUNDARY", n + 1, p.flags, p.lookbehind, p.headerField, p.headerValue, p.partData, p.out)
  <2>1. c = At(Boundary, n + 2)
    <3>1. n + 3 \in 1..BoundaryLength /\ n + 2 + 1 = n + 3 /\ x + 1 = 0 + (n + 3)
      BY <1>2, <1>3, <1>6
    <3>2. w[0 + (n + 3)] = Boundary[n + 3]
      BY <1>4, <3>1 DEF HasAt, BoundaryLength
    <3>q. QED BY <1>1, <3>1, <3>2 DEF At
  <2>2. StartBoundary(p, c) = [q EXCEPT !.index = n + 1]
    BY <1>2, <1>3, <1>6, <2>1 DEF StartBoundary
  <2>3. Turn(p) = r
    BY <1>1, <1>5, <2>2, ZenonT(180) DEF LoopType, Turned
  <2>4. /\ r \in LoopType /\ r.err = FALSE /\ r.chunk = p.chunk /\ r.i = p.i + 1 /\ r.lookbehind = p.lookbehind
        /\ r.out = p.out /\ r.state = "START_BOUNDARY" /\ r.index = n + 1 /\ r.flags = {} /\ NoMarks(r)
    <3>1. n + 1 \in Int
      BY <1>2, <1>3
    <3>q. QED BY <1>1, <1>2, <3>1, TurnedIs, LoopFields, StatesAre, SMTT(60) DEF NoMarks, Marks, TurnedInto
  <2> HIDE DEF r
  <2>5. InFirstDelimiter(parts, r, x + 1, b)
    BY <1>2, <1>3, <1>6, <2>4 DEF InFirstDelimiter
  <2>6. Stands(parts, r, base + p.i + 1, base, b)
    BY <2>5 DEF Stands, x
  <2>q. QED BY <2>3, <2>4, <2>6, Quiet
<1>7. CASE n = BoundaryLength - 2
  <2> DEFINE r == Turned(p, "START_BOUNDARY", n + 1, p.flags, p.lookbehind, p.headerField, p.headerValue, p.partData, p.out)
  <2>1. c = CR /\ c # HYPHEN
    <3>1. x + 1 = BoundaryLength + 1
      BY <1>3, <1>7
    <3>q. QED BY <1>1, <1>4, <3>1 DEF CR, HYPHEN
  <2>2. StartBoundary(p, c) = [q EXCEPT !.index = n + 1]
    BY <1>2, <1>3, <1>7, <2>1 DEF StartBoundary
  <2>3. Turn(p) = r
    BY <1>1, <1>5, <2>2, ZenonT(180) DEF LoopType, Turned
  <2>4. /\ r \in LoopType /\ r.err = FALSE /\ r.chunk = p.chunk /\ r.i = p.i + 1 /\ r.lookbehind = p.lookbehind
        /\ r.out = p.out /\ r.state = "START_BOUNDARY" /\ r.index = n + 1 /\ r.flags = {} /\ NoMarks(r)
    <3>1. n + 1 \in Int
      BY <1>2, <1>3
    <3>q. QED BY <1>1, <1>2, <3>1, TurnedIs, LoopFields, StatesAre DEF NoMarks, Marks, TurnedInto
  <2> HIDE DEF r
  <2>5. InFirstDelimiter(parts, r, x + 1, b)
    BY <1>2, <1>3, <1>7, <2>4 DEF InFirstDelimiter
  <2>6. Stands(parts, r, base + p.i + 1, base, b)
    BY <2>5 DEF Stands, x
  <2>q. QED BY <2>3, <2>4, <2>6, Quiet
<1>8. CASE n = BoundaryLength - 1
  <2> DEFINE e == Mark("partBegin")
             o == Append(p.out, e)
             z == 0
             r == Turned(p, "HEADER_FIELD_START", z, p.flags, p.lookbehind, p.headerField, p.headerValue, p.partData, o)
  <2>1. c = LF /\ n # BoundaryLength - 2
    <3>1. x + 1 = BoundaryLength + 2
      BY <1>3, <1>8
    <3>q. QED BY <1>1, <1>3, <1>4, <1>8, <3>1
  <2>2. StartBoundary(p, c) = [Push(q, "partBegin") EXCEPT !.index = 0, !.state = "HEADER_FIELD_START"]
    BY <1>2, <1>3, <1>8, <2>1 DEF StartBoundary
  <2>3. Push(q, "partBegin") = [q EXCEPT !.out = o]
    BY <1>1 DEF Push, Mark, LoopType
  <2>4. e \in Event /\ e.from # "lookbehind" /\ e.name = "partBegin"
    BY MarkIs DEF EventNames
  <2>5. o \in Pushed /\ o = Append(p.out, e)
    BY <1>1, <2>4, LoopFields DEF Pushed
  <2>12. z \in Int /\ z = 0
    OBVIOUS
  <2>10. Turn(p) = r
    <3>1. p \in LoopType
      BY <1>1
    <3>q. QED BY <1>5, <2>2, <3>1, ZenonT(180) DEF LoopType, Turned, Push, Mark
  <2> HIDE DEF o, e, z
  <2>11. /\ r \in LoopType /\ r.err = FALSE /\ r.chunk = p.chunk /\ r.i = p.i + 1 /\ r.lookbehind = p.lookbehind
        /\ r.out = o /\ r.state = "HEADER_FIELD_START" /\ r.index = 0 /\ r.flags = {} /\ NoMarks(r)
    <3>1. /\ p \in LoopType /\ "HEADER_FIELD_START" \in States /\ z \in Int /\ p.flags \in SUBSET {"PART", "LAST"}
          /\ p.lookbehind \in Lookbehinds /\ p.headerField \in Int /\ p.headerValue \in Int /\ p.partData \in Int
          /\ o \in Pushed
      BY <1>1, <2>5, <2>12, LoopFields, StatesAre
    <3>2. /\ r \in LoopType /\ r.err = p.err /\ r.chunk = p.chunk /\ r.i = p.i + 1
         /\ r.state = "HEADER_FIELD_START" /\ r.index = z /\ r.flags = p.flags /\ r.lookbehind = p.lookbehind
         /\ r.headerField = p.headerField /\ r.headerValue = p.headerValue /\ r.partData = p.partData /\ r.out = o
      BY <3>1, TurnedIs DEF TurnedInto
    <3>q. QED BY <1>1, <1>2, <2>12, <3>2 DEF NoMarks, Marks
  <2> HIDE DEF r
  <2>6. After(b, e) = View(parts, 1, 0, <<>>, <<>>, 0)
    <3>1. SubSeq(parts, 1, 1 - 1) = <<>>
      BY <1>1, PartIs
    <3>q. QED BY <1>1, <1>2, <1>4, <2>4, <3>1, BeginView
  <2>7. AtField(parts, 1, 1, r, x + 1, After(b, e))
    <3>1. 1 \in 1..Len(parts[1].headers) + 1 /\ x + 1 = HeadAt(parts, 1, 1) /\ 1 - 1 = 0
      BY <1>1, <1>3, <1>4, <1>8, PlacesOfPart
    <3>q. QED BY <2>6, <2>11, <3>1 DEF AtField
  <2>8. Stands(parts, r, base + p.i + 1, base, After(b, e))
    <3>1. 1 \in 1..Len(parts[1].headers) + 1
      BY <2>7 DEF AtField
    <3>q. QED BY <1>4, <2>7, <3>1 DEF Stands, InPart, InHeaders, x
  <2>9. Sound(parts, After(b, e), FALSE)
    BY <1>1, <1>4, <2>6, ViewSound
  <2>q. QED BY <2>4, <2>5, <2>8, <2>9, <2>10, <2>11, Pushes
<1>9. n < BoundaryLength - 2 \/ n = BoundaryLength - 2 \/ n = BoundaryLength - 1
  BY <1>2, <1>3
<1>q. QED BY <1>6, <1>7, <1>8, <1>9

(* a slice of the chunk *)
SliceFits(base, chunk, m, n, s, o) ==
  /\ Slice(chunk, m, n) \in Seq(Bytes)
  /\ Slice(chunk, m, n) = SubSeq(s, base + m - o + 1, base + n - o)
  /\ SubSeq(s, 1, base + m - o) \o Slice(chunk, m, n) = SubSeq(s, 1, base + n - o)

(* A slice of the chunk is a slice of what stands there in the body. *)
LEMMA SliceIs ==
  ASSUME NEW parts, NEW base, NEW chunk \in Seq(Bytes), ChunkAt(parts, chunk, base),
         NEW m \in Nat, NEW n \in Nat, m <= n, n <= Len(chunk),
         NEW s \in Seq(Bytes), NEW o \in Nat, HasAt(Whole(parts), o, s), o <= base + m, base + n <= o + Len(s)
  PROVE  SliceFits(base, chunk, m, n, s, o)
<1> DEFINE w == Whole(parts)
           u == base + m - o
           v == base + n - o
           l == n - m
<1>1. /\ base \in Nat /\ Len(s) \in Nat /\ Len(chunk) \in Nat
      /\ \A j \in 1..Len(chunk) : w[base + j] = chunk[j]
      /\ \A j \in 1..Len(s) : w[o + j] = s[j]
  BY DEF ChunkAt, HasAt
<1>2. u \in Nat /\ v \in Nat /\ l \in Nat /\ v = u + l /\ m + l = n /\ v <= Len(s) /\ u <= v
  BY <1>1
<1>3. \A j \in 1..l : chunk[m + j] = s[u + j]
  <2> TAKE j \in 1..l
  <2>1. m + j \in 1..Len(chunk) /\ u + j \in 1..Len(s) /\ base + (m + j) = o + (u + j)
    BY <1>1, <1>2
  <2>q. QED BY <1>1, <2>1
<1> HIDE DEF u, v, l, w
<1>4. SubSeq(chunk, m + 1, m + l) = SubSeq(s, u + 1, u + l)
  <2>1. m + l <= Len(chunk) /\ u + l <= Len(s) /\ u \in Nat /\ l \in Nat
    BY <1>2
  <2>2. SubSeq(chunk, m + 1, m + l) = [j \in 1..l |-> chunk[m + j]]
    BY <2>1
  <2>3. SubSeq(s, u + 1, u + l) = [j \in 1..l |-> s[u + j]]
    BY <2>1
  <2>q. QED BY <1>3, <2>2, <2>3
<1>5. Slice(chunk, m, n) = SubSeq(s, u + 1, v)
  BY <1>2, <1>4 DEF Slice
<1>6. SubSeq(s, 1, u) \o SubSeq(s, u + 1, v) = SubSeq(s, 1, v)
  BY <1>2, SubSeqJoins
<1>7. Slice(chunk, m, n) \in Seq(Bytes)
  <2>1. Len(chunk) \in Nat /\ \A j \in m + 1..n : j \in 1..Len(chunk)
    BY <1>1
  <2>q. QED BY <2>1 DEF Slice
<1>q. QED BY <1>5, <1>6, <1>7 DEF u, v, SliceFits

Sliced(p, name, m, n) ==
  IF m = n THEN p.out ELSE Append(p.out, [name |-> name, from |-> "chunk", data |-> Slice(p.chunk, m, n)])

(* A slice is pushed, or nothing if it is empty. *)
LEMMA SlicePushed ==
  ASSUME NEW parts, NEW a, NEW b, NEW p \in LoopType, Leads(parts, p.out, a, b, FALSE), Held(p.out, p.lookbehind),
         NEW name \in EventNames, NEW m, NEW n, Slice(p.chunk, m, n) \in Seq(Bytes), NEW c,
         Sound(parts, c, FALSE), m = n => c = b,
         \A e : e.name = name /\ e.data = Slice(p.chunk, m, n) => After(b, e) = c
  PROVE  /\ Sliced(p, name, m, n) \in Pushed
         /\ Leads(parts, Sliced(p, name, m, n), a, c, FALSE)
         /\ Held(Sliced(p, name, m, n), p.lookbehind)
<1>1. p.out \in Seq(Event)
  BY LoopFields DEF Pushed
<1>2. CASE m = n
  BY <1>1, <1>2 DEF Sliced, Pushed
<1>3. CASE m # n
  <2> DEFINE e == [name |-> name, from |-> "chunk", data |-> Slice(p.chunk, m, n)]
  <2>1. /\ e \in Event /\ e.name = name /\ e.data = Slice(p.chunk, m, n) /\ e.from # "lookbehind"
        /\ Sliced(p, name, m, n) = Append(p.out, e)
    BY <1>3 DEF Event, Sliced
  <2> HIDE DEF e
  <2>2. After(b, e) = c
    BY <2>1
  <2>3. Append(p.out, e) \in Seq(Event) /\ Leads(parts, Append(p.out, e), a, c, FALSE)
    BY <1>1, <2>1, <2>2, LeadsOn
  <2>4. Held(Append(p.out, e), p.lookbehind)
    BY <1>1, <2>1, HeldOn
  <2>q. QED BY <2>1, <2>3, <2>4 DEF Pushed
<1>q. QED BY <1>2, <1>3

(* What dataCallback(name, true) does to each mark. *)
LEMMA EndMarkIs ==
  ASSUME NEW p \in LoopType
  PROVE  /\ p.headerField # NoMark =>
              EndMark(p, "headerField")
                = [p EXCEPT !.out = Sliced(p, "headerField", p.headerField, p.i), !.headerField = NoMark]
         /\ p.headerValue # NoMark =>
              EndMark(p, "headerValue")
                = [p EXCEPT !.out = Sliced(p, "headerValue", p.headerValue, p.i), !.headerValue = NoMark]
         /\ p.partData # NoMark =>
              EndMark(p, "partData")
                = [p EXCEPT !.out = Sliced(p, "partData", p.partData, p.i), !.partData = NoMark]
<1>1. p.headerField # NoMark =>
        EndMark(p, "headerField")
          = [p EXCEPT !.out = Sliced(p, "headerField", p.headerField, p.i), !.headerField = NoMark]
  BY DEF EndMark, PushSlice, Sliced, LoopType
<1>2. p.headerValue # NoMark =>
        EndMark(p, "headerValue")
          = [p EXCEPT !.out = Sliced(p, "headerValue", p.headerValue, p.i), !.headerValue = NoMark]
  BY DEF EndMark, PushSlice, Sliced, LoopType
<1>3. p.partData # NoMark =>
        EndMark(p, "partData")
          = [p EXCEPT !.out = Sliced(p, "partData", p.partData, p.i), !.partData = NoMark]
  BY DEF EndMark, PushSlice, Sliced, LoopType
<1>q. QED BY <1>1, <1>2, <1>3

(* What a turn leaves, and what follows from it.                              *)
LeftWith(r, state, index, flags, lookbehind, field, value, data) ==
  /\ r.state = state /\ r.index = index /\ r.flags = flags /\ r.lookbehind = lookbehind
  /\ Marks(r, field, value, data)

(* A turn in general, from the fields it leaves. *)
LEMMA Turns ==
  ASSUME NEW parts, NEW base, NEW a, NEW p, NEW b, Ready(parts, base, a, p, b),
         NEW state \in States, NEW index \in Int, NEW flags \in SUBSET {"PART", "LAST"},
         NEW lookbehind \in Lookbehinds, NEW field \in Int, NEW value \in Int, NEW data \in Int,
         NEW out \in Pushed, NEW c,
         Turn(p) = Turned(p, state, index, flags, lookbehind, field, value, data, out),
         Keeps(p.lookbehind, lookbehind), Held(out, lookbehind), Leads(parts, out, a, c, FALSE),
         \A r : LeftWith(r, state, index, flags, lookbehind, field, value, data)
                  => Stands(parts, r, base + p.i + 1, base, c)
  PROVE  Goes(parts, base, a, p, Turn(p))
<1> DEFINE r == Turned(p, state, index, flags, lookbehind, field, value, data, out)
<1>1. p \in LoopType /\ p.err = FALSE
  BY ReadyFacts
<1>2. /\ r \in LoopType /\ r.err = p.err /\ r.chunk = p.chunk /\ r.i = p.i + 1
      /\ r.state = state /\ r.index = index /\ r.flags = flags /\ r.lookbehind = lookbehind
      /\ r.headerField = field /\ r.headerValue = value /\ r.partData = data /\ r.out = out
  <2>1. /\ p \in LoopType /\ state \in States /\ index \in Int /\ flags \in SUBSET {"PART", "LAST"}
        /\ lookbehind \in Lookbehinds /\ field \in Int /\ value \in Int /\ data \in Int /\ out \in Pushed
    BY <1>1
  <2>2. TurnedInto(r, p, state, index, flags, lookbehind, field, value, data, out)
    BY <2>1, TurnedIs
  <2> HIDE DEF r
  <2>q. QED BY <2>2 DEF TurnedInto
<1> HIDE DEF r
<1>3. LeftWith(r, state, index, flags, lookbehind, field, value, data)
  BY <1>2 DEF LeftWith, Marks
<1>4. Stands(parts, r, base + p.i + 1, base, c)
  BY <1>3
<1>5. Goes(parts, base, a, p, r)
  BY <1>1, <1>2, <1>4, Advances
<1>q. QED BY <1>5 DEF r

(* A turn that pushes nothing and leaves flags and lookbehind alone. *)
LEMMA TurnsQuietly ==
  ASSUME NEW parts, NEW base, NEW a, NEW p, NEW b, Ready(parts, base, a, p, b),
         NEW state \in States, NEW index \in Int, NEW field \in Int, NEW value \in Int, NEW data \in Int,
         Turn(p) = Turned(p, state, index, p.flags, p.lookbehind, field, value, data, p.out),
         \A r : LeftWith(r, state, index, p.flags, p.lookbehind, field, value, data)
                  => Stands(parts, r, base + p.i + 1, base, b)
  PROVE  Goes(parts, base, a, p, Turn(p))
<1>1. Held(p.out, p.lookbehind) /\ Leads(parts, p.out, a, b, FALSE) /\ p \in LoopType
  BY DEF Ready, Common
<1>2. p.flags \in SUBSET {"PART", "LAST"} /\ p.lookbehind \in Lookbehinds /\ p.out \in Pushed
  BY <1>1, LoopFields
<1>q. QED BY <1>1, <1>2, KeepsSame, Turns

(* A turn that pushes an event without bytes. *)
LEMMA TurnsWith ==
  ASSUME NEW parts, NEW base, NEW a, NEW p, NEW b, Ready(parts, base, a, p, b),
         NEW state \in States, NEW index \in Int, NEW field \in Int, NEW value \in Int, NEW data \in Int,
         NEW name \in EventNames, Sound(parts, After(b, Mark(name)), FALSE),
         Turn(p) = Turned(p, state, index, p.flags, p.lookbehind, field, value, data, Append(p.out, Mark(name))),
         \A r : LeftWith(r, state, index, p.flags, p.lookbehind, field, value, data)
                  => Stands(parts, r, base + p.i + 1, base, After(b, Mark(name)))
  PROVE  Goes(parts, base, a, p, Turn(p))
<1>1. Held(p.out, p.lookbehind) /\ Leads(parts, p.out, a, b, FALSE) /\ p \in LoopType
  BY DEF Ready, Common
<1>2. p.flags \in SUBSET {"PART", "LAST"} /\ p.lookbehind \in Lookbehinds /\ p.out \in Seq(Event)
  BY <1>1, LoopFields DEF Pushed
<1> DEFINE e == Mark(name)
           o == Append(p.out, e)
<1>3. e \in Event /\ e.from # "lookbehind"
  BY MarkIs
<1> HIDE DEF e
<1>4. o \in Pushed /\ Leads(parts, o, a, After(b, e), FALSE) /\ Held(o, p.lookbehind)
  BY <1>1, <1>2, <1>3, LeadsOn, HeldOn DEF Pushed, e
<1>5. /\ Turn(p) = Turned(p, state, index, p.flags, p.lookbehind, field, value, data, o)
      /\ \A r : LeftWith(r, state, index, p.flags, p.lookbehind, field, value, data)
                  => Stands(parts, r, base + p.i + 1, base, After(b, e))
  BY DEF e
<1> HIDE DEF o
<1>q. QED BY <1>2, <1>4, <1>5, KeepsSame, Turns

-----------------------------------------------------------------------------
(* the headers *)

(* The letters of a field are none of the bytes that end it. *)
LEMMA LettersAre ==
  /\ \A c \in Letters \cup {HYPHEN} : c # CR /\ c # COLON
  /\ CR \notin Letters /\ COLON \notin Letters /\ HYPHEN \notin Letters
  /\ CR # HYPHEN /\ CR # COLON /\ CR # LF /\ CR # SPACE /\ COLON # HYPHEN /\ LF # HYPHEN
BY ParserAssumption DEF CR, LF, HYPHEN, COLON, SPACE

(* A turn at the first byte of a header or at the line end behind the last. *)
LEMMA AtFieldTurn ==
  ASSUME NEW parts, NEW base, NEW a, NEW p, NEW b, Ready(parts, base, a, p, b),
         NEW k \in 1..Len(parts), NEW h, AtField(parts, k, h, p, base + p.i, b)
  PROVE  Goes(parts, base, a, p, Turn(p))
<1> DEFINE w == Whole(parts)
           x == base + p.i
           c == At(p.chunk, p.i)
           m == Len(parts[k].headers)
           z == 0
           one == 1
<1>1. /\ parts \in Messages /\ p \in LoopType /\ p.i \in Nat /\ base \in Nat /\ x \in Nat /\ c = w[x + 1]
  BY ReadyFacts
<1>2. /\ p.state = "HEADER_FIELD_START" /\ h \in 1..m + 1 /\ x = HeadAt(parts, k, h) /\ p.flags = {} /\ NoMarks(p)
      /\ b = View(parts, k, h - 1, <<>>, <<>>, 0)
  BY DEF AtField
<1>3. m \in Nat
  BY <1>1, PlacesOfPart
<1>4. Turn(p) = [HeaderField(p, c) EXCEPT !.i = @ + 1]
  BY <1>2 DEF Turn
<1>5. p.headerField \in Int /\ p.headerValue \in Int /\ p.partData \in Int /\ p.headerValue = NoMark /\ p.partData = NoMark
  BY <1>1, <1>2, LoopFields DEF NoMarks, Marks
<1>6. z \in Int /\ z = 0 /\ one \in Int /\ one = 1 /\ p.i \in Int
  BY <1>1
<1> HIDE DEF c, w, x
<1>7. CASE h = m + 1
  <2>1. c = CR /\ x + 1 = DataAt(parts, k) - 1 /\ h - 1 = m
    <3>1. w[HeadAt(parts, k, m + 1) + 1] = CR /\ DataAt(parts, k) = HeadAt(parts, k, m + 1) + 2
      BY <1>1, PlacesOfPart DEF w
    <3>q. QED BY <1>1, <1>2, <1>3, <1>7, <3>1
  <2>2. Turn(p) = Turned(p, "HEADERS_ALMOST_DONE", z, p.flags, p.lookbehind, NoMark, p.headerValue, p.partData, p.out)
    <3>1. HeaderField(p, c)
            = [[p EXCEPT !.state = "HEADER_FIELD", !.headerField = p.i, !.index = 0]
                 EXCEPT !.headerField = NoMark, !.state = "HEADERS_ALMOST_DONE"]
      BY <1>2, <2>1, LettersAre DEF HeaderField
    <3>q. QED BY <1>1, <1>4, <3>1, ZenonT(180) DEF LoopType, Turned
  <2> HIDE DEF z
  <2>3. ASSUME NEW r, LeftWith(r, "HEADERS_ALMOST_DONE", z, p.flags, p.lookbehind, NoMark, p.headerValue, p.partData)
        PROVE  Stands(parts, r, x + 1, base, b)
    <3>1. BehindHeaders(parts, k, r, x + 1, b)
      BY <1>2, <1>5, <1>6, <2>1, <2>3 DEF BehindHeaders, LeftWith, NoMarks
    <3>q. QED BY <3>1 DEF Stands, InPart
  <2>q. QED BY <1>5, <1>6, <2>2, <2>3, StatesAre, TurnsQuietly DEF x
<1>8. CASE h \in 1..m
  <2> DEFINE f == parts[k].headers[h].field
  <2>1. /\ Len(f) \in Nat \ {0} /\ w[x + 1] \in Letters \cup {HYPHEN}
        /\ f \in Seq(Bytes)
    <3>1. x \in Nat /\ Len(f) \in Nat \ {0} /\ f \in Seq(Bytes) /\ \A j \in 1..Len(f) : w[x + j] \in Letters \cup {HYPHEN}
      BY <1>1, <1>2, <1>8, PlacesOfHeader DEF w
    <3>q. QED BY <3>1
  <2>2. c \in Letters \cup {HYPHEN} /\ c # CR /\ c # COLON
    BY <1>1, <2>1, LettersAre
  <2>3. Turn(p) = Turned(p, "HEADER_FIELD", one, p.flags, p.lookbehind, p.i, p.headerValue, p.partData, p.out)
    <3>1. HeaderField(p, c)
            = [[p EXCEPT !.state = "HEADER_FIELD", !.headerField = p.i, !.index = 0] EXCEPT !.index = @ + 1]
      BY <1>2, <2>2 DEF HeaderField
    <3>2. p \in LoopType /\ 0 + 1 = one
      BY <1>1
    <3>q. QED BY <1>4, <3>1, <3>2, ZenonT(180) DEF LoopType, Turned
  <2>4. SubSeq(f, 1, base + p.i - HeadAt(parts, k, h)) = <<>> /\ base + p.i = HeadAt(parts, k, h)
    BY <1>1, <1>2, <2>1 DEF x
  <2> HIDE DEF one, f
  <2>5. ASSUME NEW r, LeftWith(r, "HEADER_FIELD", one, p.flags, p.lookbehind, p.i, p.headerValue, p.partData)
        PROVE  Stands(parts, r, base + p.i + 1, base, b)
    <3>1. InField(parts, k, h, r, x + 1, base, b)
      <4>1. r.headerField = p.i /\ r.state = "HEADER_FIELD" /\ r.index = 1 /\ r.flags = {} /\ Marks(r, r.headerField, NoMark, NoMark)
        BY <1>2, <1>5, <1>6, <2>5 DEF LeftWith, Marks
      <4>2. x + 1 \in x + 1..x + Len(f) /\ base + p.i \in x..x + 1
        BY <1>1, <2>1 DEF x
      <4>3. r.index \in Nat \ {0} /\ r.headerField \in Nat
        BY <1>1, <4>1
      <4>4. base + r.headerField = x
        BY <4>1 DEF x
      <4>q. QED BY <1>2, <1>8, <2>4, <4>1, <4>2, <4>3, <4>4 DEF InField, f
    <3>2. h \in 1..Len(parts[k].headers) + 1
      BY <1>2
    <3>q. QED BY <3>1, <3>2 DEF Stands, InPart, InHeaders, x
  <2>q. QED BY <1>5, <1>6, <2>3, <2>5, StatesAre, TurnsQuietly
<1>q. QED BY <1>2, <1>3, <1>7, <1>8

(* The field up to byte n of the chunk is pushed. *)
LEMMA FieldViewed ==
  ASSUME NEW parts \in Messages, NEW base, NEW a, NEW p \in LoopType, NEW b, ChunkAt(parts, p.chunk, base),
         NEW k \in 1..Len(parts), NEW h, NEW x, InField(parts, k, h, p, x, base, b),
         Leads(parts, p.out, a, b, FALSE), Held(p.out, p.lookbehind),
         NEW n \in Nat, n <= Len(p.chunk), p.headerField <= n,
         base + n \in HeadAt(parts, k, h) + 1..HeadAt(parts, k, h) + Len(parts[k].headers[h].field)
  PROVE  LET f == parts[k].headers[h].field
             c == View(parts, k, h - 1, SubSeq(f, 1, base + n - HeadAt(parts, k, h)), <<>>, 0)
             out == Sliced(p, "headerField", p.headerField, n) IN
         out \in Pushed /\ Leads(parts, out, a, c, FALSE) /\ Held(out, p.lookbehind)
<1> DEFINE f == parts[k].headers[h].field
           o == HeadAt(parts, k, h)
           m == p.headerField
           v == SubSeq(f, 1, base + n - o)
           c == View(parts, k, h - 1, v, <<>>, 0)
<1>1. /\ h \in 1..Len(parts[k].headers) /\ m \in Nat /\ o <= base + m
      /\ b = View(parts, k, h - 1, SubSeq(f, 1, base + m - o), <<>>, 0)
  <2>1. /\ h \in 1..Len(parts[k].headers) /\ m \in Nat /\ base + m \in o..x
        /\ b = View(parts, k, h - 1, SubSeq(f, 1, base + m - o), <<>>, 0)
    BY DEF InField
  <2>q. QED BY <2>1
<1>2. o \in Nat /\ f \in Seq(Bytes) /\ Len(f) \in Nat /\ HasAt(Whole(parts), o, f)
  BY <1>1, PlacesOfHeader
<1>3. base \in Nat /\ p.chunk \in Seq(Bytes)
  BY LoopFields DEF ChunkAt, Chunks
<1>4. m <= n /\ base + n <= o + Len(f)
  BY <1>2, <1>3
<1> HIDE DEF f, o, m, v
<1>5. /\ Slice(p.chunk, m, n) \in Seq(Bytes)
      /\ SubSeq(f, 1, base + m - o) \o Slice(p.chunk, m, n) = SubSeq(f, 1, base + n - o)
  <2>1. /\ p.chunk \in Seq(Bytes) /\ ChunkAt(parts, p.chunk, base) /\ m \in Nat /\ n \in Nat /\ m <= n /\ n <= Len(p.chunk)
        /\ f \in Seq(Bytes) /\ o \in Nat /\ HasAt(Whole(parts), o, f) /\ o <= base + m /\ base + n <= o + Len(f)
    BY <1>1, <1>2, <1>3, <1>4
  <2>2. SliceFits(base, p.chunk, m, n, f, o)
    BY <2>1, SliceIs
  <2>q. QED BY <2>2 DEF SliceFits
<1>6. \A e : e.name = "headerField" /\ e.data = Slice(p.chunk, m, n) => After(b, e) = c
  <2> DEFINE u == SubSeq(f, 1, base + m - o)
  <2>1. b = View(parts, k, h - 1, u, <<>>, 0) /\ u \o Slice(p.chunk, m, n) = v
    BY <1>1, <1>5 DEF v
  <2>2. c = View(parts, k, h - 1, v, <<>>, 0)
    OBVIOUS
  <2> DEFINE i == h - 1
             z == 0
  <2> HIDE DEF u, c, i, z
  <2>3. b = View(parts, k, i, u, <<>>, z) /\ c = View(parts, k, i, v, <<>>, z)
    BY <2>1, <2>2 DEF i, z
  <2>4. ASSUME NEW e, e.name = "headerField", e.data = Slice(p.chunk, m, n) PROVE After(b, e) = c
    <3>1. After(View(parts, k, i, u, <<>>, z), e) = View(parts, k, i, u \o e.data, <<>>, z)
      BY <2>4, FieldView
    <3>q. QED BY <2>1, <2>3, <2>4, <3>1
  <2>q. QED BY <2>4
<1>7. m = n => c = b
  BY <1>1 DEF v
<1>8. Sound(parts, c, FALSE)
  BY ViewSound
<1>9. "headerField" \in EventNames
  BY DEF EventNames
<1> HIDE DEF c
<1>10. LET out == Sliced(p, "headerField", m, n) IN
       out \in Pushed /\ Leads(parts, out, a, c, FALSE) /\ Held(out, p.lookbehind)
  BY <1>5, <1>6, <1>7, <1>8, <1>9, SlicePushed
<1>q. QED BY <1>10 DEF c, v, f, o, m

(* A turn within a field, and at the colon it is pushed. *)
LEMMA InFieldTurn ==
  ASSUME NEW parts, NEW base, NEW a, NEW p, NEW b, Ready(parts, base, a, p, b),
         NEW k \in 1..Len(parts), NEW h, InField(parts, k, h, p, base + p.i, base, b)
  PROVE  Goes(parts, base, a, p, Turn(p))
<1> DEFINE w == Whole(parts)
           x == base + p.i
           c == At(p.chunk, p.i)
           f == parts[k].headers[h].field
           o == HeadAt(parts, k, h)
           j == p.index + 1
           t == p.headerField
<1>1. /\ parts \in Messages /\ p \in LoopType /\ p.i \in Nat /\ base \in Nat /\ x \in Nat /\ c = w[x + 1]
      /\ p.i < Len(p.chunk) /\ Len(p.chunk) \in Nat
  BY ReadyFacts
<1>2. /\ p.state = "HEADER_FIELD" /\ h \in 1..Len(parts[k].headers) /\ x \in o + 1..o + Len(f)
      /\ p.index \in Nat \ {0} /\ t \in Nat /\ base + t \in o..x
      /\ p.flags = {} /\ p.headerValue = NoMark /\ p.partData = NoMark
      /\ b = View(parts, k, h - 1, SubSeq(f, 1, base + t - o), <<>>, 0)
  BY DEF InField, Marks
<1>3. /\ o \in Nat /\ f \in Seq(Bytes) /\ Len(f) \in Nat \ {0} /\ w[o + Len(f) + 1] = COLON
      /\ \A i \in 1..Len(f) : w[o + i] \in Letters \cup {HYPHEN}
  BY <1>1, <1>2, PlacesOfHeader
<1>4. Turn(p) = [HeaderField(p, c) EXCEPT !.i = @ + 1]
  BY <1>2 DEF Turn
<1>5. p.headerField \in Int /\ p.headerValue \in Int /\ p.partData \in Int
  BY <1>1, LoopFields
<1>9. j \in Int /\ j \in Nat \ {0} /\ j = p.index + 1 /\ x = base + p.i
  BY <1>2
<1>6. h \in 1..Len(parts[k].headers) + 1
  <2>1. Len(parts[k].headers) \in Nat
    BY <1>1, PlacesOfPart
  <2>q. QED BY <1>2, <2>1
<1> HIDE DEF c, w, f, o, x, j
<1>7. CASE x < o + Len(f)
  <2>1. c \in Letters \cup {HYPHEN} /\ c # CR /\ c # COLON
    <3>1. x - o + 1 \in 1..Len(f) /\ o + (x - o + 1) = x + 1
      BY <1>1, <1>2, <1>3, <1>7
    <3>2. w[x + 1] \in Letters \cup {HYPHEN}
      BY <1>3, <3>1
    <3>q. QED BY <1>1, <3>2, LettersAre
  <2>2. Turn(p) = Turned(p, "HEADER_FIELD", j, p.flags, p.lookbehind, p.headerField, p.headerValue, p.partData, p.out)
    <3>1. HeaderField(p, c) = [p EXCEPT !.index = @ + 1]
      BY <1>2, <2>1 DEF HeaderField
    <3>2. p \in LoopType
      BY <1>1
    <3>3. p.index + 1 = j /\ p.state = "HEADER_FIELD"
      BY <1>2, <1>9
    <3>q. QED BY <1>4, <3>1, <3>2, <3>3, ZenonT(90) DEF LoopType, Turned, j
  <2>3. ASSUME NEW r, LeftWith(r, "HEADER_FIELD", j, p.flags, p.lookbehind, p.headerField, p.headerValue, p.partData)
        PROVE  Stands(parts, r, base + p.i + 1, base, b)
    <3>1. r.headerField = t /\ r.state = "HEADER_FIELD" /\ r.index \in Nat \ {0} /\ r.flags = {} /\ Marks(r, r.headerField, NoMark, NoMark)
      BY <1>2, <1>5, <1>9, <2>3 DEF LeftWith, Marks
    <3>2. x + 1 \in o + 1..o + Len(f) /\ base + t \in o..x + 1
      BY <1>1, <1>2, <1>3, <1>7, SMTT(90)
    <3>3. InField(parts, k, h, r, x + 1, base, b)
      BY <1>2, <3>1, <3>2 DEF InField, f, o
    <3>q. QED BY <1>6, <1>9, <3>3 DEF Stands, InPart, InHeaders
  <2>q. QED BY <1>5, <1>9, <2>2, <2>3, StatesAre, TurnsQuietly
<1>8. CASE x = o + Len(f)
  <2> DEFINE out == Sliced(p, "headerField", p.headerField, p.i)
             d == View(parts, k, h - 1, f, <<>>, 0)
  <2>1. c = COLON
    BY <1>1, <1>3, <1>8
  <2>2. t # NoMark /\ p.index # 0
    BY <1>2 DEF NoMark
  <2>3. EndMark(p, "headerField") = [p EXCEPT !.out = out, !.headerField = NoMark]
    BY <1>1, <2>2, EndMarkIs
  <2>4. HeaderField(p, c) = [EndMark(p, "headerField") EXCEPT !.index = @ + 1, !.state = "HEADER_VALUE_START"]
    BY <1>2, <2>1, <2>2, LettersAre DEF HeaderField
  <2>5. out \in Pushed /\ Leads(parts, out, a, d, FALSE) /\ Held(out, p.lookbehind)
    <3>1. p.i <= Len(p.chunk) /\ p.headerField <= p.i /\ p.i \in Nat /\ base + p.i \in o + 1..o + Len(f)
      BY <1>1, <1>2, <1>9, SMTT(90)
    <3>2. SubSeq(f, 1, base + p.i - o) = f
      <4>1. base + p.i - o = Len(f)
        BY <1>1, <1>3, <1>8, <1>9, SMTT(60)
      <4>q. QED BY <1>3, <4>1
    <3>3. ChunkAt(parts, p.chunk, base) /\ Leads(parts, p.out, a, b, FALSE) /\ Held(p.out, p.lookbehind)
      BY DEF Ready, Common
    <3>q. QED BY <1>1, <3>1, <3>2, <3>3, FieldViewed DEF f, o
  <2> HIDE DEF out
  <2>6. Turn(p) = Turned(p, "HEADER_VALUE_START", j, p.flags, p.lookbehind, NoMark, p.headerValue, p.partData, out)
    <3>1. p \in LoopType
      BY <1>1
    <3>2. p.index + 1 = j
      BY <1>9
    <3>3. HeaderField(p, c)
            = [p EXCEPT !.out = out, !.headerField = NoMark, !.index = p.index + 1, !.state = "HEADER_VALUE_START"]
      BY <2>3, <2>4, <3>1 DEF LoopType
    <3>q. QED BY <1>4, <3>1, <3>3, ZenonT(90) DEF LoopType, Turned, j
  <2>7. ASSUME NEW r, LeftWith(r, "HEADER_VALUE_START", j, p.flags, p.lookbehind, NoMark, p.headerValue, p.partData)
        PROVE  Stands(parts, r, base + p.i + 1, base, d)
    <3>1. r.state = "HEADER_VALUE_START" /\ r.index \in Nat \ {0} /\ r.flags = {} /\ NoMarks(r)
      BY <1>2, <1>5, <1>9, <2>7 DEF LeftWith, Marks, NoMarks
    <3>2. x + 1 \in o + Len(f) + 1..o + Len(f) + 2
      BY <1>1, <1>3, <1>8
    <3>3. BeforeValue(parts, k, h, r, x + 1, d)
      BY <1>2, <3>1, <3>2 DEF BeforeValue, f, o
    <3>q. QED BY <1>6, <1>9, <3>3 DEF Stands, InPart, InHeaders
  <2> HIDE DEF d
  <2>8. p.flags \in SUBSET {"PART", "LAST"} /\ p.lookbehind \in Lookbehinds /\ Keeps(p.lookbehind, p.lookbehind)
    BY <1>1, LoopFields, KeepsSame
  <2>q. QED BY <1>5, <1>9, <2>5, <2>6, <2>7, <2>8, StatesAre, Turns
<1>10. x < o + Len(f) \/ x = o + Len(f)
  <2>1. x \in Nat /\ o \in Nat /\ Len(f) \in Nat /\ x \in o + 1..o + Len(f)
    BY <1>1, <1>2, <1>3
  <2>q. QED BY <2>1
<1>q. QED BY <1>7, <1>8, <1>10

(* A turn at the space in front of a value, or at its first byte. *)
LEMMA BeforeValueTurn ==
  ASSUME NEW parts, NEW base, NEW a, NEW p, NEW b, Ready(parts, base, a, p, b),
         NEW k \in 1..Len(parts), NEW h, BeforeValue(parts, k, h, p, base + p.i, b)
  PROVE  Goes(parts, base, a, p, Turn(p))
<1> DEFINE w == Whole(parts)
           x == base + p.i
           c == At(p.chunk, p.i)
           f == parts[k].headers[h].field
           v == parts[k].headers[h].value
           o == HeadAt(parts, k, h) + Len(f) + 2
<1>1. /\ parts \in Messages /\ p \in LoopType /\ p.i \in Nat /\ base \in Nat /\ x \in Nat /\ c = w[x + 1]
      /\ p.i < Len(p.chunk) /\ Len(p.chunk) \in Nat
  BY ReadyFacts
<1>2. /\ p.state = "HEADER_VALUE_START" /\ h \in 1..Len(parts[k].headers) /\ p.index \in Nat \ {0}
      /\ x \in HeadAt(parts, k, h) + Len(f) + 1..HeadAt(parts, k, h) + Len(f) + 2
      /\ p.flags = {} /\ p.headerField = NoMark /\ p.headerValue = NoMark /\ p.partData = NoMark
      /\ b = View(parts, k, h - 1, f, <<>>, 0)
  BY DEF BeforeValue, NoMarks, Marks
<1>3. /\ o \in Nat /\ f \in Seq(Bytes) /\ v \in Seq(Bytes) /\ Len(v) \in Nat /\ w[o] = SPACE
      /\ Len(v) > 0 => w[o + 1] # SPACE
      /\ w[o + Len(v) + 1] = CR
      /\ \A j \in 1..Len(v) : w[o + j] # CR
      /\ HeadAt(parts, k, h + 1) = o + Len(v) + 2
      /\ HeadAt(parts, k, h) \in Nat /\ Len(f) \in Nat
  <2>1. h \in 1..Len(parts[k].headers)
    BY <1>2
  <2>2. /\ f \in Seq(Bytes) /\ v \in Seq(Bytes) /\ Len(v) \in Nat /\ w[o] = SPACE
        /\ Len(v) > 0 => w[o + 1] # SPACE
        /\ w[o + Len(v) + 1] = CR
        /\ HeadAt(parts, k, h + 1) = o + Len(v) + 2
        /\ HeadAt(parts, k, h) \in Nat /\ Len(f) \in Nat
    BY <1>1, <2>1, PlacesOfHeader, ZenonT(90)
  <2>3. \A j \in 1..Len(v) : w[o + j] # CR
    BY <1>1, <2>1, PlacesOfHeader
  <2>4. o \in Nat
    <3> DEFINE g == HeadAt(parts, k, h)
               l == Len(f)
    <3>1. g \in Nat /\ l \in Nat
      BY <2>2
    <3> HIDE DEF g, l
    <3>2. g + l + 2 \in Nat
      BY <3>1
    <3>q. QED BY <3>2 DEF g, l
  <2>q. QED BY <2>2, <2>3, <2>4
<1>4. Turn(p) = [HeaderValue(p, c) EXCEPT !.i = @ + 1]
  BY <1>2 DEF Turn
<1>5. p.headerField \in Int /\ p.headerValue \in Int /\ p.partData \in Int /\ p.i \in Int /\ p.index \in Int
  BY <1>1, LoopFields
<1>6. h \in 1..Len(parts[k].headers) + 1 /\ h \in 1..Len(parts[k].headers)
  <2>1. Len(parts[k].headers) \in Nat
    BY <1>1, PlacesOfPart
  <2>q. QED BY <1>2, <2>1
<1>7. (x = o - 1 \/ x = o) /\ o = HeadAt(parts, k, h) + Len(f) + 2
  <2>1. HeadAt(parts, k, h) \in Nat /\ Len(f) \in Nat /\ x \in Nat
    BY <1>1, <1>3
  <2> DEFINE g == HeadAt(parts, k, h)
             l == Len(f)
  <2>2. x \in g + l + 1..g + l + 2 /\ g \in Nat /\ l \in Nat /\ x \in Nat
    BY <1>2, <2>1
  <2>4. o = g + l + 2
    OBVIOUS
  <2> HIDE DEF g, l, x, o
  <2>3. x = g + l + 2 - 1 \/ x = g + l + 2
    BY <2>2
  <2>5. x = o - 1 \/ x = o
    BY <2>2, <2>3, <2>4
  <2>q. QED BY <2>4, <2>5 DEF g, l
<1>8. x = base + p.i
  OBVIOUS
<1>9. BeforeValue(parts, k, h, p, x, b)
  OBVIOUS
<1> HIDE DEF c, w, f, v, x, o
<1>10. CASE x = o - 1
  <2>1. c = SPACE
    <3>1. x + 1 = o
      BY <1>1, <1>3, <1>10
    <3>q. QED BY <1>1, <1>3, <3>1
  <2>2. Turn(p) = Turned(p, "HEADER_VALUE_START", p.index, p.flags, p.lookbehind, p.headerField, p.headerValue, p.partData, p.out)
    <3>1. HeaderValue(p, c) = p /\ p \in LoopType /\ p.state = "HEADER_VALUE_START"
      BY <1>1, <1>2, <2>1 DEF HeaderValue
    <3>q. QED BY <1>4, <3>1, ZenonT(90) DEF LoopType, Turned
  <2>3. ASSUME NEW r, LeftWith(r, "HEADER_VALUE_START", p.index, p.flags, p.lookbehind, p.headerField, p.headerValue, p.partData)
        PROVE  Stands(parts, r, base + p.i + 1, base, b)
    <3>1. r.state = "HEADER_VALUE_START" /\ r.index \in Nat \ {0} /\ r.flags = {} /\ NoMarks(r)
      BY <1>2, <2>3 DEF LeftWith, Marks, NoMarks
    <3>2. x + 1 \in HeadAt(parts, k, h) + Len(f) + 1..HeadAt(parts, k, h) + Len(f) + 2
      BY <1>1, <1>3, <1>7, <1>10, SMTT(90)
    <3>3. BeforeValue(parts, k, h, r, x + 1, b)
      BY <1>2, <3>1, <3>2 DEF BeforeValue, f
    <3>q. QED BY <1>6, <1>8, <3>3 DEF Stands, InPart, InHeaders
  <2>q. QED BY <1>5, <2>2, <2>3, StatesAre, TurnsQuietly
<1>11. CASE x = o /\ Len(v) > 0
  <2>1. c # SPACE /\ c # CR
    <3>1. 1 \in 1..Len(v)
      BY <1>3, <1>11
    <3>q. QED BY <1>1, <1>3, <1>11, <3>1
  <2>2. Turn(p) = Turned(p, "HEADER_VALUE", p.index, p.flags, p.lookbehind, p.headerField, p.i, p.partData, p.out)
    <3>1. HeaderValue(p, c) = [p EXCEPT !.headerValue = p.i, !.state = "HEADER_VALUE"] /\ p \in LoopType
      BY <1>1, <1>2, <2>1 DEF HeaderValue
    <3>q. QED BY <1>4, <3>1 DEF LoopType, Turned
  <2>3. ASSUME NEW r, LeftWith(r, "HEADER_VALUE", p.index, p.flags, p.lookbehind, p.headerField, p.i, p.partData)
        PROVE  Stands(parts, r, base + p.i + 1, base, b)
    <3>1. /\ r.state = "HEADER_VALUE" /\ r.index \in Nat \ {0} /\ r.flags = {} /\ r.headerValue = p.i
          /\ Marks(r, NoMark, r.headerValue, NoMark)
      BY <1>2, <2>3 DEF LeftWith, Marks, NoMarks
    <3>2. x + 1 \in o + 1..o + Len(v) /\ base + p.i \in o..x + 1
      BY <1>1, <1>3, <1>8, <1>11, SMTT(60)
    <3>3. SubSeq(v, 1, base + p.i - o) = <<>>
      <4>1. base + p.i - o = 0
        BY <1>1, <1>3, <1>8, <1>11
      <4>q. QED BY <1>3, <4>1
    <3>4. InValue(parts, k, h, r, x + 1, base, b)
      BY <1>1, <1>2, <3>1, <3>2, <3>3 DEF InValue, f, v, o
    <3>q. QED BY <1>6, <1>8, <3>4 DEF Stands, InPart, InHeaders
  <2>q. QED BY <1>5, <2>2, <2>3, StatesAre, TurnsQuietly
<1>12. CASE x = o /\ ~(Len(v) > 0)
  <2> DEFINE e == Mark("headerEnd")
             d == View(parts, k, h, <<>>, <<>>, 0)
  <2>1. c = CR /\ c # SPACE /\ v = <<>>
    <3>1. Len(v) = 0
      BY <1>3, <1>12
    <3>2. v = <<>> /\ o + Len(v) + 1 = x + 1
      BY <1>1, <1>3, <1>12, <3>1
    <3>3. w[x + 1] = CR
      BY <1>3, <3>2
    <3>q. QED BY <1>1, <3>2, <3>3, LettersAre
  <2>2. Turn(p) = Turned(p, "HEADER_VALUE_ALMOST_DONE", p.index, p.flags, p.lookbehind, p.headerField, NoMark, p.partData, Append(p.out, e))
    <3> DEFINE q == [p EXCEPT !.headerValue = p.i, !.state = "HEADER_VALUE"]
    <3>1. q \in LoopType /\ p \in LoopType /\ q.headerValue = p.i /\ q.i = p.i /\ q.headerValue # NoMark /\ q.out = p.out
      <4>1. p.i # NoMark
        BY <1>1 DEF NoMark
      <4>2. q \in LoopType
        BY <1>1, <1>5, StatesAre DEF LoopType
      <4>q. QED BY <1>1, <4>1, <4>2 DEF LoopType
    <3>2. HeaderValue(p, c) = [Push(EndMark(q, "headerValue"), "headerEnd") EXCEPT !.state = "HEADER_VALUE_ALMOST_DONE"]
      BY <1>2, <2>1 DEF HeaderValue
    <3>3. Sliced(q, "headerValue", q.headerValue, q.i) = p.out
      BY <3>1 DEF Sliced
    <3>4. EndMark(q, "headerValue") = [q EXCEPT !.out = p.out, !.headerValue = NoMark]
      BY <3>1, <3>3, EndMarkIs
    <3>5. EndMark(q, "headerValue") = [p EXCEPT !.headerValue = NoMark, !.state = "HEADER_VALUE"]
      BY <3>1, <3>4 DEF LoopType
    <3> HIDE DEF q
    <3>6. HeaderValue(p, c) = [p EXCEPT !.headerValue = NoMark, !.out = Append(p.out, e), !.state = "HEADER_VALUE_ALMOST_DONE"]
      BY <3>1, <3>2, <3>5 DEF LoopType, Push, Mark
    <3>q. QED BY <1>4, <3>1, <3>6, ZenonT(90) DEF LoopType, Turned
  <2>3. After(b, e) = d /\ Sound(parts, After(b, e), FALSE) /\ "headerEnd" \in EventNames
    <3>1. "headerEnd" \in EventNames /\ e.name = "headerEnd"
      BY MarkIs DEF EventNames
    <3> HIDE DEF e
    <3>2. After(View(parts, k, h - 1, f, v, 0), e) = d
      BY <1>1, <1>2, <3>1, HeaderView DEF f, v
    <3>3. b = View(parts, k, h - 1, f, v, 0)
      BY <1>2, <2>1
    <3>4. Sound(parts, d, FALSE)
      BY <1>1, ViewSound
    <3>q. QED BY <3>1, <3>2, <3>3, <3>4
  <2>4. ASSUME NEW r, LeftWith(r, "HEADER_VALUE_ALMOST_DONE", p.index, p.flags, p.lookbehind, p.headerField, NoMark, p.partData)
        PROVE  Stands(parts, r, base + p.i + 1, base, d)
    <3>1. r.state = "HEADER_VALUE_ALMOST_DONE" /\ r.index \in Nat \ {0} /\ r.flags = {} /\ NoMarks(r)
      BY <1>2, <2>4 DEF LeftWith, Marks, NoMarks
    <3>2. x + 1 = HeadAt(parts, k, h + 1) - 1
      BY <1>1, <1>3, <1>12
    <3>3. BehindValue(parts, k, h, r, x + 1, d)
      BY <1>2, <3>1, <3>2 DEF BehindValue
    <3>q. QED BY <1>6, <1>8, <3>3 DEF Stands, InPart, InHeaders
  <2>5. NoMark \in Int
    BY StatesAre
  <2> HIDE DEF d, e
  <2>q. QED BY <1>5, <2>2, <2>3, <2>4, <2>5, StatesAre, TurnsWith DEF e
<1>q. QED BY <1>7, <1>10, <1>11, <1>12

(* The value up to byte n of the chunk is pushed. *)
LEMMA ValueViewed ==
  ASSUME NEW parts \in Messages, NEW base, NEW a, NEW p \in LoopType, NEW b, ChunkAt(parts, p.chunk, base),
         NEW k \in 1..Len(parts), NEW h, NEW x, InValue(parts, k, h, p, x, base, b),
         Leads(parts, p.out, a, b, FALSE), Held(p.out, p.lookbehind),
         NEW n \in Nat, n <= Len(p.chunk), p.headerValue <= n,
         base + n <= HeadAt(parts, k, h) + Len(parts[k].headers[h].field) + 2 + Len(parts[k].headers[h].value)
  PROVE  LET f == parts[k].headers[h].field
             v == parts[k].headers[h].value
             c == View(parts, k, h - 1, f, SubSeq(v, 1, base + n - (HeadAt(parts, k, h) + Len(f) + 2)), 0)
             out == Sliced(p, "headerValue", p.headerValue, n) IN
         out \in Pushed /\ Leads(parts, out, a, c, FALSE) /\ Held(out, p.lookbehind)
<1> DEFINE f == parts[k].headers[h].field
           v == parts[k].headers[h].value
           o == HeadAt(parts, k, h) + Len(f) + 2
           m == p.headerValue
           s == SubSeq(v, 1, base + n - o)
           c == View(parts, k, h - 1, f, s, 0)
<1>1. /\ h \in 1..Len(parts[k].headers) /\ m \in Nat
      /\ b = View(parts, k, h - 1, f, SubSeq(v, 1, base + m - o), 0) /\ base + m \in o..x
  BY DEF InValue
<1>2. o \in Nat /\ v \in Seq(Bytes) /\ Len(v) \in Nat /\ HasAt(Whole(parts), o, v)
  <2> DEFINE q == HeadAt(parts, k, h)
             l == Len(f)
  <2>1. q \in Nat /\ l \in Nat /\ v \in Seq(Bytes) /\ Len(v) \in Nat /\ HasAt(Whole(parts), o, v)
    BY <1>1, PlacesOfHeader
  <2>2. o = q + l + 2
    OBVIOUS
  <2> HIDE DEF o, q, l
  <2>q. QED BY <2>1, <2>2, SMTT(60)
<1>3. base \in Nat /\ p.chunk \in Seq(Bytes)
  BY LoopFields DEF ChunkAt, Chunks
<1> DEFINE l == Len(v)
<1>4. m <= n /\ base + n <= o + Len(v)
  OBVIOUS
<1> HIDE DEF f, o, m, v, l, s
<1>5. o <= base + m
  BY <1>1, <1>2, <1>3
<1>6. /\ Slice(p.chunk, m, n) \in Seq(Bytes)
      /\ SubSeq(v, 1, base + m - o) \o Slice(p.chunk, m, n) = SubSeq(v, 1, base + n - o)
  <2>1. /\ p.chunk \in Seq(Bytes) /\ ChunkAt(parts, p.chunk, base) /\ m \in Nat /\ n \in Nat /\ m <= n /\ n <= Len(p.chunk)
        /\ v \in Seq(Bytes) /\ o \in Nat /\ HasAt(Whole(parts), o, v) /\ o <= base + m /\ base + n <= o + Len(v)
    BY <1>1, <1>2, <1>3, <1>4, <1>5
  <2>2. SliceFits(base, p.chunk, m, n, v, o)
    BY <2>1, SliceIs
  <2>q. QED BY <2>2 DEF SliceFits
<1>7. \A e : e.name = "headerValue" /\ e.data = Slice(p.chunk, m, n) => After(b, e) = c
  <2> DEFINE u == SubSeq(v, 1, base + m - o)
  <2>1. b = View(parts, k, h - 1, f, u, 0) /\ u \o Slice(p.chunk, m, n) = s
    BY <1>1, <1>6 DEF s
  <2>2. c = View(parts, k, h - 1, f, s, 0)
    OBVIOUS
  <2> DEFINE i == h - 1
             z == 0
  <2> HIDE DEF u, c, i, z
  <2>3. b = View(parts, k, i, f, u, z) /\ c = View(parts, k, i, f, s, z)
    BY <2>1, <2>2 DEF i, z
  <2>4. ASSUME NEW e, e.name = "headerValue", e.data = Slice(p.chunk, m, n) PROVE After(b, e) = c
    <3>1. After(View(parts, k, i, f, u, z), e) = View(parts, k, i, f, u \o e.data, z)
      BY <2>4, ValueView
    <3>q. QED BY <2>1, <2>3, <2>4, <3>1
  <2>q. QED BY <2>4
<1>8. m = n => c = b
  BY <1>1 DEF s
<1>9. Sound(parts, c, FALSE) /\ "headerValue" \in EventNames
  BY ViewSound DEF EventNames
<1> HIDE DEF c
<1>10. LET out == Sliced(p, "headerValue", m, n) IN
       out \in Pushed /\ Leads(parts, out, a, c, FALSE) /\ Held(out, p.lookbehind)
  BY <1>6, <1>7, <1>8, <1>9, SlicePushed
<1>q. QED BY <1>10 DEF c, v, f, o, m, s

(* A turn within a value, and at its end it is pushed. *)
LEMMA InValueTurn ==
  ASSUME NEW parts, NEW base, NEW a, NEW p, NEW b, Ready(parts, base, a, p, b),
         NEW k \in 1..Len(parts), NEW h, InValue(parts, k, h, p, base + p.i, base, b)
  PROVE  Goes(parts, base, a, p, Turn(p))
<1> DEFINE w == Whole(parts)
           x == base + p.i
           c == At(p.chunk, p.i)
           f == parts[k].headers[h].field
           v == parts[k].headers[h].value
           g == HeadAt(parts, k, h)
           o == g + Len(f) + 2
           t == p.headerValue
<1>1. /\ parts \in Messages /\ p \in LoopType /\ p.i \in Nat /\ base \in Nat /\ x \in Nat /\ c = w[x + 1]
      /\ p.i < Len(p.chunk) /\ Len(p.chunk) \in Nat
  BY ReadyFacts
<1>2. /\ p.state = "HEADER_VALUE" /\ h \in 1..Len(parts[k].headers) /\ x \in o + 1..o + Len(v)
      /\ p.index \in Nat \ {0} /\ t \in Nat /\ base + t \in o..x
      /\ p.flags = {} /\ p.headerField = NoMark /\ p.partData = NoMark
      /\ b = View(parts, k, h - 1, f, SubSeq(v, 1, base + t - o), 0)
  BY DEF InValue, Marks
<1>3. /\ g \in Nat /\ v \in Seq(Bytes) /\ Len(v) \in Nat /\ w[o + Len(v) + 1] = CR /\ Len(f) \in Nat
      /\ HeadAt(parts, k, h + 1) = o + Len(v) + 2
  <2>1. parts \in Messages /\ k \in 1..Len(parts) /\ h \in 1..Len(parts[k].headers)
    BY <1>1, <1>2, SMTT(60)
  <2>q. QED BY ONLY <2>1, EndOfValue, ZenonT(90)
<1>4. \A i \in 1..Len(v) : w[o + i] # CR
  BY <1>1, <1>2, PlacesOfHeader
<1>5. Turn(p) = [HeaderValue(p, c) EXCEPT !.i = @ + 1]
  BY <1>2 DEF Turn
<1>6. p.headerField \in Int /\ p.headerValue \in Int /\ p.partData \in Int /\ p.index \in Int
  BY <1>1, LoopFields
<1>7. h \in 1..Len(parts[k].headers) + 1 /\ h \in 1..Len(parts[k].headers)
  <2>1. Len(parts[k].headers) \in Nat
    BY <1>1, PlacesOfPart
  <2>q. QED BY <1>2, <2>1
<1>8. x = base + p.i /\ o = g + Len(f) + 2
  OBVIOUS
<1> HIDE DEF c, w, f, v, o, g, x
<1>9. o \in Nat
  BY <1>3, <1>8
<1>13. /\ x \in Nat /\ o \in Nat /\ Len(v) \in Nat /\ x \in o + 1..o + Len(v) /\ t \in Nat /\ base + t \in o..x
       /\ base \in Nat /\ x = base + p.i /\ p.i \in Nat /\ t = p.headerValue /\ p.i < Len(p.chunk) /\ Len(p.chunk) \in Nat
  BY <1>1, <1>2, <1>3, <1>8, <1>9
<1> HIDE DEF t
<1>10. x < o + Len(v) \/ x = o + Len(v)
  <2>1. x \in Nat /\ o \in Nat /\ Len(v) \in Nat /\ x \in o + 1..o + Len(v)
    BY <1>1, <1>2, <1>3, <1>9
  <2>q. QED BY <2>1
<1>11. CASE x < o + Len(v)
  <2>1. c # CR
    <3>1. x - o + 1 \in 1..Len(v) /\ o + (x - o + 1) = x + 1
      <4>1. x \in Int /\ o \in Int /\ Len(v) \in Int /\ o + 1 <= x /\ x < o + Len(v)
        BY <1>13, <1>11
      <4>q. QED BY <4>1
    <3>2. w[x + 1] # CR
      BY <1>4, <3>1
    <3>q. QED BY <1>1, <3>2
  <2>2. Turn(p) = Turned(p, "HEADER_VALUE", p.index, p.flags, p.lookbehind, p.headerField, p.headerValue, p.partData, p.out)
    <3>1. HeaderValue(p, c) = p /\ p \in LoopType /\ p.state = "HEADER_VALUE"
      BY <1>1, <1>2, <2>1 DEF HeaderValue
    <3>q. QED BY <1>5, <3>1, ZenonT(90) DEF LoopType, Turned
  <2>3. ASSUME NEW r, LeftWith(r, "HEADER_VALUE", p.index, p.flags, p.lookbehind, p.headerField, p.headerValue, p.partData)
        PROVE  Stands(parts, r, base + p.i + 1, base, b)
    <3>1. /\ r.headerValue = t /\ r.state = "HEADER_VALUE" /\ r.index \in Nat \ {0} /\ r.flags = {}
          /\ Marks(r, NoMark, r.headerValue, NoMark)
      BY <1>2, <1>13, <2>3 DEF LeftWith, Marks
    <3>2. x + 1 \in o + 1..o + Len(v) /\ base + t \in o..x + 1
      BY <1>13, <1>11, SMTT(90)
    <3>3. InValue(parts, k, h, r, x + 1, base, b)
      BY <1>2, <3>1, <3>2 DEF InValue, f, v, o, g
    <3>q. QED BY <1>7, <1>8, <3>3 DEF Stands, InPart, InHeaders
  <2>q. QED BY <1>6, <2>2, <2>3, StatesAre, TurnsQuietly
<1>12. CASE x = o + Len(v)
  <2> DEFINE out == Sliced(p, "headerValue", p.headerValue, p.i)
             e == Mark("headerEnd")
             d == View(parts, k, h - 1, f, v, 0)
             d2 == View(parts, k, h, <<>>, <<>>, 0)
  <2>1. c = CR /\ c # SPACE
    <3>1. o + Len(v) + 1 = x + 1
      BY <1>12
    <3>q. QED BY <1>1, <1>3, <3>1, LettersAre
  <2>2. p.headerValue # NoMark
    BY <1>13 DEF NoMark
  <2>3. EndMark(p, "headerValue") = [p EXCEPT !.out = out, !.headerValue = NoMark]
    BY <1>1, <2>2, EndMarkIs
  <2>4. HeaderValue(p, c) = [Push(EndMark(p, "headerValue"), "headerEnd") EXCEPT !.state = "HEADER_VALUE_ALMOST_DONE"]
    BY <1>2, <2>1 DEF HeaderValue
  <2>5. out \in Pushed /\ Leads(parts, out, a, d, FALSE) /\ Held(out, p.lookbehind)
    <3>1. p.i <= Len(p.chunk) /\ p.headerValue <= p.i /\ p.i \in Nat /\ base + p.i <= o + Len(v)
      BY <1>13, <1>12, SMTT(90)
    <3>2. SubSeq(v, 1, base + p.i - o) = v
      <4>1. base + p.i - o = Len(v)
        BY <1>1, <1>3, <1>8, <1>9, <1>12, SMTT(90)
      <4>q. QED BY <1>3, <4>1
    <3>3. ChunkAt(parts, p.chunk, base) /\ Leads(parts, p.out, a, b, FALSE) /\ Held(p.out, p.lookbehind)
      BY DEF Ready, Common
    <3>4. base + p.i <= HeadAt(parts, k, h) + Len(parts[k].headers[h].field) + 2 + Len(parts[k].headers[h].value)
      BY <1>8, <3>1 DEF f, v, o, g
    <3>5. LET q == View(parts, k, h - 1, f, SubSeq(v, 1, base + p.i - o), 0) IN
          out \in Pushed /\ Leads(parts, out, a, q, FALSE) /\ Held(out, p.lookbehind)
      BY <1>1, <3>1, <3>3, <3>4, ValueViewed DEF f, v, o, g
    <3>q. QED BY <3>2, <3>5
  <2>6. Turn(p) = Turned(p, "HEADER_VALUE_ALMOST_DONE", p.index, p.flags, p.lookbehind, p.headerField, NoMark, p.partData, Append(out, e))
    <3>1. p \in LoopType
      BY <1>1
    <3> HIDE DEF out
    <3>2. HeaderValue(p, c) = [p EXCEPT !.headerValue = NoMark, !.out = Append(out, e), !.state = "HEADER_VALUE_ALMOST_DONE"]
      BY <2>3, <2>4, <3>1 DEF LoopType, Push, Mark
    <3>q. QED BY <1>5, <3>1, <3>2 DEF LoopType, Turned
  <2> HIDE DEF out
  <2>7. e \in Event /\ e.from # "lookbehind" /\ e.name = "headerEnd"
    BY MarkIs DEF EventNames
  <2> HIDE DEF e
  <2>8. After(d, e) = d2 /\ Sound(parts, d2, FALSE)
    BY <1>1, <1>2, <2>7, HeaderView, ViewSound DEF f, v
  <2>9. ASSUME NEW r, LeftWith(r, "HEADER_VALUE_ALMOST_DONE", p.index, p.flags, p.lookbehind, p.headerField, NoMark, p.partData)
        PROVE  Stands(parts, r, base + p.i + 1, base, d2)
    <3>1. r.state = "HEADER_VALUE_ALMOST_DONE" /\ r.index \in Nat \ {0} /\ r.flags = {} /\ NoMarks(r)
      BY <1>2, <2>9 DEF LeftWith, Marks, NoMarks
    <3>2. x + 1 = HeadAt(parts, k, h + 1) - 1
      BY <1>1, <1>3, <1>9, <1>12
    <3>3. BehindValue(parts, k, h, r, x + 1, d2)
      BY <1>2, <3>1, <3>2 DEF BehindValue
    <3>q. QED BY <1>7, <1>8, <3>3 DEF Stands, InPart, InHeaders
  <2> HIDE DEF d, d2
  <2> DEFINE o2 == Append(out, e)
  <2>10. o2 \in Pushed /\ Leads(parts, o2, a, d2, FALSE) /\ Held(o2, p.lookbehind)
    <3>1. out \in Seq(Event)
      BY <2>5 DEF Pushed
    <3>2. Append(out, e) \in Seq(Event) /\ Leads(parts, Append(out, e), a, After(d, e), FALSE)
      BY <2>5, <2>7, <2>8, <3>1, LeadsOn
    <3>3. Held(Append(out, e), p.lookbehind)
      BY <2>5, <2>7, <3>1, HeldOn
    <3>q. QED BY <2>8, <3>2, <3>3 DEF Pushed
  <2>11. p.flags \in SUBSET {"PART", "LAST"} /\ p.lookbehind \in Lookbehinds /\ Keeps(p.lookbehind, p.lookbehind)
    BY <1>1, LoopFields, KeepsSame
  <2>12. Turn(p) = Turned(p, "HEADER_VALUE_ALMOST_DONE", p.index, p.flags, p.lookbehind, p.headerField, NoMark, p.partData, o2)
    BY <2>6
  <2> HIDE DEF o2
  <2>q. QED BY <1>6, <2>9, <2>10, <2>11, <2>12, StatesAre, Turns
<1>q. QED BY <1>10, <1>11, <1>12

(* A turn at the line feed behind a value. *)
LEMMA BehindValueTurn ==
  ASSUME NEW parts, NEW base, NEW a, NEW p, NEW b, Ready(parts, base, a, p, b),
         NEW k \in 1..Len(parts), NEW h, BehindValue(parts, k, h, p, base + p.i, b)
  PROVE  Goes(parts, base, a, p, Turn(p))
<1> DEFINE w == Whole(parts)
           x == base + p.i
           c == At(p.chunk, p.i)
           m == Len(parts[k].headers)
           l == h + 1
<1>1. /\ parts \in Messages /\ p \in LoopType /\ x \in Nat /\ c = w[x + 1]
  BY ReadyFacts
<1>2. /\ p.state = "HEADER_VALUE_ALMOST_DONE" /\ h \in 1..m /\ x = HeadAt(parts, k, l) - 1
      /\ p.index \in Nat \ {0} /\ p.flags = {} /\ p.headerField = NoMark /\ p.headerValue = NoMark /\ p.partData = NoMark
      /\ b = View(parts, k, h, <<>>, <<>>, 0)
  BY DEF BehindValue, NoMarks, Marks
<1>3. Turn(p) = [Almost(p, c, "none", "HEADER_FIELD_START") EXCEPT !.i = @ + 1]
  BY <1>2 DEF Turn
<1>4. p.headerField \in Int /\ p.headerValue \in Int /\ p.partData \in Int /\ p.index \in Int
  BY <1>1, LoopFields
<1>5. m \in Nat /\ l \in 1..m + 1 /\ h = l - 1 /\ l # 1
  <2>1. m \in Nat /\ h \in 1..m
    BY <1>1, <1>2, PlacesOfPart
  <2> HIDE DEF m
  <2>q. QED BY <2>1
<1>6. c = LF /\ x + 1 = HeadAt(parts, k, l)
  <2> DEFINE g == HeadAt(parts, k, h)
             s == Len(parts[k].headers[h].field)
             t == Len(parts[k].headers[h].value)
  <2>1. g \in Nat /\ s \in Nat /\ t \in Nat /\ HeadAt(parts, k, l) = g + s + 2 + t + 2 /\ w[g + s + 2 + t + 2] = LF
    BY <1>1, <1>2, PlacesOfHeader
  <2> HIDE DEF g, s, t, c, l, x
  <2>2. x + 1 = g + s + 2 + t + 2
    BY <1>1, <1>2, <2>1
  <2>q. QED BY <1>1, <2>1, <2>2
<1>7. x = base + p.i
  OBVIOUS
<1> HIDE DEF c, x, m, l
<1>8. Turn(p) = Turned(p, "HEADER_FIELD_START", p.index, p.flags, p.lookbehind, p.headerField, p.headerValue, p.partData, p.out)
  <2>1. Almost(p, c, "none", "HEADER_FIELD_START") = [p EXCEPT !.state = "HEADER_FIELD_START"] /\ p \in LoopType
    BY <1>1, <1>6 DEF Almost
  <2>q. QED BY <1>3, <2>1 DEF LoopType, Turned
<1>9. ASSUME NEW r, LeftWith(r, "HEADER_FIELD_START", p.index, p.flags, p.lookbehind, p.headerField, p.headerValue, p.partData)
      PROVE  Stands(parts, r, base + p.i + 1, base, b)
  <2>1. r.state = "HEADER_FIELD_START" /\ r.index \in Nat /\ r.index # 0 /\ r.flags = {} /\ NoMarks(r)
    BY <1>2, <1>9 DEF LeftWith, Marks, NoMarks
  <2>2. b = View(parts, k, l - 1, <<>>, <<>>, 0)
    BY <1>2, <1>5
  <2>3. AtField(parts, k, l, r, x + 1, b)
    BY <1>5, <1>6, <2>1, <2>2 DEF AtField, m
  <2>q. QED BY <1>5, <1>7, <2>3 DEF Stands, InPart, InHeaders, m
<1>q. QED BY <1>4, <1>8, <1>9, StatesAre, TurnsQuietly

(* A turn at the line feed behind the headers. *)
LEMMA BehindHeadersTurn ==
  ASSUME NEW parts, NEW base, NEW a, NEW p, NEW b, Ready(parts, base, a, p, b),
         NEW k \in 1..Len(parts), BehindHeaders(parts, k, p, base + p.i, b), p.state # "PART_DATA_START"
  PROVE  Goes(parts, base, a, p, Turn(p))
<1> DEFINE w == Whole(parts)
           x == base + p.i
           c == At(p.chunk, p.i)
           m == Len(parts[k].headers)
           e == Mark("headersEnd")
<1>1. /\ parts \in Messages /\ p \in LoopType /\ x \in Nat /\ c = w[x + 1]
  BY ReadyFacts
<1>2. /\ p.state = "HEADERS_ALMOST_DONE" /\ x = DataAt(parts, k) - 1
      /\ p.index = 0 /\ p.flags = {} /\ p.headerField = NoMark /\ p.headerValue = NoMark /\ p.partData = NoMark
      /\ b = View(parts, k, m, <<>>, <<>>, 0)
  BY DEF BehindHeaders, NoMarks, Marks
<1>3. Turn(p) = [Almost(p, c, "headersEnd", "PART_DATA_START") EXCEPT !.i = @ + 1]
  BY <1>2 DEF Turn
<1>4. p.headerField \in Int /\ p.headerValue \in Int /\ p.partData \in Int /\ p.index \in Int
  BY <1>1, LoopFields
<1>6. c = LF /\ x + 1 = DataAt(parts, k)
  <2> DEFINE g == HeadAt(parts, k, m + 1)
  <2>1. g \in Nat /\ w[g + 2] = LF /\ DataAt(parts, k) = g + 2
    <3>1. m \in Nat
      BY <1>1, PlacesOfPart
    <3>2. m + 1 \in 1..m + 1
      BY <3>1
    <3>q. QED BY <1>1, <3>2, PlacesOfPart
  <2> HIDE DEF g, c, x
  <2>2. x + 1 = g + 2
    BY <1>1, <1>2, <2>1
  <2>q. QED BY <1>1, <2>1, <2>2
<1>7. x = base + p.i
  OBVIOUS
<1> HIDE DEF c, x, m
<1>8. Turn(p) = Turned(p, "PART_DATA_START", p.index, p.flags, p.lookbehind, p.headerField, p.headerValue, p.partData, Append(p.out, e))
  <2>1. Almost(p, c, "headersEnd", "PART_DATA_START") = [p EXCEPT !.state = "PART_DATA_START", !.out = Append(p.out, e)] /\ p \in LoopType
    BY <1>1, <1>6 DEF Almost, Push, Mark, LoopType
  <2>q. QED BY <1>3, <2>1 DEF LoopType, Turned
<1>5. After(b, e) = b /\ Sound(parts, b, FALSE) /\ "headersEnd" \in EventNames
  <2>1. e.name = "headersEnd" /\ "headersEnd" \in EventNames
    BY MarkIs DEF EventNames
  <2> HIDE DEF e
  <2>q. QED BY <1>1, <1>2, <2>1, NothingView, ViewSound
<1>9. ASSUME NEW r, LeftWith(r, "PART_DATA_START", p.index, p.flags, p.lookbehind, p.headerField, p.headerValue, p.partData)
      PROVE  Stands(parts, r, base + p.i + 1, base, b)
  <2>1. r.state = "PART_DATA_START" /\ r.index = 0 /\ r.flags = {} /\ NoMarks(r)
    BY <1>2, <1>9 DEF LeftWith, Marks, NoMarks
  <2>3. BehindHeaders(parts, k, r, x + 1, b)
    BY <1>2, <1>6, <2>1 DEF BehindHeaders, m
  <2>q. QED BY <1>7, <2>3 DEF Stands, InPart
<1>10. /\ Sound(parts, After(b, e), FALSE)
       /\ \A r : LeftWith(r, "PART_DATA_START", p.index, p.flags, p.lookbehind, p.headerField, p.headerValue, p.partData)
                    => Stands(parts, r, base + p.i + 1, base, After(b, e))
  BY <1>5, <1>9
<1> HIDE DEF e
<1>q. QED BY <1>4, <1>5, <1>8, <1>10, StatesAre, TurnsWith DEF e

(* A turn behind the last delimiter. *)
LEMMA EndTurn ==
  ASSUME NEW parts, NEW base, NEW a, NEW p, NEW b, Ready(parts, base, a, p, b), AtTheEnd(parts, p, base + p.i, b)
  PROVE  Goes(parts, base, a, p, Turn(p))
<1> DEFINE x == base + p.i
           d == DelimiterAt(parts, Len(parts) + 1) + BoundaryLength + 2
<1>1. /\ parts \in Messages /\ p \in LoopType /\ x \in Nat
  BY ReadyFacts
<1>2. p.state = "END" /\ x >= d /\ p.headerField = NoMark /\ p.headerValue = NoMark /\ p.partData = NoMark
      /\ b.results = parts /\ b.over = TRUE
  BY DEF AtTheEnd, NoMarks, Marks
<1>3. d \in Nat
  <2> DEFINE n == Len(parts)
             g == DelimiterAt(parts, n + 1)
  <2>1. n \in Nat /\ n + 1 \in 1..n + 1
    BY <1>1, WholeIs
  <2>2. g \in Nat
    BY <1>1, <2>1, WholeIs
  <2> HIDE DEF g, n
  <2>3. g + BoundaryLength + 2 \in Nat
    BY <2>2, BoundaryIs
  <2>q. QED BY <2>3 DEF g, n
<1>4. p.headerField \in Int /\ p.headerValue \in Int /\ p.partData \in Int /\ p.index \in Int
  BY <1>1, LoopFields
<1>5. x = base + p.i
  OBVIOUS
<1> HIDE DEF d, x
<1>6. Turn(p) = Turned(p, "END", p.index, p.flags, p.lookbehind, p.headerField, p.headerValue, p.partData, p.out)
  <2>1. Turn(p) = [p EXCEPT !.i = @ + 1] /\ p \in LoopType /\ p.state = "END"
    BY <1>1, <1>2 DEF Turn
  <2>q. QED BY <2>1 DEF LoopType, Turned
<1>7. ASSUME NEW r, LeftWith(r, "END", p.index, p.flags, p.lookbehind, p.headerField, p.headerValue, p.partData)
      PROVE  Stands(parts, r, base + p.i + 1, base, b)
  <2>1. r.state = "END" /\ NoMarks(r)
    BY <1>2, <1>7 DEF LeftWith, Marks, NoMarks
  <2>2. x + 1 >= d
    BY <1>1, <1>2, <1>3
  <2>3. AtTheEnd(parts, r, x + 1, b)
    BY <1>2, <2>1, <2>2 DEF AtTheEnd, d
  <2>q. QED BY <1>5, <2>3 DEF Stands
<1>q. QED BY <1>4, <1>6, <1>7, StatesAre, TurnsQuietly

-----------------------------------------------------------------------------
(* the data of a part *)

(* Arithmetic of multiples. *)
LEMMA Multiples ==
  ASSUME NEW b \in Nat, NEW l \in Nat
  PROVE  (l + 1) * b = l * b + b /\ b * l = l * b /\ l * b \in Nat /\ 0 * b = 0
OBVIOUS

\* Steps of length b that stop at the latest when they pass d.
LEMMA Windows ==
  ASSUME NEW b \in Nat \ {0}, NEW K \in Nat, NEW d \in Nat, d < K * b
  PROVE  \E l \in 0..K - 1 : l * b <= d /\ d < l * b + b
<1> DEFINE S == {m \in Nat : m <= K /\ d < m * b}
<1>1. K \in S /\ S \in SUBSET Nat /\ S # {}
  OBVIOUS
<1>2. PICK M \in S : \A m \in S : M <= m
  BY <1>1, LeastOf
<1>3. M \in Nat /\ M <= K /\ d < M * b
  BY <1>2
<1>4. M # 0
  BY <1>3
<1> DEFINE l == M - 1
<1>5. l \in Nat /\ l <= K - 1 /\ l + 1 = M /\ l < M
  BY <1>3, <1>4
<1>6. ~(d < l * b)
  <2>1. l \notin S
    BY <1>2, <1>5
  <2> HIDE DEF l
  <2>q. QED BY <1>3, <1>5, <2>1
<1> HIDE DEF l
<1>7. l * b \in Nat /\ M * b = l * b + b
  BY <1>5, Multiples
<1>8. l * b <= d /\ d < l * b + b
  BY <1>3, <1>6, <1>7
<1>9. l \in 0..K - 1
  BY <1>5
<1>q. QED BY <1>8, <1>9

(* The search does not skip the delimiter: one of its bytes is met before. *)
LEMMA SkipToIs ==
  ASSUME NEW parts \in Messages, NEW base, NEW q, q.chunk \in Seq(Bytes), ChunkAt(parts, q.chunk, base),
         q.i \in Nat, q.i < Len(q.chunk), NEW k \in 1..Len(parts) + 1, base + q.i <= DelimiterAt(parts, k)
  PROVE  SkipTo(q) \in Nat /\ q.i <= SkipTo(q) /\ SkipTo(q) <= Len(q.chunk)
         /\ base + SkipTo(q) <= DelimiterAt(parts, k)
<1> DEFINE L == Len(q.chunk)
           i == q.i
           B == BoundaryLength
           end == BoundaryLength - 1
           d == DelimiterAt(parts, k)
           w == Whole(parts)
           ch == q.chunk
           stops == {l \in 0..Len(q.chunk) :
                  LET j == q.i + (BoundaryLength - 1) + l * BoundaryLength
                  IN j >= Len(q.chunk) \/ At(q.chunk, j) \in ToSet(Boundary)}
           K == CHOOSE l \in stops : \A m \in stops : l <= m
<1>1. /\ L \in Nat /\ i \in Nat /\ B \in Nat \ {0} /\ base \in Nat /\ d \in Nat /\ i < L /\ base + i <= d
      /\ end = B - 1 /\ B = Len(Boundary)
  BY BoundaryIs, WholeIs DEF ChunkAt, BoundaryLength
<1>2. /\ \A j \in 1..B : w[d + j] = Boundary[j]
      /\ \A j \in 1..L : w[base + j] = ch[j]
  BY WholeIs DEF HasAt, BoundaryLength, ChunkAt
<1>3. \A l \in Nat : l \in stops <=> l <= L /\ (i + end + l * B >= L \/ At(ch, i + end + l * B) \in ToSet(Boundary))
  BY <1>1
<1>4. SkipTo(q) = i + B * K
  BY DEF SkipTo
<1>5. stops \in SUBSET Nat
  BY <1>1
<1> HIDE DEF stops, L, i, B, d, w, ch, end
<1>6. L \in stops
  <2>1. L * B >= L
    BY <1>1
  <2>2. L * B \in Nat /\ i + end + L * B >= L
    BY <1>1, <2>1
  <2>q. QED BY <1>1, <1>3, <2>2
<1>7. K \in stops /\ \A m \in stops : K <= m
  <2>1. \E l \in stops : \A m \in stops : l <= m
    BY <1>5, <1>6, LeastOf
  <2>q. QED BY <2>1
<1> HIDE DEF K
<1>8. K \in Nat /\ K * B \in Nat /\ B * K = K * B
  BY <1>1, <1>5, <1>7, Multiples
<1>9. \A l \in 0..K - 1 : /\ l * B \in Nat /\ i + end + l * B < L
                          /\ At(ch, i + end + l * B) \notin ToSet(Boundary)
  <2> TAKE l \in 0..K - 1
  <2>1. l \in Nat /\ l < K /\ l <= L
    <3>1. K <= L
      BY <1>1, <1>6, <1>7
    <3>q. QED BY <1>1, <1>8, <3>1
  <2>2. l \notin stops
    BY <1>7, <1>8, <2>1
  <2>3. l * B \in Nat
    BY <1>1, <2>1, Multiples
  <2>q. QED BY <1>1, <1>3, <2>1, <2>2, <2>3
<1>10. i + K * B <= L
  <2>1. CASE K = 0
    BY <1>1, <2>1, Multiples
  <2>2. CASE K # 0
    <3> DEFINE l == K - 1
    <3>1. l \in 0..K - 1 /\ l \in Nat /\ K = l + 1
      BY <1>8, <2>2
    <3> HIDE DEF l
    <3>2. K * B = l * B + B
      BY <1>1, <3>1, Multiples
    <3>3. l * B \in Nat /\ i + end + l * B < L
      BY <1>9, <3>1
    <3>q. QED BY <1>1, <3>2, <3>3
  <2>q. QED BY <2>1, <2>2
<1>11. ASSUME d < base + (i + K * B) PROVE FALSE
  <2> DEFINE g == d - (base + i)
  <2>1. g \in Nat /\ g < K * B /\ d = base + i + g
    BY <1>1, <1>8, <1>11
  <2> HIDE DEF g
  <2>2. PICK l \in 0..K - 1 : l * B <= g /\ g < l * B + B
    BY <1>1, <1>8, <2>1, Windows
  <2> DEFINE u == l * B
  <2>3. u \in Nat /\ i + end + u < L /\ At(ch, i + end + u) \notin ToSet(Boundary) /\ u <= g /\ g < u + B
    BY <1>9, <2>2
  <2> HIDE DEF u
  <2> DEFINE j == B - (g - u)
             t == i + end + u + 1
  <2>4. j \in 1..B /\ t \in 1..L /\ d + j = base + t /\ t = i + end + u + 1
    BY <1>1, <2>1, <2>3
  <2> HIDE DEF j, t
  <2>5. ch[t] = Boundary[j]
    BY <1>2, <2>4
  <2>6. ch[t] \in ToSet(Boundary)
    <3>1. j \in DOMAIN Boundary
      BY <1>1, <2>4, BoundaryIs
    <3>q. QED BY <2>5, <3>1 DEF ToSet
  <2>q. QED BY <2>3, <2>4, <2>6 DEF At
<1>12. SkipTo(q) = i + K * B /\ i + K * B \in Nat /\ i <= i + K * B /\ base + (i + K * B) <= d
  BY <1>1, <1>4, <1>8, <1>11
<1>q. QED BY <1>10, <1>12 DEF i, L, d

(* What looks like the delimiter within the data and behind it is the one behind it, or
   too short to be one. *)
LEMMA NoOther ==
  ASSUME NEW parts \in Messages, NEW k \in 1..Len(parts), NEW o \in Nat, NEW n \in 1..BoundaryLength,
         DataAt(parts, k) <= o, o <= DelimiterAt(parts, k + 1), \A j \in 1..n : Whole(parts)[o + j] = Boundary[j]
  PROVE  o = DelimiterAt(parts, k + 1) \/ (n < BoundaryLength /\ o + n <= DelimiterAt(parts, k + 1))
<1> DEFINE d == DelimiterAt(parts, k + 1)
           u == DataAt(parts, k)
           s == parts[k].data
           w == Whole(parts)
           B == BoundaryLength
<1>1. /\ d \in Nat /\ u \in Nat /\ s \in Seq(Bytes) /\ s \in Datas /\ Len(s) \in Nat /\ d = u + Len(s)
      /\ B \in Nat /\ B = Len(Boundary) /\ n \in 1..B /\ u <= o /\ o <= d
  <2>1. k + 1 \in 1..Len(parts) + 1
    BY WholeIs
  <2>2. d \in Nat
    BY <2>1, WholeIs
  <2>3. u \in Nat /\ PartFits(parts[k]) /\ d = u + Len(s)
    BY PlacesOfPart
  <2>4. s \in Seq(Bytes) /\ s \in Datas
    BY <2>3 DEF PartFits
  <2>q. QED BY <2>2, <2>3, <2>4, BoundaryIs DEF BoundaryLength
<1>2. /\ \A j \in 1..B : w[d + j] = Boundary[j]
      /\ \A j \in 1..Len(s) : w[u + j] = s[j]
  <2>1. k + 1 \in 1..Len(parts) + 1
    BY WholeIs
  <2>2. HasAt(w, d, Boundary) /\ HasAt(w, u, s)
    BY <2>1, WholeIs, PlacesOfPart
  <2>q. QED BY <2>2 DEF HasAt, BoundaryLength
<1>3. \A j \in 1..n : w[o + j] = Boundary[j]
  OBVIOUS
<1> HIDE DEF d, u, s, w, B
<1>4. ASSUME o < d, d < o + n PROVE FALSE
  <2> DEFINE j == d + 1 - o
  <2>1. j \in 1..n /\ j \in 2..B /\ o + j = d + 1 /\ 1 \in 1..B
    BY <1>1, <1>4
  <2> HIDE DEF j
  <2>2. w[d + 1] = Boundary[1] /\ w[d + 1] = Boundary[j]
    BY <1>2, <1>3, <2>1
  <2>q. QED BY <2>1, <2>2, BoundaryIs DEF B
<1>5. ASSUME o < d, n = B, o + n <= d PROVE FALSE
  <2> DEFINE i == o - u
             v == i + B
  <2>1. i \in Nat /\ v \in Nat /\ v <= Len(s) /\ i \in 0..Len(s) - Len(Boundary) /\ v = i + B /\ o = u + i
    BY <1>1, <1>5
  <2>2. \A j \in 1..B : i + j \in 1..Len(s) /\ o + j = u + (i + j)
    BY <1>1, <2>1
  <2> HIDE DEF i, v
  <2>3. \A j \in 1..B : s[i + j] = Boundary[j]
    BY <1>2, <1>3, <1>5, <2>2
  <2>4. SubSeq(s, i + 1, i + B) = [j \in 1..B |-> s[i + j]]
    BY <1>1, <2>1
  <2>5. Boundary = [j \in 1..B |-> Boundary[j]]
    BY <1>1, BoundaryIs
  <2>6. Slice(s, i, i + Len(Boundary)) = Boundary
    BY <1>1, <2>3, <2>4, <2>5 DEF Slice
  <2>7. Includes(s, Boundary)
    BY <2>1, <2>6 DEF Includes
  <2>q. QED BY <1>1, <2>7 DEF Datas
<1>6. o = d \/ (n < B /\ o + n <= d)
  BY <1>1, <1>4, <1>5
<1>q. QED BY <1>6 DEF d, B

(* What follows a delimiter. *)
LEMMA DelimiterEnds ==
  ASSUME NEW parts \in Messages, NEW k \in 1..Len(parts)
  PROVE  LET w == Whole(parts)
             d == DelimiterAt(parts, k + 1) + BoundaryLength IN
         /\ d \in Nat /\ DelimiterAt(parts, k + 1) \in Nat /\ d = DelimiterAt(parts, k + 1) + BoundaryLength
         /\ k < Len(parts) => /\ k + 1 \in 1..Len(parts) /\ w[d + 1] = CR /\ w[d + 2] = LF
                              /\ HeadAt(parts, k + 1, 1) = d + 2
         /\ k = Len(parts) => w[d + 1] = HYPHEN /\ w[d + 2] = HYPHEN
<1> DEFINE n == Len(parts)
           g == DelimiterAt(parts, k + 1)
           d == g + BoundaryLength
           w == Whole(parts)
<1>1. n \in Nat /\ k + 1 \in 1..n + 1 /\ k \in 1..n
  BY WholeIs
<1>2. g \in Nat /\ BoundaryLength \in Nat
  BY <1>1, WholeIs, BoundaryIs
<1>3. d \in Nat
  <2> HIDE DEF g
  <2>q. QED BY <1>2
<1>4. ASSUME k < n PROVE k + 1 \in 1..n /\ w[d + 1] = CR /\ w[d + 2] = LF /\ HeadAt(parts, k + 1, 1) = d + 2
  <2>1. k + 1 \in 1..n
    BY <1>1, <1>4
  <2>q. QED BY <2>1, PlacesOfPart
<1>5. ASSUME k = n PROVE w[d + 1] = HYPHEN /\ w[d + 2] = HYPHEN
  <2>1. HasAt(w, d, <<HYPHEN, HYPHEN, CR, LF>>)
    BY <1>5, WholeIs
  <2> HIDE DEF d
  <2>2. \A j \in 1..4 : w[d + j] = <<HYPHEN, HYPHEN, CR, LF>>[j]
    BY <2>1 DEF HasAt
  <2>q. QED BY <2>2
<1>q. QED BY <1>2, <1>3, <1>4, <1>5

(* A byte of the delimiter is remembered. *)
LEMMA Remembers ==
  ASSUME NEW lb \in Lookbehinds, NEW n \in 0..BoundaryLength, NEW c \in Bytes,
         n < BoundaryLength => c = Boundary[n + 1]
  PROVE  LET new == [lb EXCEPT ![n] = c] IN
         /\ new \in Lookbehinds /\ Keeps(lb, new)
         /\ n < BoundaryLength /\ Remembered(lb, n) => Remembered(new, n + 1)
<1> DEFINE new == [lb EXCEPT ![n] = c]
<1>1. BoundaryLength \in Nat /\ lb \in [0..BoundaryLength -> Bytes]
  BY BoundaryIs DEF Lookbehinds
<1>2. new \in [0..BoundaryLength -> Bytes] /\ new[n] = c /\ \A j \in 0..BoundaryLength : j # n => new[j] = lb[j]
  BY <1>1
<1> HIDE DEF new
<1>3. ASSUME NEW m \in 0..BoundaryLength, Remembered(lb, m) PROVE Remembered(new, m)
  <2> SUFFICES ASSUME NEW j \in 0..m - 1 PROVE new[j] = Boundary[j + 1]
    BY DEF Remembered
  <2>1. lb[j] = Boundary[j + 1] /\ j \in 0..BoundaryLength /\ j < BoundaryLength
    BY <1>1, <1>3 DEF Remembered
  <2>q. QED BY <1>2, <2>1
<1>4. ASSUME n < BoundaryLength, Remembered(lb, n) PROVE Remembered(new, n + 1)
  <2> SUFFICES ASSUME NEW j \in 0..n PROVE new[j] = Boundary[j + 1]
    <3>1. n + 1 - 1 = n
      OBVIOUS
    <3>q. QED BY <3>1 DEF Remembered
  <2>1. CASE j = n
    BY <1>2, <1>4, <2>1
  <2>2. CASE j # n
    <3>1. j \in 0..n - 1 /\ j \in 0..BoundaryLength
      BY <1>1, <2>2
    <3>q. QED BY <1>2, <1>4, <2>2, <3>1 DEF Remembered
  <2>q. QED BY <2>1, <2>2
<1>5. Keeps(lb, new)
  BY <1>3 DEF Keeps
<1>q. QED BY <1>2, <1>4, <1>5 DEF new, Lookbehinds

(* A turn in general, wherever it goes. *)
LEMMA GoesTo ==
  ASSUME NEW parts, NEW base, NEW a, NEW p, NEW b, Ready(parts, base, a, p, b),
         NEW q \in LoopType, q.err = FALSE, q.chunk = p.chunk, q.i \in Nat, TurnsLeft(q) < TurnsLeft(p),
         Keeps(p.lookbehind, q.lookbehind), Held(q.out, q.lookbehind),
         NEW c, Leads(parts, q.out, a, c, FALSE), Stands(parts, q, Place(q, base), base, c)
  PROVE  Goes(parts, base, a, p, q)
<1>1. Common(parts, base, a, q, c)
  BY DEF Common, Ready
<1>q. QED BY <1>1 DEF Goes

(* The data from byte m up to byte n of the chunk is pushed. *)
LEMMA DataViewed ==
  ASSUME NEW parts \in Messages, NEW base, NEW a, NEW p \in LoopType, NEW b, ChunkAt(parts, p.chunk, base),
         NEW k \in 1..Len(parts), NEW m \in Nat, NEW n \in Nat, m <= n, n <= Len(p.chunk),
         DataAt(parts, k) <= base + m, base + n <= DelimiterAt(parts, k + 1),
         b = DataView(parts, k, base + m - DataAt(parts, k)),
         Leads(parts, p.out, a, b, FALSE), Held(p.out, p.lookbehind)
  PROVE  LET c == DataView(parts, k, base + n - DataAt(parts, k))
             out == Sliced(p, "partData", m, n) IN
         out \in Pushed /\ Leads(parts, out, a, c, FALSE) /\ Held(out, p.lookbehind)
<1> DEFINE o == DataAt(parts, k)
           s == parts[k].data
           g == base + m - o
           l == base + n - o
           c == DataView(parts, k, base + n - o)
<1>1. o \in Nat /\ s \in Seq(Bytes) /\ Len(s) \in Nat /\ HasAt(Whole(parts), o, s)
      /\ DelimiterAt(parts, k + 1) = o + Len(s)
  <2>1. o \in Nat /\ PartFits(parts[k]) /\ HasAt(Whole(parts), o, s) /\ DelimiterAt(parts, k + 1) = o + Len(s)
    BY PlacesOfPart
  <2>q. QED BY <2>1 DEF PartFits
<1>2. base \in Nat /\ p.chunk \in Seq(Bytes)
  BY LoopFields DEF ChunkAt, Chunks
<1>3. o <= base + m /\ base + n <= o + Len(s) /\ b = DataView(parts, k, base + m - o)
  BY <1>1
<1> HIDE DEF o, s
<1>4. g \in Nat /\ l \in Nat /\ g <= l /\ l <= Len(s)
  BY <1>1, <1>2, <1>3
<1>5. Slice(p.chunk, m, n) \in Seq(Bytes) /\ Slice(p.chunk, m, n) = SubSeq(s, g + 1, l)
  <2>1. SliceFits(base, p.chunk, m, n, s, o)
    BY <1>1, <1>2, <1>3, SliceIs
  <2>q. QED BY <2>1 DEF SliceFits
<1>6. b = DataView(parts, k, g) /\ c = DataView(parts, k, l)
  BY <1>3
<1> HIDE DEF g, l, c
<1>7. \A e : e.name = "partData" /\ e.data = Slice(p.chunk, m, n) => After(b, e) = c
  BY <1>4, <1>5, <1>6, MoreDataView DEF DataView, s
<1>8. m = n => c = b
  BY <1>6 DEF g, l
<1>9. Sound(parts, c, FALSE) /\ "partData" \in EventNames
  BY <1>6, ViewSound DEF EventNames, DataView
<1>10. LET out == Sliced(p, "partData", m, n) IN
       out \in Pushed /\ Leads(parts, out, a, c, FALSE) /\ Held(out, p.lookbehind)
  BY <1>5, <1>7, <1>8, <1>9, SlicePushed
<1>q. QED BY <1>10 DEF c, o

\* PartData from the byte it looks at.
PartDataAt(p, prev) ==
  LET c == IF p.i < Len(p.chunk) THEN At(p.chunk, p.i) ELSE "none"
      settle(q) == IF q.index > 0 THEN Matched(q, c)
                   ELSE IF prev > 0 THEN GivenUp(q, prev) ELSE q
  IN CASE prev < BoundaryLength ->
            IF c = At(Boundary, prev)
              THEN settle([IF prev = 0 THEN EndMark(p, "partData") ELSE p EXCEPT !.index = prev + 1])
              ELSE settle([p EXCEPT !.index = 0])
       [] prev = BoundaryLength ->
            settle(CASE c = CR -> [p EXCEPT !.index = prev + 1, !.flags = @ \union {"PART"}]
                     [] c = HYPHEN -> [p EXCEPT !.index = prev + 1, !.flags = @ \union {"LAST"}]
                     [] OTHER -> [p EXCEPT !.index = 0])
       [] OTHER ->
            CASE "PART" \in p.flags /\ c = LF ->
                   [Push(Push(p, "partEnd"), "partBegin") EXCEPT
                      !.index = 0, !.flags = @ \ {"PART"}, !.state = "HEADER_FIELD_START"]
              [] "PART" \notin p.flags /\ "LAST" \in p.flags /\ c = HYPHEN ->
                   Matched([Push(Push(p, "partEnd"), "end") EXCEPT !.state = "END", !.flags = {}], c)
              [] OTHER -> settle([p EXCEPT !.index = 0])

(* PartData, the search first. *)
LEMMA PartDataIs ==
  ASSUME NEW p
  PROVE  PartData(p) =
           LET p1 == IF p.state = "PART_DATA_START"
                       THEN [p EXCEPT !.state = "PART_DATA", !.partData = p.i] ELSE p
           IN PartDataAt(IF p1.index = 0 THEN [p1 EXCEPT !.i = SkipTo(p1)] ELSE p1, p1.index)
BY DEF PartData, PartDataAt

Skipped(p, s, mark) ==
  /\ s < Len(p.chunk) /\ At(p.chunk, s) = CR
       => PartData(p) = [p EXCEPT !.state = "PART_DATA", !.index = 1, !.partData = NoMark, !.i = s,
                                  !.out = Sliced(p, "partData", mark, s), !.lookbehind = [@ EXCEPT ![0] = CR]]
  /\ ~(s < Len(p.chunk) /\ At(p.chunk, s) = CR)
       => PartData(p) = [p EXCEPT !.state = "PART_DATA", !.partData = mark, !.i = s]

(* What it does outside of a possible delimiter. *)
LEMMA PartDataSkips ==
  ASSUME NEW p \in LoopType, p.state \in {"PART_DATA_START", "PART_DATA"}, p.index = 0,
         NEW s, s \in Nat, s = SkipTo(p),
         NEW mark, mark \in Nat, mark = IF p.state = "PART_DATA_START" THEN p.i ELSE p.partData
  PROVE  Skipped(p, s, mark)
<1> DEFINE p1 == IF p.state = "PART_DATA_START" THEN [p EXCEPT !.state = "PART_DATA", !.partData = p.i] ELSE p
           q == [p EXCEPT !.state = "PART_DATA", !.partData = mark, !.i = s]
           c == IF s < Len(p.chunk) THEN At(p.chunk, s) ELSE "none"
           out == Sliced(p, "partData", mark, s)
<1>1. p1 = [p EXCEPT !.state = "PART_DATA", !.partData = mark]
  BY DEF LoopType
<1>2. p1.i = p.i /\ p1.chunk = p.chunk /\ p1.index = 0
  BY <1>1 DEF LoopType
<1>3. SkipTo(p1) = s
  BY <1>2 DEF SkipTo
<1>4. [p1 EXCEPT !.i = SkipTo(p1)] = q
  BY <1>1, <1>3 DEF LoopType
<1>5. q \in LoopType
  <2>1. s \in Int /\ mark \in Int /\ "PART_DATA" \in States
    BY StatesAre
  <2>q. QED BY <2>1 DEF LoopType
<1>6. q.i = s /\ q.chunk = p.chunk /\ q.index = 0 /\ q.partData = mark /\ q.out = p.out
  BY DEF LoopType
<1>7. At(Boundary, 0) = CR /\ 0 < BoundaryLength /\ "none" # CR
  BY BoundaryIs DEF At, CR
<1>8. PartData(p) = PartDataAt(q, 0)
  BY <1>2, <1>4, PartDataIs
<1>9. EndMark(q, "partData") = [q EXCEPT !.out = out, !.partData = NoMark]
  <2>1. q.partData # NoMark
    BY <1>6 DEF NoMark
  <2>2. Sliced(q, "partData", q.partData, q.i) = out
    BY <1>6 DEF Sliced
  <2> HIDE DEF q, out
  <2>q. QED BY <1>5, <2>1, <2>2, EndMarkIs
<1> HIDE DEF q, p1, out
<1>10. CASE s < Len(p.chunk) /\ At(p.chunk, s) = CR
  <2> DEFINE r == [EndMark(q, "partData") EXCEPT !.index = 1]
  <2>1. r.index = 1 /\ r.lookbehind = q.lookbehind
        /\ r = [q EXCEPT !.out = out, !.partData = NoMark, !.index = 1]
    BY <1>5, <1>9 DEF LoopType
  <2>2. PartDataAt(q, 0) = Matched(r, CR)
    BY <1>6, <1>7, <1>10, <2>1 DEF PartDataAt
  <2>3. Matched(r, CR) = [r EXCEPT !.lookbehind[0] = CR]
    BY <2>1 DEF Matched
  <2> HIDE DEF r
  <2>4. Matched(r, CR) = [p EXCEPT !.state = "PART_DATA", !.index = 1, !.partData = NoMark, !.i = s,
                                   !.out = out, !.lookbehind = [@ EXCEPT ![0] = CR]]
    BY <2>1, <2>3 DEF LoopType, q
  <2>q. QED BY <1>8, <1>10, <2>2, <2>4 DEF out, Skipped
<1>11. CASE ~(s < Len(p.chunk) /\ At(p.chunk, s) = CR)
  <2>1. PartDataAt(q, 0) = [q EXCEPT !.index = 0]
    <3>1. [q EXCEPT !.index = 0].index = 0
      BY <1>5 DEF LoopType
    <3>q. QED BY <1>6, <1>7, <1>11, <3>1 DEF PartDataAt
  <2>2. [q EXCEPT !.index = 0] = q
    BY <1>5, <1>6 DEF LoopType
  <2>q. QED BY <1>8, <1>11, <2>1, <2>2 DEF q, Skipped
<1>q. QED BY <1>10, <1>11 DEF Skipped

(* A turn within the data. *)
LEMMA DataTurn ==
  ASSUME NEW parts, NEW base, NEW a, NEW p, NEW b, Ready(parts, base, a, p, b), NEW k \in 1..Len(parts),
         \/ BehindHeaders(parts, k, p, base + p.i, b) /\ p.state = "PART_DATA_START"
         \/ InData(parts, k, p, base + p.i, base, b)
  PROVE  Goes(parts, base, a, p, Turn(p))
<1> DEFINE w == Whole(parts)
           x == base + p.i
           u == DataAt(parts, k)
           d == DelimiterAt(parts, k + 1)
           mark == IF p.state = "PART_DATA_START" THEN p.i ELSE p.partData
           s == SkipTo(p)
           l == Len(p.chunk)
<1>1. /\ parts \in Messages /\ p \in LoopType /\ p.err = FALSE /\ p.i \in Nat /\ base \in Nat /\ x \in Nat
      /\ p.i < l /\ l \in Nat /\ p.chunk \in Seq(Bytes) /\ x = base + p.i
  BY ReadyFacts
<1>2. ChunkAt(parts, p.chunk, base) /\ Leads(parts, p.out, a, b, FALSE) /\ Held(p.out, p.lookbehind)
  BY DEF Ready, Common
<1>3. u \in Nat /\ d \in Nat /\ u <= d
  <2>1. u \in Nat /\ d = u + Len(parts[k].data) /\ PartFits(parts[k])
    BY <1>1, PlacesOfPart
  <2>2. Len(parts[k].data) \in Nat
    BY <2>1 DEF PartFits
  <2> HIDE DEF u, d
  <2>q. QED BY <2>1, <2>2
<1>4. /\ p.state \in {"PART_DATA_START", "PART_DATA"} /\ p.index = 0 /\ p.flags = {}
      /\ p.headerField = NoMark /\ p.headerValue = NoMark /\ mark \in Nat /\ u <= base + mark /\ mark <= p.i
      /\ x <= d /\ b = DataView(parts, k, base + mark - u)
  <2>1. CASE BehindHeaders(parts, k, p, x, b) /\ p.state = "PART_DATA_START"
    <3>1. /\ x = u /\ p.index = 0 /\ p.flags = {} /\ p.headerField = NoMark /\ p.headerValue = NoMark
          /\ b = View(parts, k, Len(parts[k].headers), <<>>, <<>>, 0)
      BY <2>1 DEF BehindHeaders, NoMarks, Marks
    <3>2. mark = p.i /\ base + mark - u = 0
      BY <1>1, <1>3, <2>1, <3>1
    <3> HIDE DEF mark, x, u, d
    <3>3. mark \in Nat /\ u <= base + mark /\ mark <= p.i /\ x <= d
      BY <1>1, <1>3, <3>1, <3>2
    <3>q. QED BY <2>1, <3>1, <3>2, <3>3 DEF DataView
  <2>2. CASE InData(parts, k, p, x, base, b)
    <3>1. /\ p.state = "PART_DATA" /\ p.index = 0 /\ p.flags = {} /\ p.headerField = NoMark /\ p.headerValue = NoMark
          /\ x \in u..d /\ p.partData \in Nat /\ base + p.partData \in u..x /\ mark = p.partData
          /\ b = DataView(parts, k, base + p.partData - u)
      BY <2>2 DEF InData, Marks
    <3> HIDE DEF mark, x, u, d
    <3>2. u <= base + mark /\ mark <= p.i /\ x <= d
      BY <1>1, <1>3, <3>1
    <3>q. QED BY <3>1, <3>2
  <2>q. QED BY <2>1, <2>2
<1>5. s \in Nat /\ p.i <= s /\ s <= l /\ base + s <= d
  <2>1. k + 1 \in 1..Len(parts) + 1
    BY <1>1, WholeIs
  <2>2. base + p.i <= DelimiterAt(parts, k + 1)
    BY <1>4
  <2>q. QED BY <1>1, <1>2, <2>1, <2>2, SkipToIs
<1>6. Turn(p) = [PartData(p) EXCEPT !.i = @ + 1]
  BY <1>4 DEF Turn
<1>7. /\ s < l /\ At(p.chunk, s) = CR
           => PartData(p) = [p EXCEPT !.state = "PART_DATA", !.index = 1, !.partData = NoMark, !.i = s,
                                      !.out = Sliced(p, "partData", mark, s), !.lookbehind = [@ EXCEPT ![0] = CR]]
      /\ ~(s < l /\ At(p.chunk, s) = CR)
           => PartData(p) = [p EXCEPT !.state = "PART_DATA", !.partData = mark, !.i = s]
  <2>1. /\ p \in LoopType /\ p.state \in {"PART_DATA_START", "PART_DATA"} /\ p.index = 0 /\ s \in Nat /\ s = SkipTo(p)
        /\ mark \in Nat /\ mark = (IF p.state = "PART_DATA_START" THEN p.i ELSE p.partData)
    BY <1>1, <1>4, <1>5
  <2> HIDE DEF s, mark
  <2>2. Skipped(p, s, mark)
    BY <2>1, PartDataSkips
  <2>q. QED BY <2>2 DEF Skipped
<1> DEFINE y == base + s
           ps == [p EXCEPT !.i = s]
           j == s + 1
<1>8. ps \in LoopType /\ ps.err = FALSE /\ ps.chunk = p.chunk /\ ps.i = s
  <2>1. s \in Int
    BY <1>5
  <2> HIDE DEF s
  <2>q. QED BY <1>1, <2>1 DEF LoopType
<1>9. y \in Nat /\ j \in Nat /\ y = base + s /\ j = s + 1
  BY <1>1, <1>5
<1>10. p.headerField \in Int /\ p.headerValue \in Int /\ p.flags \in SUBSET {"PART", "LAST"} /\ p.lookbehind \in Lookbehinds
       /\ p.out \in Pushed /\ p.index \in Int
  BY <1>1, LoopFields
<1> HIDE DEF w, x, u, d, mark, s, l, y, j
<1>11. CASE s < l /\ At(p.chunk, s) = CR
  <2> DEFINE out == Sliced(p, "partData", mark, s)
             c == DataView(parts, k, base + s - u)
             lb == [p.lookbehind EXCEPT ![0] = CR]
             one == 1
             r == Turned(ps, "PART_DATA", one, p.flags, lb, p.headerField, p.headerValue, NoMark, out)
  <2>1. out \in Pushed /\ Leads(parts, out, a, c, FALSE) /\ Held(out, p.lookbehind)
    <3>1. mark <= s /\ base + s <= DelimiterAt(parts, k + 1) /\ DataAt(parts, k) <= base + mark /\ s <= Len(p.chunk)
      BY <1>1, <1>4, <1>5 DEF u, d, l
    <3>q. QED BY <1>1, <1>2, <1>4, <1>5, <3>1, DataViewed DEF u
  <2>2. lb \in Lookbehinds /\ Keeps(p.lookbehind, lb) /\ Remembered(lb, 1)
    <3>1. 0 \in 0..BoundaryLength /\ CR \in Bytes /\ 0 < BoundaryLength /\ CR = Boundary[0 + 1] /\ 0 + 1 = 1
      BY BoundaryIs DEF Bytes
    <3>2. Remembered(p.lookbehind, 0)
      BY DEF Remembered
    <3>q. QED BY <1>10, <3>1, <3>2, Remembers
  <2> HIDE DEF out
  <2>3. Turn(p) = r
    <3>1. PartData(p) = [p EXCEPT !.state = "PART_DATA", !.index = 1, !.partData = NoMark, !.i = s,
                                  !.out = out, !.lookbehind = lb]
      BY <1>1, <1>7, <1>11 DEF out, LoopType
    <3>2. p \in LoopType /\ ps.i = s
      BY <1>1, <1>8
    <3> HIDE DEF lb
    <3>q. QED BY <1>6, <3>1, <3>2, ZenonT(180) DEF LoopType, Turned
  <2>4. one \in Int /\ one = 1
    OBVIOUS
  <2> HIDE DEF one, lb, c, ps
  <2>5. /\ r \in LoopType /\ r.err = FALSE /\ r.chunk = p.chunk /\ r.i = s + 1 /\ r.state = "PART_DATA" /\ r.index = 1
        /\ r.flags = {} /\ r.lookbehind = lb /\ NoMarks(r) /\ r.out = out
    <3>1. /\ ps \in LoopType /\ "PART_DATA" \in States /\ one \in Int /\ p.flags \in SUBSET {"PART", "LAST"}
          /\ lb \in Lookbehinds /\ p.headerField \in Int /\ p.headerValue \in Int /\ NoMark \in Int /\ out \in Pushed
      BY <1>8, <1>10, <2>1, <2>2, <2>4, StatesAre
    <3>2. /\ r \in LoopType /\ r.err = ps.err /\ r.chunk = ps.chunk /\ r.i = ps.i + 1
          /\ r.state = "PART_DATA" /\ r.index = one /\ r.flags = p.flags /\ r.lookbehind = lb
          /\ r.headerField = p.headerField /\ r.headerValue = p.headerValue /\ r.partData = NoMark /\ r.out = out
      BY <3>1, TurnedIs DEF TurnedInto
    <3>q. QED BY <1>4, <1>8, <2>4, <3>2 DEF NoMarks, Marks
  <2> HIDE DEF r
  <2>6. Place(r, base) = y + 1 /\ TurnsLeft(r) < TurnsLeft(p) /\ r.i \in Nat
    <3>1. r.i = s + 1 /\ s + 1 <= l /\ Len(r.chunk) = l /\ r.index = 1 /\ p.index = 0
      BY <1>1, <1>4, <1>5, <1>11, <2>5 DEF l
    <3>2. Place(r, base) = y + 1
      BY <1>1, <1>5, <1>9, <3>1 DEF Place
    <3>3. TurnsLeft(r) < TurnsLeft(p)
      <4>1. Len(p.chunk) = l /\ Len(r.chunk) = l /\ l \in Nat /\ s \in Nat /\ p.i \in Nat /\ p.i <= s
        BY <1>1, <1>5, <3>1 DEF l
      <4>q. QED BY <3>1, <4>1 DEF TurnsLeft
    <3>q. QED BY <1>5, <3>1, <3>2, <3>3
  <2>7. w[y + 1] = CR
    <3>1. j \in 1..Len(p.chunk) /\ base + j = y + 1 /\ j = s + 1
      BY <1>1, <1>5, <1>9, <1>11 DEF l
    <3>2. w[base + j] = p.chunk[j]
      BY <1>2, <3>1 DEF ChunkAt, HasAt, w
    <3>q. QED BY <1>11, <3>1, <3>2 DEF At
  <2>8. InLead(parts, k, r, y + 1, c)
    <3>1. y + 1 - r.index = y /\ y \in u..d /\ r.index \in 1..BoundaryLength
      BY <1>1, <1>3, <1>4, <1>5, <1>9, <2>5, BoundaryIs, SMTT(90)
    <3>2. \A i \in 1..r.index : w[y + i] = Boundary[i]
      BY <2>5, <2>7, BoundaryIs
    <3>3. c = DataView(parts, k, y - u)
      BY <1>1, <1>3, <1>5, <1>9 DEF c
    <3>q. QED BY <2>2, <2>5, <3>1, <3>2, <3>3 DEF InLead, u, d, w
  <2>9. Stands(parts, r, Place(r, base), base, c)
    BY <2>6, <2>8 DEF Stands, InPart
  <2>10. Held(out, lb)
    BY <2>1, <2>2, HeldKept
  <2>q. QED BY <2>1, <2>2, <2>3, <2>5, <2>6, <2>9, <2>10, GoesTo
<1>12. CASE ~(s < l /\ At(p.chunk, s) = CR)
  <2> DEFINE r == Turned(ps, "PART_DATA", p.index, p.flags, p.lookbehind, p.headerField, p.headerValue, mark, p.out)
  <2>1. Turn(p) = r
    <3>1. PartData(p) = [p EXCEPT !.state = "PART_DATA", !.partData = mark, !.i = s]
      BY <1>7, <1>12
    <3>q. QED BY <1>1, <1>6, <1>8, <3>1, ZenonT(180) DEF LoopType, Turned
  <2> HIDE DEF ps
  <2>2. /\ r \in LoopType /\ r.err = FALSE /\ r.chunk = p.chunk /\ r.i = s + 1 /\ r.state = "PART_DATA" /\ r.index = 0
        /\ r.flags = {} /\ r.lookbehind = p.lookbehind /\ Marks(r, NoMark, NoMark, mark) /\ r.out = p.out
    <3>1. /\ ps \in LoopType /\ "PART_DATA" \in States /\ p.index \in Int /\ p.flags \in SUBSET {"PART", "LAST"}
          /\ p.lookbehind \in Lookbehinds /\ p.headerField \in Int /\ p.headerValue \in Int /\ mark \in Int /\ p.out \in Pushed
      BY <1>4, <1>8, <1>10, StatesAre
    <3>2. /\ r \in LoopType /\ r.err = ps.err /\ r.chunk = ps.chunk /\ r.i = ps.i + 1
          /\ r.state = "PART_DATA" /\ r.index = p.index /\ r.flags = p.flags /\ r.lookbehind = p.lookbehind
          /\ r.headerField = p.headerField /\ r.headerValue = p.headerValue /\ r.partData = mark /\ r.out = p.out
      BY <3>1, TurnedIs DEF TurnedInto
    <3>q. QED BY <1>4, <1>8, <3>2 DEF Marks
  <2> HIDE DEF r
  <2> DEFINE z == IF s < l THEN y + 1 ELSE y
  <2>3. Place(r, base) = z /\ TurnsLeft(r) < TurnsLeft(p) /\ r.i \in Nat
    <3>1. r.i = s + 1 /\ Len(r.chunk) = l /\ r.index = 0 /\ p.index = 0
      BY <1>1, <1>4, <2>2 DEF l
    <3>2. Place(r, base) = z
      BY <1>1, <1>5, <1>9, <3>1 DEF Place
    <3>3. TurnsLeft(r) < TurnsLeft(p)
      <4>1. Len(p.chunk) = l /\ Len(r.chunk) = l /\ l \in Nat /\ s \in Nat /\ p.i \in Nat /\ p.i <= s
        BY <1>1, <1>5, <3>1 DEF l
      <4>q. QED BY <3>1, <4>1 DEF TurnsLeft
    <3>q. QED BY <1>5, <3>1, <3>2, <3>3
  <2>4. z \in u..d /\ base + mark \in u..z
    <3>1. ASSUME s < l, y = d PROVE FALSE
      <4>1. j \in 1..Len(p.chunk) /\ base + j = d + 1 /\ j = s + 1 /\ 1 \in 1..BoundaryLength
        BY <1>1, <1>5, <1>9, <3>1, BoundaryIs DEF l
      <4>2. w[base + j] = p.chunk[j]
        BY <1>2, <4>1 DEF ChunkAt, HasAt, w
      <4>3. w[d + 1] = Boundary[1]
        <5>1. k + 1 \in 1..Len(parts) + 1
          BY <1>1, WholeIs
        <5>q. QED BY <1>1, <4>1, <5>1, WholeIs DEF HasAt, BoundaryLength, w, d
      <4>4. At(p.chunk, s) = CR
        BY <4>1, <4>2, <4>3, BoundaryIs DEF At
      <4>q. QED BY <1>12, <3>1, <4>4
    <3>2. y <= d /\ u <= y /\ base + mark <= y /\ u <= base + mark /\ base + mark \in Nat
      BY <1>1, <1>3, <1>4, <1>5, <1>9
    <3>q. QED BY <1>3, <1>9, <3>1, <3>2
  <2>5. InData(parts, k, r, z, base, b)
    <3>1. r.partData = mark
      BY <2>2 DEF Marks
    <3>q. QED BY <1>4, <2>2, <2>4, <3>1 DEF InData, u, d
  <2> HIDE DEF z
  <2>6. Stands(parts, r, Place(r, base), base, b)
    BY <2>3, <2>5 DEF Stands, InPart
  <2>q. QED BY <1>2, <2>1, <2>2, <2>3, <2>6, KeepsSame, GoesTo
<1>q. QED BY <1>11, <1>12

HeldBack(lookbehind, n) == [name |-> "partData", from |-> "lookbehind", data |-> [i \in 1..n |-> lookbehind[i - 1]]]

\* PartData within what may be a delimiter.
LeadGoes(p, n, c) ==
  /\ n < BoundaryLength /\ c = Boundary[n + 1]
       => PartData(p) = [p EXCEPT !.index = n + 1, !.lookbehind = [@ EXCEPT ![n] = c]]
  /\ n < BoundaryLength /\ c # Boundary[n + 1]
       => PartData(p) = [p EXCEPT !.index = 0, !.out = Append(p.out, HeldBack(p.lookbehind, n)),
                                  !.partData = p.i, !.i = p.i - 1]
  /\ n = BoundaryLength /\ c = CR
       => PartData(p) = [p EXCEPT !.index = n + 1, !.flags = @ \cup {"PART"}, !.lookbehind = [@ EXCEPT ![n] = c]]
  /\ n = BoundaryLength /\ c = HYPHEN
       => PartData(p) = [p EXCEPT !.index = n + 1, !.flags = @ \cup {"LAST"}, !.lookbehind = [@ EXCEPT ![n] = c]]

(* So it does, with what may be a delimiter behind it. *)
LEMMA LeadIs ==
  ASSUME NEW p \in LoopType, p.state = "PART_DATA", p.i < Len(p.chunk), NEW n, n = p.index, n \in 1..BoundaryLength,
         NEW c, c = At(p.chunk, p.i)
  PROVE  LeadGoes(p, n, c)
<1>1. n \in Nat /\ n > 0 /\ n # 0 /\ BoundaryLength \in Nat /\ n <= BoundaryLength /\ p.i \in Int
  BY BoundaryIs, LoopFields
<1>2. PartData(p) = PartDataAt(p, n)
  BY <1>1, PartDataIs
<1> DEFINE l == n + 1
<1>3. l \in Nat /\ l > 0 /\ l - 1 = n
  BY <1>1
<1>4. At(Boundary, n) = Boundary[l]
  BY DEF At
<1>5. l = n + 1
  OBVIOUS
<1> HIDE DEF l
<1>6. \A q \in LoopType : q.index = l => Matched(q, c) = [q EXCEPT !.lookbehind = [@ EXCEPT ![n] = c]]
  BY <1>3 DEF Matched
<1>7. ASSUME n < BoundaryLength, c = Boundary[l]
      PROVE  PartData(p) = [p EXCEPT !.index = l, !.lookbehind = [@ EXCEPT ![n] = c]]
  <2> DEFINE q == [p EXCEPT !.index = l]
  <2>1. q \in LoopType /\ q.index = l
    BY <1>3 DEF LoopType
  <2>2. q = [p EXCEPT !.index = n + 1]
    BY <1>5
  <2> HIDE DEF q
  <2>3. PartDataAt(p, n) = Matched(q, c)
    BY <1>1, <1>3, <1>4, <1>7, <2>1, <2>2 DEF PartDataAt
  <2>4. Matched(q, c) = [q EXCEPT !.lookbehind = [@ EXCEPT ![n] = c]]
    BY <1>6, <2>1
  <2>q. QED BY <1>2, <2>3, <2>4 DEF q, LoopType
<1>8. ASSUME n < BoundaryLength, c # Boundary[l]
      PROVE  PartData(p) = [p EXCEPT !.index = 0, !.out = Append(p.out, HeldBack(p.lookbehind, n)),
                                     !.partData = p.i, !.i = p.i - 1]
  <2> DEFINE q == [p EXCEPT !.index = 0]
  <2>1. q \in LoopType /\ q.index = 0 /\ q.lookbehind = p.lookbehind /\ q.out = p.out /\ q.i = p.i
    BY DEF LoopType
  <2>2. PartDataAt(p, n) = GivenUp(q, n)
    BY <1>1, <1>4, <1>8, <2>1 DEF PartDataAt
  <2>3. PushLookbehind(q, n) = [q EXCEPT !.out = Append(p.out, HeldBack(p.lookbehind, n))]
    BY <2>1 DEF PushLookbehind, HeldBack, LoopType
  <2> DEFINE o == Append(p.out, HeldBack(p.lookbehind, n))
  <2>4. PushLookbehind(q, n) = [q EXCEPT !.out = o]
    BY <2>3
  <2> HIDE DEF o
  <2>5. GivenUp(q, n) = [p EXCEPT !.index = 0, !.out = o, !.partData = p.i, !.i = p.i - 1]
    BY <2>1, <2>4 DEF GivenUp, LoopType
  <2>q. QED BY <1>2, <2>2, <2>5 DEF o
<1>9. ASSUME n = BoundaryLength, NEW flag, flag = IF c = CR THEN "PART" ELSE "LAST", c = CR \/ c = HYPHEN
      PROVE  PartData(p) = [p EXCEPT !.index = l, !.flags = @ \cup {flag}, !.lookbehind = [@ EXCEPT ![n] = c]]
  <2> DEFINE q == [p EXCEPT !.index = l, !.flags = @ \cup {flag}]
  <2>1. q \in LoopType /\ q.index = l
    <3>1. p.flags \cup {flag} \in SUBSET {"PART", "LAST"}
      BY <1>9, LoopFields
    <3> DEFINE f == p.flags \cup {flag}
    <3>2. f \in SUBSET {"PART", "LAST"} /\ l \in Int /\ q = [p EXCEPT !.index = l, !.flags = f]
      BY <1>3, <3>1
    <3> HIDE DEF f, q
    <3>q. QED BY <3>2 DEF LoopType
  <2>2. q = [p EXCEPT !.index = n + 1, !.flags = @ \cup {flag}]
    BY <1>5
  <2> HIDE DEF q
  <2>3. PartDataAt(p, n) = Matched(q, c)
    <3>1. CR # HYPHEN
      BY LettersAre
    <3>2. ~(n < BoundaryLength)
      BY <1>1, <1>9
    <3>q. QED BY <1>1, <1>3, <1>9, <2>1, <2>2, <3>1, <3>2 DEF PartDataAt
  <2>4. Matched(q, c) = [q EXCEPT !.lookbehind = [@ EXCEPT ![n] = c]]
    BY <1>6, <2>1
  <2>q. QED BY <1>2, <2>3, <2>4 DEF q, LoopType
<1>10. CR # HYPHEN
  BY LettersAre
<1>q. QED BY <1>5, <1>7, <1>8, <1>9, <1>10 DEF LeadGoes

(* InData from its conjuncts. *)
LEMMA InDataIs ==
  ASSUME NEW parts, NEW k, NEW s, NEW x, NEW base \in Nat, NEW b, NEW from, from = base + s.partData,
         DataAt(parts, k) \in Nat,
         s.state = "PART_DATA", s.index = 0, x \in DataAt(parts, k)..DelimiterAt(parts, k + 1),
         s.partData \in Nat, from \in DataAt(parts, k)..x,
         s.flags = {}, Marks(s, NoMark, NoMark, s.partData), b = DataView(parts, k, from - DataAt(parts, k))
  PROVE  InData(parts, k, s, x, base, b)
<1>1. from - DataAt(parts, k) = base + s.partData - DataAt(parts, k)
  OBVIOUS
<1>q. QED BY <1>1 DEF InData

(* InLead from its conjuncts. *)
LEMMA InLeadIs ==
  ASSUME NEW parts, NEW k, NEW s, NEW x, NEW b, NEW from, from = x - s.index,
         s.state = "PART_DATA", s.index \in 1..BoundaryLength, from \in DataAt(parts, k)..DelimiterAt(parts, k + 1),
         \A j \in 1..s.index : Whole(parts)[from + j] = Boundary[j], Remembered(s.lookbehind, s.index),
         s.flags = {}, NoMarks(s), b = DataView(parts, k, from - DataAt(parts, k))
  PROVE  InLead(parts, k, s, x, b)
BY DEF InLead

(* A turn within what may be a delimiter: it goes on, or is taken for data after all. *)
LEMMA LeadTurn ==
  ASSUME NEW parts, NEW base, NEW a, NEW p, NEW b, Ready(parts, base, a, p, b), NEW k \in 1..Len(parts),
         InLead(parts, k, p, base + p.i, b)
  PROVE  Goes(parts, base, a, p, Turn(p))
<1> DEFINE w == Whole(parts)
           x == base + p.i
           u == DataAt(parts, k)
           d == DelimiterAt(parts, k + 1)
           c == At(p.chunk, p.i)
           n == p.index
           o == x - n
           B == BoundaryLength
           l == n + 1
           lb == [p.lookbehind EXCEPT ![n] = c]
<1>1. /\ parts \in Messages /\ p \in LoopType /\ p.err = FALSE /\ p.i \in Nat /\ base \in Nat /\ x \in Nat
      /\ p.i < Len(p.chunk) /\ Len(p.chunk) \in Nat /\ x = base + p.i /\ c = w[x + 1] /\ c \in Bytes
  BY ReadyFacts
<1>2. Leads(parts, p.out, a, b, FALSE) /\ Held(p.out, p.lookbehind)
  BY DEF Ready, Common
<1>3. u \in Nat /\ d \in Nat /\ d = u + Len(parts[k].data) /\ Len(parts[k].data) \in Nat /\ B \in Nat /\ B >= 4
      /\ HasAt(w, u, parts[k].data) /\ parts[k].data \in Seq(Bytes)
  <2>1. u \in Nat /\ d = u + Len(parts[k].data) /\ PartFits(parts[k]) /\ HasAt(w, u, parts[k].data)
    BY <1>1, PlacesOfPart
  <2>2. Len(parts[k].data) \in Nat /\ parts[k].data \in Seq(Bytes)
    BY <2>1 DEF PartFits
  <2>3. d \in Nat
    <3> HIDE DEF u, d
    <3>q. QED BY <2>1, <2>2
  <2>q. QED BY <2>1, <2>2, <2>3, BoundaryIs
<1>4. /\ p.state = "PART_DATA" /\ n \in 1..B /\ o \in u..d /\ Remembered(p.lookbehind, n) /\ p.flags = {}
      /\ p.headerField = NoMark /\ p.headerValue = NoMark /\ p.partData = NoMark /\ b = DataView(parts, k, o - u)
      /\ \A j \in 1..n : w[o + j] = Boundary[j]
  BY DEF InLead, NoMarks, Marks
<1>5. n \in Nat /\ n # 0 /\ o \in Nat /\ x = o + n /\ o <= d /\ u <= o /\ l \in Nat /\ l = n + 1 /\ n <= B
  <2>1. n \in 1..B /\ o \in u..d /\ o = x - n /\ x \in Nat /\ u \in Nat /\ d \in Nat /\ B \in Nat /\ l = n + 1
    BY <1>1, <1>3, <1>4
  <2> HIDE DEF x, u, d, n, o, B, l
  <2>q. QED BY <2>1
<1>6. \A j \in 1..B : w[d + j] = Boundary[j]
  <2>1. k + 1 \in 1..Len(parts) + 1
    BY <1>1, WholeIs
  <2>q. QED BY <1>1, <2>1, WholeIs DEF HasAt, BoundaryLength
<1>7. o = d \/ (n < B /\ o + n <= d)
  <2>1. DataAt(parts, k) <= o /\ o <= DelimiterAt(parts, k + 1)
    BY <1>5
  <2> HIDE DEF o
  <2>q. QED BY <1>1, <1>4, <1>5, <2>1, NoOther
<1>8. Turn(p) = [PartData(p) EXCEPT !.i = @ + 1]
  BY <1>4 DEF Turn
<1>9. p.headerField \in Int /\ p.headerValue \in Int /\ p.partData \in Int /\ p.flags \in SUBSET {"PART", "LAST"}
      /\ p.lookbehind \in Lookbehinds /\ p.out \in Pushed /\ n \in Int /\ l \in Int
  BY <1>1, <1>5, LoopFields
<1>10. LeadGoes(p, n, c)
  BY <1>1, <1>4, LeadIs
<1> DEFINE m == Len(parts[k].data)
<1>20. /\ base \in Nat /\ x \in Nat /\ u \in Nat /\ d \in Nat /\ n \in Nat /\ o \in Nat /\ B \in Nat /\ l \in Nat /\ m \in Nat
       /\ 1 <= n /\ n <= B /\ x = o + n /\ u <= o /\ o <= d /\ l = n + 1 /\ B >= 4 /\ d = u + m
  BY <1>1, <1>3, <1>5
<1> HIDE DEF w, x, u, d, c, n, o, B, l, m
<1>11. ASSUME n < B => c = Boundary[l]
       PROVE  lb \in Lookbehinds /\ Keeps(p.lookbehind, lb) /\ (n < B => Remembered(lb, l))
  <2>1. n \in 0..BoundaryLength /\ (n < BoundaryLength => c = Boundary[n + 1]) /\ c \in Bytes
    BY <1>1, <1>11, <1>20 DEF B
  <2>2. /\ lb \in Lookbehinds /\ Keeps(p.lookbehind, lb)
        /\ n < BoundaryLength /\ Remembered(p.lookbehind, n) => Remembered(lb, n + 1)
    BY <1>9, <2>1, Remembers
  <2>q. QED BY <1>4, <1>20, <2>2 DEF B
<1>12. CASE n < B /\ c = Boundary[l]
  <2>1. lb \in Lookbehinds /\ Keeps(p.lookbehind, lb) /\ Remembered(lb, l)
    BY <1>11, <1>12
  <2>2. Turn(p) = Turned(p, "PART_DATA", l, p.flags, lb, p.headerField, p.headerValue, p.partData, p.out)
    <3>1. PartData(p) = [p EXCEPT !.index = l, !.lookbehind = [@ EXCEPT ![n] = c]]
      BY <1>5, <1>10, <1>12 DEF LeadGoes, B
    <3>2. PartData(p) = [p EXCEPT !.index = l, !.lookbehind = lb] /\ p \in LoopType /\ p.state = "PART_DATA"
      BY <1>1, <1>4, <3>1 DEF LoopType
    <3> HIDE DEF lb
    <3>q. QED BY <1>8, <3>2, ZenonT(180) DEF LoopType, Turned
  <2>3. ASSUME NEW r, LeftWith(r, "PART_DATA", l, p.flags, lb, p.headerField, p.headerValue, p.partData)
        PROVE  Stands(parts, r, base + p.i + 1, base, b)
    <3>1. /\ r.state = "PART_DATA" /\ r.index = l /\ r.flags = {} /\ NoMarks(r) /\ Remembered(r.lookbehind, r.index)
      BY <1>4, <2>1, <2>3 DEF LeftWith, Marks, NoMarks
    <3>2. l \in 1..B /\ x + 1 - l = o /\ o \in u..d
      BY <1>12, <1>20
    <3>3. \A j \in 1..l : w[o + j] = Boundary[j]
      <4>1. w[o + l] = Boundary[l]
        <5>1. x + 1 = o + l
          BY <1>1, <1>5
        <5>q. QED BY <1>1, <1>12, <5>1
      <4>2. \A j \in 1..l : j \in 1..n \/ j = l
        BY <1>5
      <4>q. QED BY <1>4, <4>1, <4>2
    <3>4. InLead(parts, k, r, x + 1, b)
      <4> DEFINE y == x + 1
                 from == y - r.index
      <4>1. from = o
        BY <1>20, <3>1, <3>2
      <4>2. from = y - r.index /\ x + 1 = y
        OBVIOUS
      <4> HIDE DEF from, y
      <4>3. from \in u..d /\ r.index \in 1..B /\ b = DataView(parts, k, from - u) /\ \A j \in 1..r.index : w[from + j] = Boundary[j]
        BY <1>4, <3>1, <3>2, <3>3, <4>1
      <4>4. InLead(parts, k, r, y, b)
        BY <3>1, <4>2, <4>3, InLeadIs DEF u, d, w, B
      <4>q. QED BY <4>2, <4>4
    <3>q. QED BY <1>1, <3>4 DEF Stands, InPart
  <2> HIDE DEF lb
  <2>4. Held(p.out, lb)
    BY <1>2, <2>1, HeldKept
  <2>q. QED BY <1>2, <1>9, <2>1, <2>2, <2>3, <2>4, StatesAre, Turns
<1>13. CASE n < B /\ c # Boundary[l]
  <2> DEFINE e == HeldBack(p.lookbehind, n)
             out == Append(p.out, e)
             z == 0
             ps == [p EXCEPT !.i = p.i - 1]
             r == Turned(ps, "PART_DATA", z, p.flags, p.lookbehind, p.headerField, p.headerValue, p.i, out)
             g == o - u
             h == x - u
             v == DataView(parts, k, h)
             s == parts[k].data
  <2>1. x <= d
    <3>1. o # d
      <4>1. SUFFICES ASSUME o = d PROVE FALSE
        OBVIOUS
      <4>2. l \in 1..B /\ x + 1 = d + l
        BY <1>13, <1>20, <4>1
      <4>q. QED BY <1>1, <1>6, <1>13, <4>2
    <3>q. QED BY <1>5, <1>7, <3>1
  <2>2. g \in Nat /\ h \in Nat /\ g <= h /\ h <= Len(s) /\ h = g + n /\ o = u + g /\ h = x - u
    <3>1. g \in Nat /\ h \in Nat /\ g <= h /\ h <= m /\ h = g + n /\ o = u + g
      BY <1>20, <2>1
    <3>q. QED BY <3>1 DEF m
  <2> HIDE DEF g, h
  <2>3. \A j \in 1..n : /\ p.lookbehind[j - 1] = Boundary[j]
                        /\ s[g + j] = Boundary[j]
    <3> TAKE j \in 1..n
    <3>1. j - 1 \in 0..n - 1 /\ j - 1 + 1 = j /\ g + j \in 1..Len(s) /\ o + j = u + (g + j)
      BY <1>1, <1>3, <1>5, <2>2, SMTT(60)
    <3>2. w[u + (g + j)] = s[g + j]
      BY <1>3, <3>1 DEF HasAt
    <3>q. QED BY <1>4, <3>1, <3>2 DEF Remembered
  <2>4. e.data = [j \in 1..n |-> Boundary[j]] /\ e.name = "partData" /\ e.from = "lookbehind"
    BY <2>3 DEF HeldBack
  <2>5. SubSeq(s, g + 1, h) = [j \in 1..n |-> s[g + j]] /\ SubSeq(s, g + 1, h) \in Seq(Bytes)
    <3>1. SubSeq(s, g + 1, g + n) = [j \in 1..n |-> s[g + j]] /\ SubSeq(s, g + 1, g + n) \in Seq(Bytes)
      <4>1. g + n <= Len(s) /\ n \in Nat /\ g \in Nat /\ s \in Seq(Bytes) /\ Len(s) \in Nat
        BY <1>3, <1>5, <2>2
      <4> HIDE DEF s
      <4>q. QED BY <4>1
    <3>q. QED BY <2>2, <3>1
  <2>6. e.data = SubSeq(s, g + 1, h) /\ e \in Event
    <3>1. e.data = SubSeq(s, g + 1, h)
      BY <2>3, <2>4, <2>5
    <3>q. QED BY <2>4, <2>5, <3>1 DEF Event, EventNames, HeldBack
  <2> HIDE DEF e
  <2>7. After(b, e) = v /\ Sound(parts, v, FALSE)
    <3>1. b = DataView(parts, k, g)
      BY <1>4 DEF g
    <3>2. /\ parts \in Messages /\ k \in 1..Len(parts) /\ g \in Nat /\ h \in Nat /\ e.name = "partData" /\ g <= h
          /\ h <= Len(parts[k].data) /\ e.data = SubSeq(parts[k].data, g + 1, h)
      BY <1>1, <2>2, <2>4, <2>6
    <3> DEFINE hs == Len(parts[k].headers)
               nothing == <<>>
    <3> HIDE DEF hs, nothing
    <3>3. After(View(parts, k, hs, nothing, nothing, g), e) = View(parts, k, hs, nothing, nothing, h)
      BY <3>2, MoreDataView
    <3>4. Sound(parts, View(parts, k, hs, nothing, nothing, h), FALSE)
      BY <3>2, ViewSound
    <3>q. QED BY <3>1, <3>3, <3>4 DEF DataView, hs, nothing
  <2>8. out \in Seq(Event) /\ Leads(parts, out, a, v, FALSE) /\ Held(out, p.lookbehind)
    <3>1. p.out \in Seq(Event)
      BY <1>9 DEF Pushed
    <3>2. out \in Seq(Event) /\ Leads(parts, out, a, After(b, e), FALSE)
      BY <1>2, <2>6, <2>7, <3>1, LeadsOn
    <3>3. n \in 0..BoundaryLength
      BY <1>4, <1>5, <1>3 DEF B
    <3>4. Held(out, p.lookbehind)
      BY <1>2, <1>4, <2>4, <3>1, <3>3, HeldOn
    <3>q. QED BY <2>7, <3>2, <3>4
  <2> HIDE DEF out
  <2>9. ps \in LoopType /\ ps.err = FALSE /\ ps.chunk = p.chunk /\ ps.i + 1 = p.i
    <3>1. p.i - 1 \in Int /\ p.i - 1 + 1 = p.i
      BY <1>1
    <3>q. QED BY <1>1, <3>1 DEF LoopType
  <2>10. z \in Int /\ z = 0
    OBVIOUS
  <2>11. Turn(p) = r
    <3>1. PartData(p) = [p EXCEPT !.index = 0, !.out = out, !.partData = p.i, !.i = p.i - 1]
      BY <1>5, <1>10, <1>13 DEF LeadGoes, B, out, e
    <3>2. p \in LoopType /\ p.state = "PART_DATA"
      BY <1>1, <1>4
    <3> DEFINE i == p.i - 1
    <3>3. PartData(p) = [p EXCEPT !.index = z, !.out = out, !.partData = p.i, !.i = i] /\ ps = [p EXCEPT !.i = i] /\ i \in Int
      BY <1>1, <3>1
    <3> HIDE DEF i, z, ps
    <3>4. ps.i = i
      BY <3>2, <3>3 DEF LoopType
    <3>5. r = [p EXCEPT !.state = "PART_DATA", !.index = z, !.out = out, !.partData = p.i, !.i = i + 1]
      BY <3>2, <3>3, <3>4 DEF LoopType, Turned
    <3>6. Turn(p) = [p EXCEPT !.state = "PART_DATA", !.index = z, !.out = out, !.partData = p.i, !.i = i + 1]
      BY <1>8, <3>2, <3>3, ZenonT(180) DEF LoopType
    <3>q. QED BY <3>5, <3>6
  <2> HIDE DEF z, ps
  <2>12. /\ r \in LoopType /\ r.err = FALSE /\ r.chunk = p.chunk /\ r.i = p.i /\ r.state = "PART_DATA" /\ r.index = 0
         /\ r.flags = {} /\ r.lookbehind = p.lookbehind /\ Marks(r, NoMark, NoMark, p.i) /\ r.out = out
    <3>1. /\ ps \in LoopType /\ "PART_DATA" \in States /\ z \in Int /\ p.flags \in SUBSET {"PART", "LAST"}
          /\ p.lookbehind \in Lookbehinds /\ p.headerField \in Int /\ p.headerValue \in Int /\ p.i \in Int /\ out \in Pushed
      BY <1>1, <1>9, <2>8, <2>9, <2>10, StatesAre DEF Pushed
    <3>2. /\ r \in LoopType /\ r.err = ps.err /\ r.chunk = ps.chunk /\ r.i = ps.i + 1
          /\ r.state = "PART_DATA" /\ r.index = z /\ r.flags = p.flags /\ r.lookbehind = p.lookbehind
          /\ r.headerField = p.headerField /\ r.headerValue = p.headerValue /\ r.partData = p.i /\ r.out = out
      BY <3>1, TurnedIs DEF TurnedInto
    <3>q. QED BY <1>4, <2>9, <2>10, <3>2 DEF Marks
  <2> HIDE DEF r
  <2>13. Place(r, base) = x /\ TurnsLeft(r) < TurnsLeft(p) /\ r.i \in Nat
    <3>1. Place(r, base) = x
      BY <1>1, <2>12 DEF Place
    <3>2. p.index # 0
      BY <1>5 DEF n
    <3>3. TurnsLeft(r) < TurnsLeft(p)
      BY <1>1, <2>12, <3>2 DEF TurnsLeft
    <3>q. QED BY <1>1, <2>12, <3>1, <3>3
  <2>14. InData(parts, k, r, x, base, v)
    <3>1. r.partData = p.i /\ base + r.partData = x /\ x \in u..d /\ x \in u..x
      BY <1>1, <1>3, <1>5, <2>1, <2>12, SMTT(90) DEF Marks
    <3>2. v = DataView(parts, k, x - u)
      BY <2>2
    <3> HIDE DEF v
    <3>q. QED BY <1>1, <1>3, <2>12, <3>1, <3>2, InDataIs DEF u, d
  <2>15. Stands(parts, r, Place(r, base), base, v)
    BY <2>13, <2>14 DEF Stands, InPart
  <2> HIDE DEF v
  <2>q. QED BY <2>8, <2>11, <2>12, <2>13, <2>15, KeepsSame, GoesTo
<1>14. CASE ~(n < B)
  <2> DEFINE flag == IF k < Len(parts) THEN "PART" ELSE "LAST"
             f == {flag}
  <2>1. n = B /\ o = d /\ x = d + B
    BY <1>7, <1>14, <1>20
  <2>2. c = IF k < Len(parts) THEN CR ELSE HYPHEN
    <3>1. k < Len(parts) \/ k = Len(parts)
      BY <1>1, WholeIs
    <3>2. /\ k < Len(parts) => w[d + B + 1] = CR
          /\ k = Len(parts) => w[d + B + 1] = HYPHEN
      BY <1>1, DelimiterEnds DEF w, d, B
    <3>3. k = Len(parts) => ~(k < Len(parts))
      BY <1>1, WholeIs
    <3>q. QED BY <1>1, <2>1, <3>1, <3>2, <3>3
  <2>3. lb \in Lookbehinds /\ Keeps(p.lookbehind, lb)
    BY <1>11, <1>14
  <2>4. Turn(p) = Turned(p, "PART_DATA", l, f, lb, p.headerField, p.headerValue, p.partData, p.out)
    <3>1. PartData(p) = [p EXCEPT !.index = l, !.flags = @ \cup {flag}, !.lookbehind = [@ EXCEPT ![n] = c]]
      <4>1. n = BoundaryLength /\ n + 1 = l
        BY <1>5, <2>1 DEF B
      <4>q. QED BY <1>10, <2>2, <4>1 DEF LeadGoes
    <3>2. PartData(p) = [p EXCEPT !.index = l, !.flags = f, !.lookbehind = lb] /\ p \in LoopType /\ p.state = "PART_DATA"
      <4>1. p.flags \cup {flag} = f
        BY <1>4
      <4>q. QED BY <1>1, <1>4, <3>1, <4>1 DEF LoopType
    <3> HIDE DEF lb, f, flag
    <3>3. Turn(p) = [p EXCEPT !.index = l, !.flags = f, !.lookbehind = lb, !.i = p.i + 1]
      BY <1>8, <3>2 DEF LoopType
    <3>4. Turned(p, "PART_DATA", l, f, lb, p.headerField, p.headerValue, p.partData, p.out)
            = [p EXCEPT !.index = l, !.flags = f, !.lookbehind = lb, !.i = p.i + 1]
      BY <3>2 DEF LoopType, Turned
    <3>q. QED BY <3>3, <3>4
  <2>5. f \in SUBSET {"PART", "LAST"} /\ f = IF k < Len(parts) THEN {"PART"} ELSE {"LAST"}
    OBVIOUS
  <2> HIDE DEF f
  <2>6. ASSUME NEW r, LeftWith(r, "PART_DATA", l, f, lb, p.headerField, p.headerValue, p.partData)
        PROVE  Stands(parts, r, base + p.i + 1, base, b)
    <3>1. r.state = "PART_DATA" /\ r.index = BoundaryLength + 1 /\ r.flags = f /\ NoMarks(r)
      BY <1>4, <1>5, <2>1, <2>6 DEF LeftWith, Marks, NoMarks, B
    <3>2. x + 1 = DelimiterAt(parts, k + 1) + BoundaryLength + 1
      BY <2>1 DEF B, d
    <3>3. b = DataView(parts, k, Len(parts[k].data))
      <4> DEFINE s == Len(parts[k].data)
      <4>1. s \in Nat /\ d = u + s
        BY <1>3
      <4> HIDE DEF s
      <4>2. o - u = s
        BY <1>3, <2>1, <4>1
      <4>q. QED BY <1>4, <4>2 DEF s
    <3>4. BehindDelimiter(parts, k, r, x + 1, b)
      BY <2>5, <3>1, <3>2, <3>3 DEF BehindDelimiter
    <3>q. QED BY <1>1, <3>4 DEF Stands, InPart
  <2> HIDE DEF lb
  <2>7. Held(p.out, lb)
    BY <1>2, <2>3, HeldKept
  <2>q. QED BY <1>2, <1>9, <2>3, <2>4, <2>5, <2>6, <2>7, StatesAre, Turns
<1>q. QED BY <1>12, <1>13, <1>14

(* Two events without bytes are pushed. *)
LEMMA TwoPushes ==
  ASSUME NEW parts, NEW a, NEW b, NEW lookbehind, NEW out \in Seq(Event), Leads(parts, out, a, b, FALSE), Held(out, lookbehind),
         NEW first \in EventNames, NEW second \in EventNames, NEW c, c = After(b, Mark(first)), Sound(parts, c, FALSE),
         NEW d, d = After(c, Mark(second)), Sound(parts, d, FALSE)
  PROVE  LET new == Append(Append(out, Mark(first)), Mark(second)) IN
         new \in Pushed /\ Leads(parts, new, a, d, FALSE) /\ Held(new, lookbehind)
<1> DEFINE e == Mark(first)
           f == Mark(second)
           mid == Append(out, e)
<1>1. e \in Event /\ e.from # "lookbehind" /\ f \in Event /\ f.from # "lookbehind" /\ c = After(b, e) /\ d = After(c, f)
  BY MarkIs
<1> HIDE DEF e, f
<1>2. mid \in Seq(Event) /\ Leads(parts, mid, a, c, FALSE) /\ Held(mid, lookbehind)
  <2>1. Sound(parts, After(b, e), FALSE)
    BY <1>1
  <2>2. mid \in Seq(Event) /\ Leads(parts, mid, a, After(b, e), FALSE)
    BY <1>1, <2>1, LeadsOn
  <2>3. Held(mid, lookbehind)
    BY <1>1, HeldOn
  <2>q. QED BY <1>1, <2>2, <2>3
<1> HIDE DEF mid
<1>3. Append(mid, f) \in Seq(Event) /\ Leads(parts, Append(mid, f), a, d, FALSE) /\ Held(Append(mid, f), lookbehind)
  <2>1. Sound(parts, After(c, f), FALSE)
    BY <1>1
  <2>2. Append(mid, f) \in Seq(Event) /\ Leads(parts, Append(mid, f), a, After(c, f), FALSE)
    BY <1>1, <1>2, <2>1, LeadsOn
  <2>3. Held(Append(mid, f), lookbehind)
    BY <1>1, <1>2, HeldOn
  <2>q. QED BY <1>1, <2>2, <2>3
<1>q. QED BY <1>3 DEF mid, e, f, Pushed

\* PartData behind a delimiter.
EndGoes(p, c) ==
  /\ p.flags = {"PART"} /\ c = LF
       => PartData(p) = [p EXCEPT !.state = "HEADER_FIELD_START", !.index = 0, !.flags = {},
                                  !.out = Append(Append(p.out, Mark("partEnd")), Mark("partBegin"))]
  /\ p.flags = {"LAST"} /\ c = HYPHEN
       => PartData(p) = [p EXCEPT !.state = "END", !.flags = {}, !.lookbehind = [@ EXCEPT ![BoundaryLength] = c],
                                  !.out = Append(Append(p.out, Mark("partEnd")), Mark("end"))]

(* So it does, with a whole delimiter behind it. *)
LEMMA EndIs ==
  ASSUME NEW p \in LoopType, p.state = "PART_DATA", p.i < Len(p.chunk), p.index = BoundaryLength + 1,
         NEW c, c = At(p.chunk, p.i)
  PROVE  EndGoes(p, c)
<1> DEFINE n == BoundaryLength + 1
<1>1. BoundaryLength \in Nat /\ n \in Nat /\ n # 0 /\ n # BoundaryLength /\ ~(n < BoundaryLength) /\ n - 1 = BoundaryLength
      /\ p.index = n
  BY BoundaryIs
<1> HIDE DEF n
<1>2. PartData(p) = PartDataAt(p, n)
  BY <1>1, PartDataIs
<1>3. ASSUME p.flags = {"PART"}, c = LF
      PROVE  PartData(p) = [p EXCEPT !.state = "HEADER_FIELD_START", !.index = 0, !.flags = {},
                                     !.out = Append(Append(p.out, Mark("partEnd")), Mark("partBegin"))]
  <2> DEFINE q == Push(Push(p, "partEnd"), "partBegin")
             out == Append(Append(p.out, Mark("partEnd")), Mark("partBegin"))
  <2>1. q = [p EXCEPT !.out = out]
    BY DEF Push, Mark, LoopType
  <2>2. PartDataAt(p, n) = [q EXCEPT !.index = 0, !.flags = @ \ {"PART"}, !.state = "HEADER_FIELD_START"]
    BY <1>1, <1>3 DEF PartDataAt
  <2>3. q.flags = p.flags /\ p.flags \ {"PART"} = {}
    BY <1>3, <2>1 DEF LoopType
  <2> HIDE DEF q, out
  <2>q. QED BY <1>2, <2>1, <2>2, <2>3, ZenonT(180) DEF LoopType, out
<1>4. ASSUME p.flags = {"LAST"}, c = HYPHEN
      PROVE  PartData(p) = [p EXCEPT !.state = "END", !.flags = {}, !.lookbehind = [@ EXCEPT ![BoundaryLength] = c],
                                     !.out = Append(Append(p.out, Mark("partEnd")), Mark("end"))]
  <2> DEFINE q == Push(Push(p, "partEnd"), "end")
             out == Append(Append(p.out, Mark("partEnd")), Mark("end"))
             r == [q EXCEPT !.state = "END", !.flags = {}]
  <2>1. q = [p EXCEPT !.out = out]
    BY DEF Push, Mark, LoopType
  <2>2. PartDataAt(p, n) = Matched(r, c)
    <3>1. "PART" \notin p.flags /\ "LAST" \in p.flags
      BY <1>4
    <3>q. QED BY <1>1, <1>4, <3>1 DEF PartDataAt
  <2> HIDE DEF q, out
  <2>3. r = [p EXCEPT !.out = out, !.state = "END", !.flags = {}] /\ r.index = n
    BY <1>1, <2>1 DEF LoopType
  <2> HIDE DEF r
  <2>4. Matched(r, c) = [r EXCEPT !.lookbehind = [@ EXCEPT ![BoundaryLength] = c]]
    BY <1>1, <2>3 DEF Matched
  <2>q. QED BY <1>2, <2>2, <2>3, <2>4 DEF LoopType, out
<1>q. QED BY <1>3, <1>4 DEF EndGoes

(* A turn at the second byte behind a delimiter: the part is complete. *)
LEMMA BehindDelimiterTurn ==
  ASSUME NEW parts, NEW base, NEW a, NEW p, NEW b, Ready(parts, base, a, p, b), NEW k \in 1..Len(parts),
         BehindDelimiter(parts, k, p, base + p.i, b)
  PROVE  Goes(parts, base, a, p, Turn(p))
<1> DEFINE w == Whole(parts)
           x == base + p.i
           d == DelimiterAt(parts, k + 1) + BoundaryLength
           c == At(p.chunk, p.i)
           m == Len(parts)
           f == {}
<1>1. /\ parts \in Messages /\ p \in LoopType /\ p.i \in Nat /\ base \in Nat /\ x \in Nat
      /\ p.i < Len(p.chunk) /\ x = base + p.i /\ c = w[x + 1] /\ c \in Bytes /\ p.out \in Seq(Event)
  BY ReadyFacts
<1>2. Leads(parts, p.out, a, b, FALSE) /\ Held(p.out, p.lookbehind)
  BY DEF Ready, Common
<1>3. /\ p.state = "PART_DATA" /\ p.index = BoundaryLength + 1 /\ x = d + 1
      /\ p.flags = (IF k < m THEN {"PART"} ELSE {"LAST"})
      /\ p.headerField = NoMark /\ p.headerValue = NoMark /\ p.partData = NoMark
      /\ b = DataView(parts, k, Len(parts[k].data))
  BY DEF BehindDelimiter, NoMarks, Marks
<1>4. d \in Nat /\ m \in Nat /\ k \in 1..m /\ d = DelimiterAt(parts, k + 1) + BoundaryLength
  BY <1>1, WholeIs, DelimiterEnds
<1>5. /\ k < m => w[d + 2] = LF /\ HeadAt(parts, k + 1, 1) = d + 2 /\ k + 1 \in 1..m
      /\ k = m => w[d + 2] = HYPHEN
  BY <1>1, DelimiterEnds
<1>6. Turn(p) = [PartData(p) EXCEPT !.i = @ + 1]
  BY <1>3 DEF Turn
<1>7. p.headerField \in Int /\ p.headerValue \in Int /\ p.partData \in Int /\ p.lookbehind \in Lookbehinds /\ p.index \in Int
  BY <1>1, LoopFields
<1>8. f \in SUBSET {"PART", "LAST"} /\ f = {}
  OBVIOUS
<1>9. EndGoes(p, c)
  BY <1>1, <1>3, EndIs
<1>10. "partEnd" \in EventNames /\ "partBegin" \in EventNames /\ "end" \in EventNames
       /\ Mark("partEnd").name = "partEnd" /\ Mark("partBegin").name = "partBegin" /\ Mark("end").name = "end"
  BY DEF EventNames, Mark
<1> DEFINE v == [part |-> b.part, results |-> SubSeq(parts, 1, k), over |-> FALSE]
<1>11. After(b, Mark("partEnd")) = v /\ Sound(parts, v, FALSE)
  <2> DEFINE e == Mark("partEnd")
  <2>1. e.name = "partEnd"
    BY <1>10
  <2> HIDE DEF e
  <2>2. /\ After(b, e) = [part |-> b.part, results |-> SubSeq(parts, 1, k), over |-> FALSE]
        /\ \A torn : Sound(parts, After(b, e), torn)
    BY <1>1, <1>3, <2>1, EndView DEF DataView
  <2>q. QED BY <2>2 DEF e
<1>12. v.results = SubSeq(parts, 1, k) /\ v.over = FALSE
  OBVIOUS
<1>13. x + 1 = d + 2
  BY <1>1, <1>3, <1>4
<1> HIDE DEF w, x, d, c, m, f, v
<1>14. CASE k < m
  <2> DEFINE l == k + 1
             out == Append(Append(p.out, Mark("partEnd")), Mark("partBegin"))
             u == After(v, Mark("partBegin"))
             z == 0
  <2>1. l \in 1..m /\ l - 1 = k /\ l \in 1..Len(parts) /\ w[d + 2] = LF /\ HeadAt(parts, l, 1) = d + 2
    BY <1>4, <1>5, <1>14 DEF m
  <2>2. u = View(parts, l, 0, <<>>, <<>>, 0)
    <3> DEFINE e == Mark("partBegin")
    <3>1. e.name = "partBegin" /\ v.results = SubSeq(parts, 1, l - 1) /\ v.over = FALSE
      BY <1>10, <1>12, <2>1
    <3> HIDE DEF e, l
    <3>2. After(v, e) = View(parts, l, 0, <<>>, <<>>, 0)
      BY <1>1, <2>1, <3>1, BeginView
    <3>q. QED BY <3>2 DEF e
  <2>3. Sound(parts, u, FALSE)
    BY <1>1, <2>1, <2>2, ViewSound
  <2>4. out \in Pushed /\ Leads(parts, out, a, u, FALSE) /\ Held(out, p.lookbehind)
    BY <1>1, <1>2, <1>10, <1>11, <2>3, TwoPushes
  <2> HIDE DEF out, l
  <2>5. c = LF /\ p.flags = {"PART"}
    BY <1>1, <1>3, <1>13, <1>14, <2>1
  <2>6. Turn(p) = Turned(p, "HEADER_FIELD_START", z, f, p.lookbehind, p.headerField, p.headerValue, p.partData, out)
    <3>1. PartData(p) = [p EXCEPT !.state = "HEADER_FIELD_START", !.index = z, !.flags = f, !.out = out] /\ p \in LoopType
      BY <1>1, <1>8, <1>9, <2>5 DEF EndGoes, out
    <3> HIDE DEF z
    <3>2. Turn(p) = [p EXCEPT !.state = "HEADER_FIELD_START", !.index = z, !.flags = f, !.out = out, !.i = p.i + 1]
      BY <1>6, <3>1 DEF LoopType
    <3>q. QED BY <3>1, <3>2 DEF LoopType, Turned
  <2>7. z \in Int /\ z = 0
    OBVIOUS
  <2> HIDE DEF z, u
  <2>8. ASSUME NEW r, LeftWith(r, "HEADER_FIELD_START", z, f, p.lookbehind, p.headerField, p.headerValue, p.partData)
        PROVE  Stands(parts, r, base + p.i + 1, base, u)
    <3>1. r.state = "HEADER_FIELD_START" /\ r.index = 0 /\ r.flags = {} /\ NoMarks(r)
      BY <1>3, <1>8, <2>7, <2>8 DEF LeftWith, Marks, NoMarks
    <3>2. 1 \in 1..Len(parts[l].headers) + 1 /\ 1 - 1 = 0
      <4>1. Len(parts[l].headers) \in Nat
        BY <1>1, <2>1, PlacesOfPart
      <4>q. QED BY <4>1
    <3>3. x + 1 = HeadAt(parts, l, 1)
      BY <1>13, <2>1
    <3>4. AtField(parts, l, 1, r, x + 1, u)
      BY <2>2, <3>1, <3>2, <3>3 DEF AtField
    <3>q. QED BY <1>1, <2>1, <3>2, <3>4 DEF Stands, InPart, InHeaders
  <2>q. QED BY <1>7, <1>8, <2>4, <2>6, <2>7, <2>8, StatesAre, KeepsSame, Turns
<1>15. CASE ~(k < m)
  <2> DEFINE out == Append(Append(p.out, Mark("partEnd")), Mark("end"))
             u == After(v, Mark("end"))
             lb == [p.lookbehind EXCEPT ![BoundaryLength] = c]
  <2>1. k = m /\ k = Len(parts) /\ w[d + 2] = HYPHEN
    BY <1>4, <1>5, <1>15 DEF m
  <2>2. u.over = TRUE /\ u.results = parts /\ Sound(parts, u, FALSE)
    <3> DEFINE e == Mark("end")
    <3>1. e.name = "end"
      BY <1>10
    <3> HIDE DEF e
    <3>2. After(v, e).results = v.results /\ Sound(parts, After(v, e), FALSE)
      <4>1. After(v, e).results = v.results
        BY <3>1 DEF After
      <4>2. k \in 0..Len(parts)
        BY <1>4 DEF m
      <4> DEFINE g == After(v, e)
      <4>3. g.results = SubSeq(parts, 1, k) /\ k = Len(parts)
        BY <1>12, <2>1, <4>1
      <4> HIDE DEF g
      <4>4. Sound(parts, g, FALSE)
        BY <1>1, <4>2, <4>3, PrefixSound
      <4>q. QED BY <4>1, <4>4 DEF g
    <3>3. After(v, e).over = TRUE
      BY <3>1 DEF After
    <3>4. SubSeq(parts, 1, k) = parts
      BY <1>1, <2>1, PartIs
    <3>q. QED BY <1>12, <3>2, <3>3, <3>4 DEF e
  <2>3. lb \in Lookbehinds /\ Keeps(p.lookbehind, lb)
    <3>1. BoundaryLength \in 0..BoundaryLength /\ ~(BoundaryLength < BoundaryLength)
      BY BoundaryIs
    <3>q. QED BY <1>1, <1>7, <3>1, Remembers
  <2>4. out \in Pushed /\ Leads(parts, out, a, u, FALSE) /\ Held(out, p.lookbehind)
    BY <1>1, <1>2, <1>10, <1>11, <2>2, TwoPushes
  <2> HIDE DEF out
  <2>5. c = HYPHEN /\ p.flags = {"LAST"}
    BY <1>1, <1>3, <1>13, <1>15, <2>1
  <2>6. Turn(p) = Turned(p, "END", p.index, f, lb, p.headerField, p.headerValue, p.partData, out)
    <3>1. PartData(p) = [p EXCEPT !.state = "END", !.flags = {}, !.lookbehind = [@ EXCEPT ![BoundaryLength] = c], !.out = out]
      BY <1>9, <2>5 DEF EndGoes, out
    <3>2. PartData(p) = [p EXCEPT !.state = "END", !.flags = f, !.lookbehind = lb, !.out = out] /\ p \in LoopType
      BY <1>1, <1>8, <3>1 DEF LoopType
    <3> HIDE DEF lb
    <3>3. Turn(p) = [p EXCEPT !.state = "END", !.flags = f, !.lookbehind = lb, !.out = out, !.i = p.i + 1]
      BY <1>6, <3>2 DEF LoopType
    <3>q. QED BY <3>2, <3>3 DEF LoopType, Turned
  <2> HIDE DEF lb, u
  <2>7. ASSUME NEW r, LeftWith(r, "END", p.index, f, lb, p.headerField, p.headerValue, p.partData)
        PROVE  Stands(parts, r, base + p.i + 1, base, u)
    <3>1. r.state = "END" /\ NoMarks(r)
      BY <1>3, <2>7 DEF LeftWith, Marks, NoMarks
    <3>2. x + 1 >= DelimiterAt(parts, Len(parts) + 1) + BoundaryLength + 2
      <4>1. DelimiterAt(parts, Len(parts) + 1) + BoundaryLength = d
        BY <1>4, <2>1
      <4>2. d + 2 >= d + 2
        BY <1>4
      <4>q. QED BY <1>13, <4>1, <4>2
    <3>3. AtTheEnd(parts, r, x + 1, u)
      BY <2>2, <3>1, <3>2 DEF AtTheEnd
    <3>q. QED BY <1>1, <3>3 DEF Stands
  <2>8. Held(out, lb)
    BY <2>3, <2>4, HeldKept
  <2>q. QED BY <1>7, <1>8, <2>3, <2>4, <2>6, <2>7, <2>8, StatesAre, Turns
<1>q. QED BY <1>14, <1>15

(* Every turn goes on. *)
LEMMA TurnGoes ==
  ASSUME NEW parts, NEW base, NEW a, NEW p, NEW b, Ready(parts, base, a, p, b), Stands(parts, p, base + p.i, base, b)
  PROVE  Goes(parts, base, a, p, Turn(p))
<1> DEFINE x == base + p.i
<1>1. CASE InFirstDelimiter(parts, p, x, b)
  BY <1>1, FirstDelimiterTurn
<1>2. ASSUME NEW k \in 1..Len(parts), InPart(parts, k, p, x, base, b) PROVE Goes(parts, base, a, p, Turn(p))
  <2>1. CASE InHeaders(parts, k, p, x, base, b)
    BY <2>1, AtFieldTurn, InFieldTurn, BeforeValueTurn, InValueTurn, BehindValueTurn DEF InHeaders
  <2>2. CASE BehindHeaders(parts, k, p, x, b)
    BY <2>2, BehindHeadersTurn, DataTurn
  <2>3. CASE InData(parts, k, p, x, base, b)
    BY <2>3, DataTurn
  <2>4. CASE InLead(parts, k, p, x, b)
    BY <2>4, LeadTurn
  <2>5. CASE BehindDelimiter(parts, k, p, x, b)
    BY <2>5, BehindDelimiterTurn
  <2>q. QED BY <1>2, <2>1, <2>2, <2>3, <2>4, <2>5 DEF InPart
<1>3. CASE AtTheEnd(parts, p, x, b)
  BY <1>3, EndTurn
<1>q. QED BY <1>1, <1>2, <1>3 DEF Stands

-----------------------------------------------------------------------------
(* the loop                                                                  *)

Turning(t, p, n) == t = [i \in 0..n |-> IF i = 0 THEN p ELSE TurnIfAny(t[i - 1])]

(* The recursive function the loop is defined by exists. *)
LEMMA TurningExists ==
  ASSUME NEW p, NEW n \in Nat
  PROVE  \E t : Turning(t, p, n)
<1> DEFINE Bad == {k \in Nat : ~\E t : Turning(t, p, k)}
<1>1. ASSUME NEW k \in Nat, NEW t, Turning(t, p, k)
      PROVE  \E g : Turning(g, p, k + 1)
  <2> DEFINE g == [i \in 0..k + 1 |-> IF i <= k THEN t[i] ELSE TurnIfAny(t[i - 1])]
  <2>1. ASSUME NEW i \in 0..k + 1 PROVE g[i] = IF i = 0 THEN p ELSE TurnIfAny(g[i - 1])
    <3>1. CASE i <= k
      <4>1. i \in 0..k /\ g[i] = t[i] /\ (i # 0 => i - 1 \in 0..k + 1 /\ g[i - 1] = t[i - 1])
        BY <3>1
      <4>2. t[i] = IF i = 0 THEN p ELSE TurnIfAny(t[i - 1])
        BY <1>1, <4>1 DEF Turning
      <4>q. QED BY <4>1, <4>2
    <3>2. CASE i = k + 1
      BY <3>2
    <3>q. QED BY <3>1, <3>2
  <2>2. g = [i \in 0..k + 1 |-> g[i]]
    OBVIOUS
  <2> HIDE DEF g
  <2>3. g = [i \in 0..k + 1 |-> IF i = 0 THEN p ELSE TurnIfAny(g[i - 1])]
    BY <2>1, <2>2
  <2>q. QED BY <2>3 DEF Turning
<1>2. 0 \notin Bad
  <2> DEFINE t == [i \in 0..0 |-> p]
  <2>1. Turning(t, p, 0)
    BY DEF Turning
  <2>q. QED BY <2>1
<1>3. Bad = {}
  <2> SUFFICES ASSUME Bad # {} PROVE FALSE
    OBVIOUS
  <2>1. Bad \in SUBSET Nat
    OBVIOUS
  <2>2. PICK k \in Bad : \A j \in Bad : k <= j
    BY <2>1, LeastOf
  <2>3. k - 1 \in Nat /\ k - 1 \notin Bad /\ k = (k - 1) + 1
    BY <1>2, <2>2
  <2>q. QED BY <1>1, <2>2, <2>3
<1>q. QED BY <1>3

(* The loop is as many turns as it can need. *)
LEMMA LoopIs ==
  ASSUME NEW p, Len(p.chunk) \in Nat
  PROVE  \E t : Turning(t, p, 2 * Len(p.chunk)) /\ Loop(p) = t[2 * Len(p.chunk)]
<1> DEFINE n == 2 * Len(p.chunk)
           T == CHOOSE t : Turning(t, p, n)
<1>1. n \in Nat
  OBVIOUS
<1>2. Loop(p) = T[n]
  BY DEF Loop, Turning
<1> HIDE DEF n
<1>3. Turning(T, p, n)
  BY <1>1, TurningExists
<1>q. QED BY <1>2, <1>3 DEF n

(* What holds after any number of turns that began with p.                    *)
Stays(parts, base, a, p, q) ==
  /\ q.chunk = p.chunk /\ Keeps(p.lookbehind, q.lookbehind)
  /\ \E b : Common(parts, base, a, q, b) /\ Stands(parts, q, Place(q, base), base, b)

(* One turn more, if a byte is left. *)
LEMMA TurnStays ==
  ASSUME NEW parts, NEW base, NEW a, NEW p, NEW q, Stays(parts, base, a, p, q)
  PROVE  /\ Stays(parts, base, a, p, TurnIfAny(q))
         /\ q.i < Len(q.chunk) => TurnsLeft(TurnIfAny(q)) < TurnsLeft(q) /\ TurnsLeft(TurnIfAny(q)) \in Int
         /\ q.i >= Len(q.chunk) => TurnIfAny(q) = q
<1>1. PICK b : Common(parts, base, a, q, b) /\ Stands(parts, q, Place(q, base), base, b)
  BY DEF Stays
<1>2. q \in LoopType /\ q.err = FALSE /\ q.i \in Nat /\ Len(q.chunk) \in Nat
  <2>1. q \in LoopType /\ ~q.err /\ q.i \in Nat
    BY <1>1 DEF Common
  <2>2. q.err \in BOOLEAN /\ q.chunk \in Seq(Bytes)
    BY <2>1, LoopFields DEF Chunks
  <2>q. QED BY <2>1, <2>2
<1>3. CASE q.i < Len(q.chunk)
  <2>1. Ready(parts, base, a, q, b) /\ Place(q, base) = base + q.i
    <3>1. Ready(parts, base, a, q, b)
      BY <1>1, <1>3 DEF Ready
    <3>q. QED BY <3>1, ReadyFacts
  <2>2. TurnIfAny(q) = Turn(q)
    BY <1>2, <1>3 DEF TurnIfAny
  <2>3. Goes(parts, base, a, q, Turn(q))
    BY <1>1, <2>1, TurnGoes
  <2> DEFINE r == Turn(q)
  <2> HIDE DEF r
  <2>4. /\ r.chunk = q.chunk /\ Keeps(q.lookbehind, r.lookbehind) /\ TurnsLeft(r) < TurnsLeft(q)
        /\ \E c : Common(parts, base, a, r, c) /\ Stands(parts, r, Place(r, base), base, c)
    BY <2>3 DEF Goes, r
  <2>5. Keeps(p.lookbehind, r.lookbehind)
    BY <2>4 DEF Keeps, Stays
  <2>6. TurnsLeft(r) \in Int
    <3>1. r \in LoopType /\ r.i \in Nat
      BY <2>4 DEF Common
    <3>2. Len(r.chunk) \in Nat
      BY <1>2, <2>4
    <3>q. QED BY <3>1, <3>2 DEF TurnsLeft
  <2>7. Stays(parts, base, a, p, r)
    BY <2>4, <2>5 DEF Stays
  <2>q. QED BY <1>2, <1>3, <2>2, <2>4, <2>6, <2>7 DEF r
<1>4. CASE ~(q.i < Len(q.chunk))
  <2>1. TurnIfAny(q) = q
    BY <1>2, <1>4 DEF TurnIfAny
  <2>q. QED BY <1>4, <2>1
<1>q. QED BY <1>3, <1>4

(* The turns are enough: no byte of the chunk is left. *)
LEMMA LoopStays ==
  ASSUME NEW parts, NEW base, NEW a, NEW p, Stays(parts, base, a, p, p), p.i = 0
  PROVE  Stays(parts, base, a, p, Loop(p)) /\ Loop(p).i >= Len(p.chunk)
<1> DEFINE l == Len(p.chunk)
           n == 2 * l
<1>1. l \in Nat /\ p \in LoopType
  <2>1. p \in LoopType
    BY DEF Stays, Common
  <2>2. p.chunk \in Seq(Bytes)
    BY <2>1, LoopFields DEF Chunks
  <2>q. QED BY <2>1, <2>2
<1>2. PICK t : Turning(t, p, n) /\ Loop(p) = t[n]
  BY <1>1, LoopIs
<1>3. n \in Nat /\ n = 2 * l
  BY <1>1
<1> HIDE DEF n
<1>4. \A i \in 0..n : t[i] = IF i = 0 THEN p ELSE TurnIfAny(t[i - 1])
  BY <1>2 DEF Turning
<1> DEFINE Good(i) == /\ Stays(parts, base, a, p, t[i])
                      /\ t[i].i >= l \/ (TurnsLeft(t[i]) \in Int /\ TurnsLeft(t[i]) <= n - i)
           Bad == {i \in 0..n : ~Good(i)}
<1>5. Good(0)
  <2>1. t[0] = p
    BY <1>3, <1>4
  <2>2. TurnsLeft(p) \in Int /\ TurnsLeft(p) <= n
    <3>1. p.i = 0 /\ l \in Nat /\ Len(p.chunk) = l /\ n = 2 * l
      BY <1>1, <1>3
    <3> HIDE DEF l
    <3>2. TurnsLeft(p) = 2 * l - 1 \/ TurnsLeft(p) = 2 * l
      BY <3>1 DEF TurnsLeft
    <3>q. QED BY <3>1, <3>2
  <2>q. QED BY <1>3, <2>1, <2>2
<1>6. ASSUME NEW i \in 0..n, i # n, Good(i) PROVE Good(i + 1)
  <2>1. i + 1 \in 0..n /\ i + 1 # 0 /\ i + 1 - 1 = i
    BY <1>3, <1>6
  <2>2. t[i + 1] = TurnIfAny(t[i])
    BY <1>4, <2>1
  <2> DEFINE q == t[i]
             r == t[i + 1]
  <2>3. Stays(parts, base, a, p, q) /\ (q.i >= l \/ (TurnsLeft(q) \in Int /\ TurnsLeft(q) <= n - i)) /\ r = TurnIfAny(q)
    BY <1>6, <2>2
  <2> HIDE DEF q, r
  <2>4. /\ Stays(parts, base, a, p, r)
        /\ q.i < Len(q.chunk) => TurnsLeft(r) < TurnsLeft(q) /\ TurnsLeft(r) \in Int
        /\ q.i >= Len(q.chunk) => r = q
    BY <2>3, TurnStays
  <2>5. Len(q.chunk) = l /\ q.i \in Nat
    BY <2>3 DEF Stays, Common
  <2>6. CASE q.i >= l
    BY <2>3, <2>4, <2>5, <2>6 DEF r
  <2>7. CASE ~(q.i >= l)
    <3>1. TurnsLeft(r) < TurnsLeft(q) /\ TurnsLeft(r) \in Int /\ TurnsLeft(q) \in Int /\ TurnsLeft(q) <= n - i
      BY <1>1, <2>3, <2>4, <2>5, <2>7
    <3>2. TurnsLeft(r) <= n - (i + 1)
      BY <1>3, <3>1
    <3>q. QED BY <2>4, <3>1, <3>2 DEF r
  <2>q. QED BY <2>6, <2>7
<1> HIDE DEF Good
<1>7. Bad = {}
  <2> SUFFICES ASSUME Bad # {} PROVE FALSE
    OBVIOUS
  <2>1. Bad \in SUBSET Nat
    BY <1>3
  <2>2. PICK k \in Bad : \A j \in Bad : k <= j
    BY <2>1, LeastOf
  <2>3. k \in 0..n /\ k # 0 /\ ~Good(k)
    BY <1>5, <2>2
  <2> DEFINE j == k - 1
  <2>4. j \in 0..n /\ j # n /\ ~(k <= j) /\ j + 1 = k
    BY <1>3, <2>3
  <2> HIDE DEF j
  <2>5. Good(j)
    BY <2>2, <2>4
  <2>q. QED BY <1>6, <2>3, <2>4, <2>5
<1>8. Good(n)
  BY <1>3, <1>7
<1> DEFINE q == t[n]
<1>9. Stays(parts, base, a, p, q) /\ (q.i >= l \/ (TurnsLeft(q) \in Int /\ TurnsLeft(q) <= 0))
  BY <1>3, <1>8 DEF Good
<1> HIDE DEF q
<1>10. q.i >= l
  <2>1. Len(q.chunk) = l /\ q.i \in Nat
    BY <1>9 DEF Stays, Common
  <2>q. QED BY <1>1, <1>9, <2>1 DEF TurnsLeft
<1>q. QED BY <1>2, <1>9, <1>10 DEF q

-----------------------------------------------------------------------------
(* the end of a chunk                                                        *)

SameFields(r, s) == LeftWith(r, s.state, s.index, s.flags, s.lookbehind, s.headerField, s.headerValue, s.partData)

(* Without marks it does not matter where the chunk began.                    *)
LEMMA StandsAnywhere ==
  ASSUME NEW parts, NEW s, NEW r, SameFields(r, s), NEW x, NEW base, NEW other, NoMarks(s) \/ other = base, NEW b,
         Stands(parts, s, x, base, b)
  PROVE  Stands(parts, r, x, other, b)
<1>1. /\ r.state = s.state /\ r.index = s.index /\ r.flags = s.flags /\ r.lookbehind = s.lookbehind
      /\ r.headerField = s.headerField /\ r.headerValue = s.headerValue /\ r.partData = s.partData
      /\ NoMarks(s) => NoMarks(r) /\ s.headerField = NoMark /\ s.headerValue = NoMark /\ s.partData = NoMark
  BY DEF SameFields, LeftWith, NoMarks, Marks
<1>2. NoMark \notin Nat
  BY DEF NoMark
<1>3. InFirstDelimiter(parts, s, x, b) => InFirstDelimiter(parts, r, x, b)
  BY <1>1 DEF InFirstDelimiter, NoMarks, Marks
<1>4. AtTheEnd(parts, s, x, b) => AtTheEnd(parts, r, x, b)
  BY <1>1 DEF AtTheEnd, NoMarks, Marks
<1>5. ASSUME NEW k \in 1..Len(parts), InPart(parts, k, s, x, base, b) PROVE InPart(parts, k, r, x, other, b)
  <2>1. \A h : AtField(parts, k, h, s, x, b) => AtField(parts, k, h, r, x, b)
    BY <1>1 DEF AtField, NoMarks, Marks
  <2>2. \A h : InField(parts, k, h, s, x, base, b) => InField(parts, k, h, r, x, other, b)
    BY <1>1, <1>2 DEF InField, Marks
  <2>3. \A h : BeforeValue(parts, k, h, s, x, b) => BeforeValue(parts, k, h, r, x, b)
    BY <1>1 DEF BeforeValue, NoMarks, Marks
  <2>4. \A h : InValue(parts, k, h, s, x, base, b) => InValue(parts, k, h, r, x, other, b)
    BY <1>1, <1>2 DEF InValue, Marks
  <2>5. \A h : BehindValue(parts, k, h, s, x, b) => BehindValue(parts, k, h, r, x, b)
    BY <1>1 DEF BehindValue, NoMarks, Marks
  <2>6. BehindHeaders(parts, k, s, x, b) => BehindHeaders(parts, k, r, x, b)
    BY <1>1 DEF BehindHeaders, NoMarks, Marks
  <2>7. InData(parts, k, s, x, base, b) => InData(parts, k, r, x, other, b)
    BY <1>1, <1>2 DEF InData, Marks
  <2>8. InLead(parts, k, s, x, b) => InLead(parts, k, r, x, b)
    BY <1>1 DEF InLead, NoMarks, Marks
  <2>9. BehindDelimiter(parts, k, s, x, b) => BehindDelimiter(parts, k, r, x, b)
    BY <1>1 DEF BehindDelimiter, NoMarks, Marks
  <2>10. InHeaders(parts, k, s, x, base, b) => InHeaders(parts, k, r, x, other, b)
    BY <2>1, <2>2, <2>3, <2>4, <2>5 DEF InHeaders
  <2>q. QED BY <1>5, <2>6, <2>7, <2>8, <2>9, <2>10 DEF InPart
<1>q. QED BY <1>3, <1>4, <1>5 DEF Stands

(* What is pushed and saved when the chunk ends at x.                         *)
Leaves(parts, x, a, r, lookbehind, c) ==
  /\ r \in LoopType /\ r.err = FALSE /\ r.lookbehind = lookbehind
  /\ Leads(parts, r.out, a, c, FALSE) /\ Held(r.out, lookbehind)
  /\ Stands(parts, r, x, x, c)

(* What the three dataCallbacks at the end of a chunk do. *)
LEMMA ChunkEndIs ==
  ASSUME NEW p \in LoopType, p.err = FALSE
  PROVE  LET n == Len(p.chunk) IN
         /\ NoMarks(p) => AtEndOfChunk(p) = p
         /\ p.headerField # NoMark /\ p.headerValue = NoMark /\ p.partData = NoMark =>
              AtEndOfChunk(p) = [p EXCEPT !.out = Sliced(p, "headerField", p.headerField, n), !.headerField = 0]
         /\ p.headerField = NoMark /\ p.headerValue # NoMark /\ p.partData = NoMark =>
              AtEndOfChunk(p) = [p EXCEPT !.out = Sliced(p, "headerValue", p.headerValue, n), !.headerValue = 0]
         /\ p.headerField = NoMark /\ p.headerValue = NoMark /\ p.partData # NoMark =>
              AtEndOfChunk(p) = [p EXCEPT !.out = Sliced(p, "partData", p.partData, n), !.partData = 0]
<1> DEFINE n == Len(p.chunk)
<1>1. NoMarks(p) => AtEndOfChunk(p) = p
  BY DEF AtEndOfChunk, CarryMark, NoMarks, Marks
<1>2. p.headerField # NoMark /\ p.headerValue = NoMark /\ p.partData = NoMark =>
        AtEndOfChunk(p) = [p EXCEPT !.out = Sliced(p, "headerField", p.headerField, n), !.headerField = 0]
  BY ZenonT(90) DEF AtEndOfChunk, CarryMark, PushSlice, Sliced, LoopType
<1>3. p.headerField = NoMark /\ p.headerValue # NoMark /\ p.partData = NoMark =>
        AtEndOfChunk(p) = [p EXCEPT !.out = Sliced(p, "headerValue", p.headerValue, n), !.headerValue = 0]
  BY ZenonT(90) DEF AtEndOfChunk, CarryMark, PushSlice, Sliced, LoopType
<1>4. p.headerField = NoMark /\ p.headerValue = NoMark /\ p.partData # NoMark =>
        AtEndOfChunk(p) = [p EXCEPT !.out = Sliced(p, "partData", p.partData, n), !.partData = 0]
  BY ZenonT(90) DEF AtEndOfChunk, CarryMark, PushSlice, Sliced, LoopType
<1>q. QED BY <1>1, <1>2, <1>3, <1>4

(* The chunk ends where nothing is marked. *)
LEMMA QuietChunkEnds ==
  ASSUME NEW parts, NEW base, NEW a, NEW q, NEW b, Common(parts, base, a, q, b),
         NEW x, Stands(parts, q, x, base, b), NoMarks(q)
  PROVE  Leaves(parts, x, a, AtEndOfChunk(q), q.lookbehind, b)
<1>1. q \in LoopType /\ ~q.err /\ Leads(parts, q.out, a, b, FALSE) /\ Held(q.out, q.lookbehind)
  BY DEF Common
<1>2. q.err = FALSE
  BY <1>1, LoopFields
<1>3. AtEndOfChunk(q) = q
  BY <1>1, <1>2, ChunkEndIs
<1>4. SameFields(q, q)
  BY DEF SameFields, LeftWith, Marks
<1>5. Stands(parts, q, x, x, b)
  BY <1>4, StandsAnywhere
<1>q. QED BY <1>1, <1>2, <1>3, <1>5 DEF Leaves

(* The chunk ends within a field. *)
LEMMA FieldChunkEnds ==
  ASSUME NEW parts, NEW base, NEW a, NEW q, NEW b, Common(parts, base, a, q, b),
         NEW x, x = base + Len(q.chunk), NEW k \in 1..Len(parts), NEW h, InField(parts, k, h, q, x, base, b)
  PROVE  \E c : Leaves(parts, x, a, AtEndOfChunk(q), q.lookbehind, c)
<1> DEFINE f == parts[k].headers[h].field
           o == HeadAt(parts, k, h)
           n == Len(q.chunk)
           m == q.headerField
           out == Sliced(q, "headerField", m, n)
           zero == 0
           c == View(parts, k, h - 1, SubSeq(f, 1, base + n - o), <<>>, 0)
           r == [q EXCEPT !.out = out, !.headerField = zero]
<1>1. /\ parts \in Messages /\ q \in LoopType /\ q.err = FALSE /\ ChunkAt(parts, q.chunk, base) /\ base \in Nat
      /\ Leads(parts, q.out, a, b, FALSE) /\ Held(q.out, q.lookbehind)
  BY LoopFields DEF Common, ChunkAt
<1>2. n \in Nat
  BY <1>1, LoopFields DEF Chunks
<1>3. /\ q.state = "HEADER_FIELD" /\ h \in 1..Len(parts[k].headers) /\ x \in o + 1..o + Len(f)
      /\ q.index \in Nat \ {0} /\ m \in Nat /\ base + m \in o..x /\ q.flags = {}
      /\ q.headerValue = NoMark /\ q.partData = NoMark
  BY DEF InField, Marks
<1>4. o \in Nat /\ Len(f) \in Nat
  BY <1>1, <1>3, PlacesOfHeader
<1>5. m <= n /\ base + n = x /\ x \in Nat /\ m # NoMark
  <2>1. o \in Nat /\ base \in Nat /\ n \in Nat /\ m \in Nat /\ x = base + n /\ base + m \in o..x
    BY <1>1, <1>2, <1>3, <1>4
  <2> HIDE DEF o, n, m
  <2>q. QED BY <2>1 DEF NoMark
<1>6. out \in Pushed /\ Leads(parts, out, a, c, FALSE) /\ Held(out, q.lookbehind)
  <2>1. base + n \in o + 1..o + Len(f) /\ n \in Nat /\ n <= Len(q.chunk) /\ m <= n
    BY <1>2, <1>3, <1>5, SMTT(60)
  <2>2. InField(parts, k, h, q, x, base, b)
    BY SMTT(60)
  <2>q. QED BY <1>1, <2>1, <2>2, FieldViewed DEF f, o
<1>7. AtEndOfChunk(q) = r
  BY <1>1, <1>3, <1>5, ChunkEndIs
<1>8. zero \in Int /\ zero \in Nat /\ x + zero = x
  BY <1>5
<1> HIDE DEF out, zero
<1>9. /\ r \in LoopType /\ r.err = FALSE /\ r.lookbehind = q.lookbehind /\ r.out = out /\ r.state = q.state
      /\ r.index = q.index /\ r.flags = q.flags /\ r.headerField = zero /\ r.headerValue = NoMark /\ r.partData = NoMark
  BY <1>1, <1>3, <1>6, <1>8 DEF LoopType
<1> HIDE DEF r
<1>10. InField(parts, k, h, r, x, x, c)
  <2>1. /\ x + r.headerField = x /\ r.headerField \in Nat /\ x \in o..x
        /\ x + r.headerField - o = base + n - o
    <3>1. /\ x \in Nat /\ zero \in Nat /\ x + zero = x /\ base + n = x /\ r.headerField = zero
          /\ o \in Nat /\ o <= x /\ base \in Nat /\ n \in Nat
      BY <1>1, <1>2, <1>3, <1>4, <1>5, <1>8, <1>9
    <3> HIDE DEF o, n
    <3>q. QED BY <3>1
  <2>q. QED BY <1>3, <1>9, <2>1 DEF InField, Marks
<1> HIDE DEF c
<1>11. Stands(parts, r, x, x, c)
  <2>1. h \in 1..Len(parts[k].headers) + 1
    BY <1>3
  <2>q. QED BY <1>10, <2>1 DEF Stands, InPart, InHeaders
<1>q. QED BY <1>6, <1>7, <1>9, <1>11 DEF Leaves

(* The chunk ends within a value. *)
LEMMA ValueChunkEnds ==
  ASSUME NEW parts, NEW base, NEW a, NEW q, NEW b, Common(parts, base, a, q, b),
         NEW x, x = base + Len(q.chunk), NEW k \in 1..Len(parts), NEW h, InValue(parts, k, h, q, x, base, b)
  PROVE  \E c : Leaves(parts, x, a, AtEndOfChunk(q), q.lookbehind, c)
<1> DEFINE f == parts[k].headers[h].field
           v == parts[k].headers[h].value
           o == HeadAt(parts, k, h) + Len(f) + 2
           n == Len(q.chunk)
           m == q.headerValue
           out == Sliced(q, "headerValue", m, n)
           zero == 0
           c == View(parts, k, h - 1, f, SubSeq(v, 1, base + n - o), 0)
           r == [q EXCEPT !.out = out, !.headerValue = zero]
<1>1. /\ parts \in Messages /\ q \in LoopType /\ q.err = FALSE /\ ChunkAt(parts, q.chunk, base) /\ base \in Nat
      /\ Leads(parts, q.out, a, b, FALSE) /\ Held(q.out, q.lookbehind)
  BY LoopFields DEF Common, ChunkAt
<1>2. n \in Nat
  BY <1>1, LoopFields DEF Chunks
<1>3. /\ q.state = "HEADER_VALUE" /\ h \in 1..Len(parts[k].headers) /\ x \in o + 1..o + Len(v)
      /\ q.index \in Nat \ {0} /\ m \in Nat /\ base + m \in o..x /\ q.flags = {}
      /\ q.headerField = NoMark /\ q.partData = NoMark
  BY DEF InValue, Marks
<1>4. o \in Nat /\ Len(v) \in Nat
  <2>1. HeadAt(parts, k, h) \in Nat /\ Len(f) \in Nat /\ Len(v) \in Nat
    BY <1>1, <1>3, PlacesOfHeader
  <2> HIDE DEF f, v
  <2>q. QED BY <2>1
<1>5. m <= n /\ base + n = x /\ x \in Nat /\ m # NoMark
  <2>1. o \in Nat /\ base \in Nat /\ n \in Nat /\ m \in Nat /\ x = base + n /\ base + m \in o..x
    BY <1>1, <1>2, <1>3, <1>4
  <2> HIDE DEF o, n, m
  <2>q. QED BY <2>1 DEF NoMark
<1>6. out \in Pushed /\ Leads(parts, out, a, c, FALSE) /\ Held(out, q.lookbehind)
  <2>1. base + n <= o + Len(v) /\ n \in Nat /\ n <= Len(q.chunk) /\ m <= n
    <3>1. x \in o + 1..o + Len(v) /\ base + n = x /\ m <= n /\ n \in Nat /\ o \in Nat /\ Len(v) \in Nat
      BY <1>2, <1>3, <1>4, <1>5
    <3> HIDE DEF o
    <3>q. QED BY <3>1
  <2>2. InValue(parts, k, h, q, x, base, b)
    OBVIOUS
  <2>q. QED BY <1>1, <2>1, <2>2, ValueViewed, ZenonT(90) DEF f, v, o
<1>7. AtEndOfChunk(q) = r
  BY <1>1, <1>3, <1>5, ChunkEndIs
<1>8. zero \in Int /\ zero \in Nat /\ x + zero = x
  BY <1>5
<1> HIDE DEF out, zero
<1>9. /\ r \in LoopType /\ r.err = FALSE /\ r.lookbehind = q.lookbehind /\ r.out = out /\ r.state = q.state
      /\ r.index = q.index /\ r.flags = q.flags /\ r.headerField = NoMark /\ r.headerValue = zero /\ r.partData = NoMark
  BY <1>1, <1>3, <1>6, <1>8 DEF LoopType
<1> HIDE DEF r
<1>10. InValue(parts, k, h, r, x, x, c)
  <2>1. /\ x + r.headerValue = x /\ r.headerValue \in Nat /\ x \in o..x
        /\ x + r.headerValue - o = base + n - o
    <3>1. /\ x \in Nat /\ zero \in Nat /\ x + zero = x /\ base + n = x /\ r.headerValue = zero
          /\ o \in Nat /\ o <= x /\ base \in Nat /\ n \in Nat
      BY <1>1, <1>2, <1>3, <1>4, <1>5, <1>8, <1>9, SMTT(90)
    <3> HIDE DEF o, n
    <3>q. QED BY <3>1
  <2>q. QED BY <1>3, <1>9, <2>1 DEF InValue, Marks
<1> HIDE DEF c
<1>11. Stands(parts, r, x, x, c)
  <2>1. h \in 1..Len(parts[k].headers) + 1
    BY <1>3
  <2>q. QED BY <1>10, <2>1 DEF Stands, InPart, InHeaders
<1>q. QED BY <1>6, <1>7, <1>9, <1>11 DEF Leaves

(* The chunk ends within the data. *)
LEMMA DataChunkEnds ==
  ASSUME NEW parts, NEW base, NEW a, NEW q, NEW b, Common(parts, base, a, q, b),
         NEW x, x = base + Len(q.chunk), NEW k \in 1..Len(parts), InData(parts, k, q, x, base, b)
  PROVE  \E c : Leaves(parts, x, a, AtEndOfChunk(q), q.lookbehind, c)
<1> DEFINE o == DataAt(parts, k)
           n == Len(q.chunk)
           m == q.partData
           out == Sliced(q, "partData", m, n)
           zero == 0
           c == DataView(parts, k, base + n - o)
           r == [q EXCEPT !.out = out, !.partData = zero]
<1>1. /\ parts \in Messages /\ q \in LoopType /\ q.err = FALSE /\ ChunkAt(parts, q.chunk, base) /\ base \in Nat
      /\ Leads(parts, q.out, a, b, FALSE) /\ Held(q.out, q.lookbehind)
  BY LoopFields DEF Common, ChunkAt
<1>2. n \in Nat
  BY <1>1, LoopFields DEF Chunks
<1>3. /\ q.state = "PART_DATA" /\ q.index = 0 /\ x \in o..DelimiterAt(parts, k + 1)
      /\ m \in Nat /\ base + m \in o..x /\ q.flags = {}
      /\ q.headerField = NoMark /\ q.headerValue = NoMark /\ b = DataView(parts, k, base + m - o)
  BY DEF InData, Marks
<1>4. o \in Nat /\ DelimiterAt(parts, k + 1) \in Int
  <2>1. o \in Nat /\ DelimiterAt(parts, k + 1) = o + Len(parts[k].data) /\ PartFits(parts[k])
    BY <1>1, PlacesOfPart
  <2>2. Len(parts[k].data) \in Nat
    BY <2>1 DEF PartFits
  <2> HIDE DEF o
  <2>q. QED BY <2>1, <2>2
<1>5. m <= n /\ base + n = x /\ x \in Nat /\ m # NoMark
  <2>1. o \in Nat /\ base \in Nat /\ n \in Nat /\ m \in Nat /\ x = base + n /\ base + m \in o..x
    BY <1>1, <1>2, <1>3, <1>4
  <2> HIDE DEF o, n, m
  <2>q. QED BY <2>1 DEF NoMark
<1>6. out \in Pushed /\ Leads(parts, out, a, c, FALSE) /\ Held(out, q.lookbehind)
  <2>1. base + n <= DelimiterAt(parts, k + 1) /\ o <= base + m
    BY <1>1, <1>3, <1>4, <1>5
  <2>2. m \in Nat /\ n \in Nat /\ m <= n /\ n <= Len(q.chunk) /\ DataAt(parts, k) <= base + m
    BY <1>2, <1>3, <1>5, <2>1
  <2>3. b = DataView(parts, k, base + m - DataAt(parts, k))
    BY <1>3
  <2>4. out = Sliced(q, "partData", m, n) /\ c = DataView(parts, k, base + n - DataAt(parts, k))
    BY SMTT(60)
  <2> HIDE DEF m, n, out, c
  <2>q. QED BY <1>1, <2>1, <2>2, <2>3, <2>4, DataViewed
<1>7. AtEndOfChunk(q) = r
  BY <1>1, <1>3, <1>5, ChunkEndIs
<1>8. zero \in Int /\ zero \in Nat /\ x + zero = x
  BY <1>5
<1> HIDE DEF out, zero
<1>9. /\ r \in LoopType /\ r.err = FALSE /\ r.lookbehind = q.lookbehind /\ r.out = out /\ r.state = q.state
      /\ r.index = q.index /\ r.flags = q.flags /\ r.headerField = NoMark /\ r.headerValue = NoMark /\ r.partData = zero
  BY <1>1, <1>3, <1>6, <1>8 DEF LoopType
<1> HIDE DEF r
<1>10. InData(parts, k, r, x, x, c)
  <2>1. /\ x + r.partData = x /\ r.partData \in Nat /\ x \in o..x
        /\ x + r.partData - o = base + n - o
    <3>1. /\ x \in Nat /\ zero \in Nat /\ x + zero = x /\ base + n = x /\ r.partData = zero
          /\ o \in Nat /\ o <= x /\ base \in Nat /\ n \in Nat
      BY <1>1, <1>2, <1>3, <1>4, <1>5, <1>8, <1>9
    <3> HIDE DEF o, n
    <3>q. QED BY <3>1
  <2>q. QED BY <1>3, <1>9, <2>1 DEF InData, Marks
<1> HIDE DEF c
<1>11. Stands(parts, r, x, x, c)
  BY <1>10 DEF Stands, InPart
<1>q. QED BY <1>6, <1>7, <1>9, <1>11 DEF Leaves

(* Wherever the chunk ends. *)
LEMMA ChunkEnds ==
  ASSUME NEW parts, NEW base, NEW a, NEW q, NEW b, Common(parts, base, a, q, b),
         NEW x, x = base + Len(q.chunk), Stands(parts, q, x, base, b)
  PROVE  \E c : Leaves(parts, x, a, AtEndOfChunk(q), q.lookbehind, c)
<1>1. CASE NoMarks(q)
  BY <1>1, QuietChunkEnds
<1>2. CASE ~NoMarks(q)
  <2>1. PICK k \in 1..Len(parts) : InPart(parts, k, q, x, base, b)
    BY <1>2 DEF Stands, InFirstDelimiter, AtTheEnd
  <2>2. \/ InData(parts, k, q, x, base, b)
        \/ \E h : InField(parts, k, h, q, x, base, b) \/ InValue(parts, k, h, q, x, base, b)
    <3>1. ~BehindHeaders(parts, k, q, x, b) /\ ~InLead(parts, k, q, x, b) /\ ~BehindDelimiter(parts, k, q, x, b)
      BY <1>2 DEF BehindHeaders, InLead, BehindDelimiter
    <3>2. \A h : ~AtField(parts, k, h, q, x, b) /\ ~BeforeValue(parts, k, h, q, x, b) /\ ~BehindValue(parts, k, h, q, x, b)
      BY <1>2 DEF AtField, BeforeValue, BehindValue
    <3>q. QED BY <2>1, <3>1, <3>2 DEF InPart, InHeaders
  <2>q. QED BY <2>2, FieldChunkEnds, ValueChunkEnds, DataChunkEnds
<1>q. QED BY <1>1, <1>2

(* A chunk behind base is read: what was pushed leads from a on.              *)
LEMMA ChunkIsRead ==
  ASSUME NEW parts, NEW base, NEW a, NEW p, p.i = 0, p.out = <<>>, p \in LoopType, p.err = FALSE, parts \in Messages,
         ChunkAt(parts, p.chunk, base), Sound(parts, a, FALSE), Stands(parts, p, base, base, a)
  PROVE  \E lookbehind : /\ Keeps(p.lookbehind, lookbehind)
                         /\ \E c : Leaves(parts, base + Len(p.chunk), a, AtEndOfChunk(Loop(p)), lookbehind, c)
<1>1. Len(p.chunk) \in Nat /\ base \in Nat
  BY LoopFields DEF Chunks, ChunkAt
<1>2. Stays(parts, base, a, p, p)
  <2>1. Common(parts, base, a, p, a)
    <3>1. Leads(parts, p.out, a, a, FALSE)
      BY LeadsNone
    <3>2. Held(p.out, p.lookbehind)
      BY DEF Held
    <3>3. p.i \in Nat /\ ~p.err
      OBVIOUS
    <3>q. QED BY <3>1, <3>2, <3>3 DEF Common
  <2>2. Place(p, base) = base
    BY <1>1 DEF Place
  <2>q. QED BY <2>1, <2>2, KeepsSame DEF Stays
<1> DEFINE q == Loop(p)
<1>3. Stays(parts, base, a, p, q) /\ q.i >= Len(p.chunk)
  BY <1>2, LoopStays
<1> HIDE DEF q
<1>4. PICK b : Common(parts, base, a, q, b) /\ Stands(parts, q, Place(q, base), base, b)
  BY <1>3 DEF Stays
<1>5. q.chunk = p.chunk /\ Keeps(p.lookbehind, q.lookbehind) /\ q.i \in Nat
  BY <1>3, <1>4 DEF Stays, Common
<1>6. Place(q, base) = base + Len(q.chunk)
  BY <1>1, <1>3, <1>5 DEF Place
<1>7. \E c : Leaves(parts, base + Len(p.chunk), a, AtEndOfChunk(q), q.lookbehind, c)
  BY <1>4, <1>5, <1>6, ChunkEnds
<1>q. QED BY <1>5, <1>7 DEF q

-----------------------------------------------------------------------------
(* what is left of the body                                                  *)

(* Something follows every header. *)
LEMMA HeadsInside ==
  ASSUME NEW parts \in Messages, NEW k \in 1..Len(parts), NEW h \in 1..Len(parts[k].headers) + 1
  PROVE  HeadAt(parts, k, h) < Len(Whole(parts))
<1> DEFINE w == Whole(parts)
           m == Len(parts[k].headers)
<1>1. Len(w) \in Nat /\ m \in Nat /\ HeadAt(parts, k, h) \in Nat
  BY WholeIs, PlacesOfPart
<1>2. CASE h = m + 1
  <2>1. DataAt(parts, k) = HeadAt(parts, k, h) + 2 /\ HasAt(w, DataAt(parts, k), parts[k].data)
    BY <1>2, PlacesOfPart
  <2>q. QED BY <1>1, <2>1 DEF HasAt
<1>3. CASE h # m + 1
  <2> DEFINE f == parts[k].headers[h].field
  <2>1. h \in 1..m
    BY <1>1, <1>3
  <2>2. HasAt(w, HeadAt(parts, k, h), f) /\ Len(f) \in Nat \ {0}
    BY <2>1, PlacesOfHeader
  <2> HIDE DEF f
  <2>q. QED BY <1>1, <2>2 DEF HasAt
<1>q. QED BY <1>2, <1>3

(* Two bytes follow every delimiter. *)
LEMMA DelimitersInside ==
  ASSUME NEW parts \in Messages, NEW k \in 1..Len(parts) + 1
  PROVE  DelimiterAt(parts, k) \in Nat /\ DelimiterAt(parts, k) + BoundaryLength + 2 <= Len(Whole(parts))
<1>1. DelimiterAt(parts, k) \in Nat /\ Len(parts) \in Nat /\ BoundaryLength \in Nat /\ Len(Whole(parts)) \in Nat
  BY WholeIs, BoundaryIs
<1>2. CASE k = Len(parts) + 1
  <2>1. Len(Whole(parts)) = DelimiterAt(parts, k) + BoundaryLength + 4
    BY <1>2, WholeIs
  <2>q. QED BY <1>1, <2>1
<1>3. CASE k # Len(parts) + 1
  <2>1. k \in 1..Len(parts)
    BY <1>1, <1>3
  <2>q. QED BY <1>1, <2>1, PlacesOfPart
<1>q. QED BY <1>2, <1>3

(* The parser is at the end of the body only in the state END.                *)
LEMMA Inside ==
  ASSUME NEW parts \in Messages, NEW s, NEW x \in Nat, NEW base, NEW b, Stands(parts, s, x, base, b), s.state # "END"
  PROVE  x < Len(Whole(parts))
<1> DEFINE w == Len(Whole(parts))
           l == BoundaryLength
<1>1. w \in Nat /\ Len(parts) \in Nat \ {0} /\ l \in Nat /\ l >= 4
  BY WholeIs, BoundaryIs
<1> HIDE DEF w, l
<1>2. CASE InFirstDelimiter(parts, s, x, b)
  <2>1. 1 \in 1..Len(parts) + 1 /\ DelimiterAt(parts, 1) = 0
    BY <1>1, WholeIs
  <2>2. 0 + l + 2 <= w
    BY <2>1, DelimitersInside DEF w, l
  <2>3. x = 2 \/ (x = s.index + 2 /\ s.index \in 1..l - 1)
    BY <1>2 DEF InFirstDelimiter, l
  <2>4. x < w
    BY <1>1, <2>2, <2>3
  <2>q. QED BY <2>4 DEF w
<1>3. ASSUME NEW k \in 1..Len(parts), InPart(parts, k, s, x, base, b) PROVE x < w
  <2> DEFINE d == DelimiterAt(parts, k + 1)
             u == DataAt(parts, k)
  <2>1. d \in Nat /\ d + l + 2 <= w
    <3>1. k + 1 \in 1..Len(parts) + 1
      BY <1>1
    <3>q. QED BY <3>1, DelimitersInside DEF w, l
  <2>2. u \in Nat /\ u <= d
    <3>1. u \in Nat /\ PartFits(parts[k]) /\ d = u + Len(parts[k].data)
      BY PlacesOfPart
    <3>2. Len(parts[k].data) \in Nat
      BY <3>1 DEF PartFits
    <3> HIDE DEF u, d
    <3>q. QED BY <3>1, <3>2
  <2> HIDE DEF u, d
  <2>3. ASSUME NEW h, AtField(parts, k, h, s, x, b) PROVE x < w
    BY <2>3, HeadsInside DEF AtField, w
  <2>4. ASSUME NEW h, InField(parts, k, h, s, x, base, b) \/ BeforeValue(parts, k, h, s, x, b)
                      \/ InValue(parts, k, h, s, x, base, b) \/ BehindValue(parts, k, h, s, x, b)
        PROVE x < w
    <3> DEFINE f == Len(parts[k].headers[h].field)
               v == Len(parts[k].headers[h].value)
               o == HeadAt(parts, k, h)
               e == HeadAt(parts, k, h + 1)
    <3>1. h \in 1..Len(parts[k].headers) /\ Len(parts[k].headers) \in Nat
      BY <2>4, PlacesOfPart DEF InField, BeforeValue, InValue, BehindValue
    <3>2. o \in Nat /\ f \in Nat /\ v \in Nat /\ e = o + f + 2 + v + 2
      BY <3>1, PlacesOfHeader
    <3>3. e < w
      <4>1. h + 1 \in 1..Len(parts[k].headers) + 1
        BY <3>1
      <4>q. QED BY <4>1, HeadsInside DEF w
    <3>4. \/ x \in o + 1..o + f \/ x \in o + f + 1..o + f + 2 \/ x \in o + f + 2 + 1..o + f + 2 + v \/ x = e - 1
      BY <2>4 DEF InField, BeforeValue, InValue, BehindValue
    <3> HIDE DEF o, f, v, e
    <3>q. QED BY <1>1, <3>2, <3>3, <3>4
  <2>5. CASE BehindHeaders(parts, k, s, x, b)
    <3>1. x = u - 1 \/ x = u
      BY <2>5 DEF BehindHeaders, u
    <3>q. QED BY <1>1, <2>1, <2>2, <3>1
  <2>6. CASE InData(parts, k, s, x, base, b)
    <3>1. x \in u..d
      BY <2>6 DEF InData, u, d
    <3>q. QED BY <1>1, <2>1, <2>2, <3>1
  <2>7. CASE InLead(parts, k, s, x, b)
    <3>1. s.index \in 1..l /\ x - s.index \in u..d
      BY <2>7 DEF InLead, u, d, l
    <3>2. x \in Int
      OBVIOUS
    <3>q. QED BY <1>1, <2>1, <2>2, <3>1
  <2>8. CASE BehindDelimiter(parts, k, s, x, b)
    <3>1. x = d + l + 1
      BY <2>8 DEF BehindDelimiter, d, l
    <3>q. QED BY <1>1, <2>1, <3>1
  <2>q. QED BY <1>3, <2>3, <2>4, <2>5, <2>6, <2>7, <2>8 DEF InPart, InHeaders
<1>4. ~AtTheEnd(parts, s, x, b)
  BY DEF AtTheEnd
<1>q. QED BY <1>2, <1>3, <1>4 DEF Stands, w

-----------------------------------------------------------------------------
(* the specification                                                         *)

ParserType ==
  [index : Int, state : States, flags : SUBSET {"PART", "LAST"}, lookbehind : Lookbehinds,
   headerField : Int, headerValue : Int, partData : Int]

Begun == Len(Whole(sent)) - Len(rest)
Got == [part |-> part, results |-> results, over |-> ended = "done"]
Torn == ended \in {"flushed", "done"} /\ rest # <<>>

ParserInv ==
  /\ sent \in Messages /\ rest \in Seq(Bytes) /\ HasAt(Whole(sent), Begun, rest)
  /\ ended \in {"no", "flushed", "done", "refused"} /\ (ended = "refused" => rest # <<>>)
  /\ events \in Seq(Event) /\ Sound(sent, Got, Torn)
  /\ ended \in {"no", "flushed"} =>
       \E b : /\ Leads(sent, events, Got, b, Torn) /\ Held(events, parser.lookbehind)
              /\ ended = "no" => parser \in ParserType /\ Stands(sent, parser, Begun, Begun, b)

(* What has come and what is left are the body. *)
LEMMA BodyEnds ==
  ASSUME ParserInv
  PROVE  /\ Begun \in Nat /\ Len(rest) \in Nat /\ Len(Whole(sent)) \in Nat /\ Begun + Len(rest) = Len(Whole(sent))
         /\ rest = <<>> <=> Len(rest) = 0
<1>1. sent \in Messages /\ rest \in Seq(Bytes) /\ Begun \in Nat
  BY DEF ParserInv, HasAt
<1>2. Len(Whole(sent)) \in Nat
  BY <1>1, WholeIs
<1>q. QED BY <1>1, <1>2 DEF Begun

(* The first chunk begins within the first delimiter, behind its line end. *)
LEMMA ParserInit_Inv == ParserInit => ParserInv
<1> SUFFICES ASSUME ParserInit PROVE ParserInv
  OBVIOUS
<1> DEFINE w == Whole(sent)
<1>1. /\ sent \in Messages /\ rest = Encode(sent) /\ parser = NewParser /\ events = <<>> /\ part = NewPart
      /\ results = <<>> /\ ended = "no"
  BY DEF ParserInit
<1>2. /\ w \in Seq(Bytes) /\ rest \in Seq(Bytes) /\ Len(rest) = Len(w) - 2 /\ Len(w) >= 2
      /\ \A x \in 1..Len(rest) : rest[x] = w[x + 2]
  BY <1>1, BodyIs
<1>3. Begun = 2
  BY <1>2 DEF Begun
<1>4. HasAt(w, 2, rest)
  <2> HIDE DEF w
  <2>1. Len(w) \in Nat /\ Len(rest) \in Nat /\ \A x \in 1..Len(rest) : rest[x] = w[2 + x]
    BY <1>2
  <2>q. QED BY <1>2, <2>1 DEF HasAt
<1>5. Sound(sent, Got, FALSE) /\ ~Torn
  <2>1. 0 \in 0..Len(sent) /\ SubSeq(sent, 1, 0) = <<>>
    BY <1>1, PartIs
  <2>2. Got.results = SubSeq(sent, 1, 0) /\ Got.over = FALSE
    BY <1>1, <2>1 DEF Got
  <2>3. Sound(sent, Got, FALSE)
    BY <1>1, <2>1, <2>2, PrefixSound
  <2>q. QED BY <1>1, <2>3 DEF Torn
<1>6. Leads(sent, events, Got, Got, FALSE) /\ Held(events, parser.lookbehind)
  <2>1. Leads(sent, <<>>, Got, Got, FALSE)
    BY <1>5, LeadsNone
  <2>2. Held(<<>>, parser.lookbehind)
    BY DEF Held
  <2>q. QED BY <1>1, <2>1, <2>2
<1>7. parser \in ParserType
  <2>1. BoundaryLength \in Nat
    BY BoundaryIs
  <2>2. [i \in 0..BoundaryLength |-> "x"] \in Lookbehinds
    BY DEF Lookbehinds, Bytes
  <2>q. QED BY <1>1, <2>2, StatesAre DEF ParserType, NewParser
<1>8. Stands(sent, parser, 2, 2, Got)
  <2>1. InFirstDelimiter(sent, parser, 2, Got)
    BY <1>1 DEF InFirstDelimiter, NewParser, NoMarks, Marks, Got
  <2>q. QED BY <2>1 DEF Stands
<1>9. events \in Seq(Event) /\ Torn = FALSE
  BY <1>1, <1>5 DEF Torn
<1>q. QED BY <1>1, <1>2, <1>3, <1>4, <1>5, <1>6, <1>7, <1>8, <1>9 DEF ParserInv

(* Held events behind held events. *)
LEMMA HeldBoth ==
  ASSUME NEW es \in Seq(Event), NEW fs \in Seq(Event), NEW l, Held(es, l), Held(fs, l)
  PROVE  Held(es \o fs, l)
<1> DEFINE m == Len(es)
           gs == es \o fs
<1>1. m \in Nat /\ Len(fs) \in Nat /\ Len(gs) = m + Len(fs)
  OBVIOUS
<1>2. (\A i \in 1..m : gs[i] = es[i]) /\ (\A i \in 1..Len(gs) : i \notin 1..m => i - m \in 1..Len(fs) /\ gs[i] = fs[i - m])
  OBVIOUS
<1> HIDE DEF gs
<1>3. ASSUME NEW i \in 1..Len(gs), gs[i].from = "lookbehind"
      PROVE  \E n \in 0..BoundaryLength : gs[i].data = [j \in 1..n |-> Boundary[j]] /\ Remembered(l, n)
  <2>1. CASE i \in 1..m
    BY <1>2, <1>3, <2>1 DEF Held
  <2>2. CASE i \notin 1..m
    <3> DEFINE j == i - m
    <3>1. j \in 1..Len(fs) /\ gs[i] = fs[j]
      BY <1>2, <2>2
    <3> HIDE DEF j
    <3>q. QED BY <1>3, <3>1 DEF Held
  <2>q. QED BY <2>1, <2>2
<1>q. QED BY <1>3 DEF Held, gs

(* One chunk more.                                                            *)
LEMMA Transform_Inv == ParserInv /\ (\E n \in 1..Len(rest) : Transform(n)) => ParserInv'
<1> SUFFICES ASSUME ParserInv, NEW n \in 1..Len(rest), Transform(n) PROVE ParserInv'
  OBVIOUS
<1> DEFINE w == Whole(sent)
           chunk == SubSeq(rest, 1, n)
           more == SubSeq(rest, n + 1, Len(rest))
           p == Start(chunk)
           r == AtEndOfChunk(Loop(p))
           y == Begun + n
<1>1. /\ ended = "no" /\ events' = events \o r.out /\ parser' = Saved(r)
      /\ ended' = (IF r.err THEN "failed" ELSE "no") /\ rest' = more /\ sent' = sent /\ part' = part /\ results' = results
  BY DEF Transform
<1>2. /\ sent \in Messages /\ rest \in Seq(Bytes) /\ HasAt(w, Begun, rest) /\ events \in Seq(Event)
      /\ Sound(sent, Got, FALSE) /\ Torn = FALSE
  BY <1>1 DEF ParserInv, Torn
<1>3. PICK b : /\ Leads(sent, events, Got, b, FALSE) /\ Held(events, parser.lookbehind)
               /\ parser \in ParserType /\ Stands(sent, parser, Begun, Begun, b)
  BY <1>1, <1>2 DEF ParserInv
<1>4. /\ Begun \in Nat /\ Len(rest) \in Nat /\ Len(w) \in Nat /\ n \in Nat /\ n <= Len(rest) /\ Begun + Len(rest) = Len(w)
      /\ Len(chunk) = n /\ chunk \in Seq(Bytes) /\ more \in Seq(Bytes) /\ Len(more) = Len(rest) - n
      /\ rest = chunk \o more
  <2>1. Begun \in Nat /\ Len(rest) \in Nat /\ Len(w) \in Nat /\ n \in Nat /\ n <= Len(rest) /\ Begun + Len(rest) = Len(w)
    BY BodyEnds
  <2> HIDE DEF w
  <2>2. Len(chunk) = n /\ chunk \in Seq(Bytes) /\ more \in Seq(Bytes) /\ Len(more) = Len(rest) - n
    BY <1>2, <2>1
  <2>3. SubSeq(rest, 1, Len(rest)) = rest
    BY <1>2, SMTT(60)
  <2>4. rest = chunk \o more
    <3> DEFINE l == Len(rest)
    <3>1. n \in Nat /\ l \in Nat /\ n <= l /\ l <= Len(rest)
      BY <2>1
    <3> HIDE DEF l
    <3>2. SubSeq(rest, 1, n) \o SubSeq(rest, n + 1, l) = SubSeq(rest, 1, l)
      BY <1>2, <3>1, SubSeqJoins
    <3>q. QED BY <2>3, <3>2 DEF l
  <2>q. QED BY <2>1, <2>2, <2>4
<1> HIDE DEF chunk, more
<1>5. HasAt(w, Begun, chunk) /\ HasAt(w, y, more)
  <2>1. w \in Seq(Bytes)
    BY <1>2, WholeIs
  <2> HIDE DEF w
  <2>2. HasAt(w, Begun, chunk \o more)
    BY <1>2, <1>4
  <2>q. QED BY <1>4, <2>1, <2>2, HasAtParts
<1>6. /\ p \in LoopType /\ p.i = 0 /\ p.out = <<>> /\ p.err = FALSE /\ p.chunk = chunk /\ p.lookbehind = parser.lookbehind
      /\ SameFields(p, parser)
  <2>1. /\ parser.index \in Int /\ parser.state \in States /\ parser.flags \in SUBSET {"PART", "LAST"}
        /\ parser.lookbehind \in Lookbehinds /\ parser.headerField \in Int /\ parser.headerValue \in Int
        /\ parser.partData \in Int
    BY <1>3 DEF ParserType
  <2>2. chunk \in Chunks /\ <<>> \in Pushed /\ FALSE \in BOOLEAN
    BY <1>4 DEF Chunks, Pushed
  <2>3. p \in LoopType
    BY <2>1, <2>2 DEF Start, LoopType
  <2>q. QED BY <2>3 DEF Start, SameFields, LeftWith, Marks
<1> HIDE DEF p
<1>7. Stands(sent, p, Begun, Begun, b)
  BY <1>3, <1>6, StandsAnywhere
<1>8. Sound(sent, b, FALSE)
  BY <1>2, <1>3, LeadsSound
<1>9. PICK l, c : Keeps(parser.lookbehind, l) /\ Leaves(sent, y, b, r, l, c)
  <2>1. ChunkAt(sent, p.chunk, Begun)
    BY <1>4, <1>5, <1>6 DEF ChunkAt
  <2>2. Begun + Len(p.chunk) = y
    BY <1>4, <1>6
  <2>q. QED BY <1>2, <1>6, <1>7, <1>8, <2>1, <2>2, ChunkIsRead
<1> HIDE DEF r
<1>10. /\ r \in LoopType /\ r.err = FALSE /\ r.lookbehind = l
       /\ Leads(sent, r.out, b, c, FALSE) /\ Held(r.out, l) /\ Stands(sent, r, y, y, c)
  BY <1>9 DEF Leaves
<1>11. /\ r.state \in States /\ r.index \in Int /\ r.flags \in SUBSET {"PART", "LAST"} /\ r.lookbehind \in Lookbehinds
       /\ r.headerField \in Int /\ r.headerValue \in Int /\ r.partData \in Int /\ r.out \in Seq(Event)
  BY <1>10, LoopFields DEF Pushed
<1>12. parser' \in ParserType /\ SameFields(parser', r) /\ parser'.lookbehind = l
  <2>1. Saved(r) \in ParserType
    BY <1>11 DEF Saved, ParserType
  <2>2. SameFields(Saved(r), r) /\ Saved(r).lookbehind = l
    BY <1>10 DEF Saved, SameFields, LeftWith, Marks
  <2>q. QED BY <1>1, <2>1, <2>2
<1>13. Stands(sent, parser', y, y, c)
  BY <1>10, <1>12, StandsAnywhere
<1>14. events' \in Seq(Event) /\ Leads(sent, events', Got, c, FALSE)
  BY <1>1, <1>2, <1>3, <1>10, <1>11, LeadsThrough
<1>15. Held(events', parser'.lookbehind)
  <2>1. Held(events, l)
    BY <1>3, <1>9, HeldKept
  <2>q. QED BY <1>1, <1>2, <1>10, <1>11, <1>12, <2>1, HeldBoth
<1>16. ended' = "no" /\ Got' = Got /\ Torn' = FALSE
  BY <1>1, <1>10 DEF Got, Torn
<1>17. Begun' = y
  <2>1. Whole(sent)' = w
    BY <1>1
  <2>2. Begun' = Len(w) - Len(more)
    BY <1>1, <2>1 DEF Begun
  <2>3. Len(w) - Len(more) = y
    <3> DEFINE g == Begun
               lw == Len(w)
               lr == Len(rest)
               lm == Len(more)
    <3>1. g \in Nat /\ lr \in Nat /\ n \in Nat /\ g + lr = lw /\ lm = lr - n
      BY <1>4
    <3> HIDE DEF g, lw, lr, lm
    <3>2. lw - lm = g + n
      BY <3>1
    <3>q. QED BY <3>2 DEF g, lw, lm
  <2>q. QED BY <2>2, <2>3
<1>18. HasAt(Whole(sent'), Begun', rest') /\ rest' \in Seq(Bytes)
  BY <1>1, <1>4, <1>5, <1>17
<1>19. \E d : /\ Leads(sent', events', Got', d, Torn') /\ Held(events', parser'.lookbehind)
              /\ parser' \in ParserType /\ Stands(sent', parser', Begun', Begun', d)
  BY <1>1, <1>12, <1>13, <1>14, <1>15, <1>16, <1>17
<1>q. QED BY <1>1, <1>2, <1>14, <1>16, <1>18, <1>19 DEF ParserInv

(* The two events of a body that ends behind a delimiter.                     *)
LEMMA ClosingEvents ==
  ASSUME NEW es \in Seq(Event), NEW l, Held(es, l)
  PROVE  /\ es \o PushBoth("partEnd", "end") = Append(Append(es, Mark("partEnd")), Mark("end"))
         /\ Held(Append(Append(es, Mark("partEnd")), Mark("end")), l)
<1> DEFINE e == Mark("partEnd")
           o == Mark("end")
<1>1. e \in Event /\ o \in Event /\ e.from # "lookbehind" /\ o.from # "lookbehind"
  BY MarkIs DEF EventNames
<1>2. PushBoth("partEnd", "end") = <<e, o>>
  BY DEF PushBoth, Mark
<1> HIDE DEF e, o
<1>3. es \o <<e, o>> = Append(Append(es, e), o)
  BY <1>1
<1>4. Append(es, e) \in Seq(Event) /\ Held(Append(es, e), l)
  BY <1>1, HeldOn
<1>5. Held(Append(Append(es, e), o), l)
  BY <1>1, <1>4, HeldOn
<1>q. QED BY <1>2, <1>3, <1>5 DEF e, o

(* Behind a delimiter they make the part complete, or an empty one.           *)
LEMMA ClosesWithinData ==
  ASSUME ParserInv, NEW b, Stands(sent, parser, Begun, Begun, b), EndsWithinData
  PROVE  LET c == After(b, Mark("partEnd")) IN
         Sound(sent, c, TRUE) /\ Sound(sent, After(c, Mark("end")), TRUE)
<1> DEFINE e == Mark("partEnd")
           o == Mark("end")
           l == BoundaryLength
<1>1. sent \in Messages /\ l \in Nat /\ l >= 4
  BY BoundaryIs DEF ParserInv
<1>2. e.name = "partEnd" /\ o.name = "end"
  BY DEF Mark
<1> HIDE DEF e, o, l
<1>3. /\ ~InFirstDelimiter(sent, parser, Begun, b) /\ ~AtTheEnd(sent, parser, Begun, b)
  BY DEF EndsWithinData, InFirstDelimiter, AtTheEnd
<1>4. PICK k \in 1..Len(sent) : InPart(sent, k, parser, Begun, Begun, b)
  BY <1>3 DEF Stands
<1>5. CASE parser.state = "HEADER_FIELD_START" /\ parser.index = 0
  <2>1. PICK h : AtField(sent, k, h, parser, Begun, b)
    BY <1>4, <1>5 DEF InPart, InHeaders, InField, BeforeValue, InValue, BehindValue, BehindHeaders, InData, InLead,
                      BehindDelimiter
  <2>2. h = 1 /\ b = View(sent, k, h - 1, <<>>, <<>>, 0)
    BY <1>5, <2>1 DEF AtField
  <2>3. b = View(sent, k, 0, <<>>, <<>>, 0)
    BY <2>2
  <2>q. QED BY <1>1, <1>2, <2>3, TornView DEF e, o
<1>6. CASE parser.state = "PART_DATA" /\ parser.index = l
  <2>1. InLead(sent, k, parser, Begun, b)
    <3>1. ~BehindHeaders(sent, k, parser, Begun, b) /\ ~InHeaders(sent, k, parser, Begun, Begun, b)
      BY <1>6 DEF InHeaders, AtField, InField, BeforeValue, InValue, BehindValue, BehindHeaders
    <3>2. ~InData(sent, k, parser, Begun, Begun, b)
      BY <1>1, <1>6 DEF InData
    <3>3. ~BehindDelimiter(sent, k, parser, Begun, b)
      <4>1. parser.index # BoundaryLength + 1
        BY <1>1, <1>6 DEF l
      <4>q. QED BY <4>1 DEF BehindDelimiter
    <3>q. QED BY <1>4, <3>1, <3>2, <3>3 DEF InPart
  <2> DEFINE from == Begun - parser.index
             u == DataAt(sent, k)
             d == DelimiterAt(sent, k + 1)
  <2>2. /\ from \in u..d /\ \A j \in 1..l : Whole(sent)[from + j] = Boundary[j]
        /\ b = DataView(sent, k, from - u)
    BY <1>6, <2>1 DEF InLead
  <2>3. u \in Nat /\ d = u + Len(sent[k].data) /\ PartFits(sent[k])
    BY <1>1, PlacesOfPart
  <2>4. Len(sent[k].data) \in Nat
    BY <2>3 DEF PartFits
  <2> HIDE DEF from, u, d
  <2>5. from \in Nat /\ u <= from /\ from <= d
    BY <2>2, <2>3, <2>4
  <2>6. from = d
    <3>1. l \in 1..BoundaryLength /\ ~(l < BoundaryLength)
      BY <1>1 DEF l
    <3>q. QED BY <1>1, <2>2, <2>5, <3>1, NoOther DEF u, d
  <2>7. b = View(sent, k, Len(sent[k].headers), <<>>, <<>>, Len(sent[k].data))
    <3>1. from - u = Len(sent[k].data)
      BY <2>3, <2>4, <2>6
    <3>q. QED BY <2>2, <3>1 DEF DataView
  <2> DEFINE c == After(b, e)
  <2>8. c.results = SubSeq(sent, 1, k) /\ Sound(sent, c, TRUE)
    <3> DEFINE v == View(sent, k, Len(sent[k].headers), <<>>, <<>>, Len(sent[k].data))
    <3>1. /\ After(v, e) = [part |-> v.part, results |-> SubSeq(sent, 1, k), over |-> FALSE]
          /\ Sound(sent, After(v, e), TRUE)
      BY <1>1, <1>2, EndView
    <3>2. b = v
      BY <2>7
    <3> HIDE DEF v
    <3>3. c = [part |-> v.part, results |-> SubSeq(sent, 1, k), over |-> FALSE] /\ Sound(sent, c, TRUE)
      BY <3>1, <3>2
    <3> HIDE DEF c
    <3>q. QED BY <3>3
  <2> HIDE DEF c
  <2>9. After(c, o).results = SubSeq(sent, 1, k)
    BY <1>2, <2>8 DEF After
  <2>10. k \in 0..Len(sent)
    BY <1>1, PartIs
  <2>11. Sound(sent, After(c, o), TRUE)
    BY <1>1, <2>9, <2>10, PrefixSound
  <2>q. QED BY <2>8, <2>11 DEF c, e, o
<1>q. QED BY <1>5, <1>6 DEF EndsWithinData, l

(* The body ends.                                                             *)
LEMMA Flush_Inv == ParserInv /\ Flush => ParserInv'
<1> SUFFICES ASSUME ParserInv, Flush PROVE ParserInv'
  OBVIOUS
<1>1. /\ ended = "no" /\ sent' = sent /\ rest' = rest /\ parser' = parser /\ part' = part /\ results' = results
      /\ events' = IF EndsWithinData THEN events \o PushBoth("partEnd", "end") ELSE events
      /\ ended' = IF EndsWithinData \/ parser.state = "END" THEN "flushed" ELSE "refused"
  BY DEF Flush
<1>2. /\ sent \in Messages /\ rest \in Seq(Bytes) /\ HasAt(Whole(sent), Begun, rest) /\ events \in Seq(Event)
      /\ Sound(sent, Got, FALSE)
  BY <1>1 DEF ParserInv, Torn
<1>3. PICK b : /\ Leads(sent, events, Got, b, FALSE) /\ Held(events, parser.lookbehind)
               /\ parser \in ParserType /\ Stands(sent, parser, Begun, Begun, b)
  BY <1>1, <1>2 DEF ParserInv, Torn
<1>4. parser.state # "END" => rest # <<>>
  <2>1. Begun \in Nat
    BY BodyEnds
  <2>2. parser.state # "END" => Begun < Len(Whole(sent))
    BY <1>2, <1>3, <2>1, Inside
  <2>q. QED BY <2>2, BodyEnds
<1>5. /\ Got' = Got /\ Begun' = Begun /\ HasAt(Whole(sent'), Begun', rest') /\ ended' \in {"flushed", "refused"}
      /\ Torn' = (ended' = "flushed" /\ rest # <<>>)
  <2>1. ended' \in {"flushed", "refused"}
    BY <1>1
  <2>2. Got' = Got
    BY <1>1, <2>1 DEF Got
  <2>3. Begun' = Begun
    BY <1>1 DEF Begun
  <2>4. Torn' = (ended' = "flushed" /\ rest # <<>>)
    BY <1>1, <2>1 DEF Torn
  <2>q. QED BY <1>1, <1>2, <2>1, <2>2, <2>3, <2>4
<1>6. CASE EndsWithinData
  <2> DEFINE e == Mark("partEnd")
             o == Mark("end")
             c == After(b, e)
             d == After(c, o)
  <2>1. parser.state # "END" /\ rest # <<>> /\ ended' = "flushed" /\ Torn' = TRUE
    BY <1>1, <1>4, <1>5, <1>6 DEF EndsWithinData
  <2>2. e \in Event /\ o \in Event
    BY MarkIs DEF EventNames
  <2>3. Sound(sent, c, TRUE) /\ Sound(sent, d, TRUE)
    BY <1>3, <1>6, ClosesWithinData
  <2>4. events' = Append(Append(events, e), o) /\ Held(events', parser.lookbehind)
    BY <1>1, <1>2, <1>3, <1>6, ClosingEvents
  <2> HIDE DEF e, o
  <2>5. Leads(sent, events, Got, b, TRUE) /\ Sound(sent, Got, TRUE)
    BY <1>2, <1>3, LeadsTorn, SoundTorn
  <2>6. Append(events, e) \in Seq(Event) /\ Leads(sent, Append(events, e), Got, c, TRUE)
    BY <1>2, <2>2, <2>3, <2>5, LeadsOn
  <2> HIDE DEF c
  <2>7. events' \in Seq(Event) /\ Leads(sent, events', Got, d, TRUE)
    BY <2>2, <2>3, <2>4, <2>6, LeadsOn
  <2>q. QED BY <1>1, <1>2, <1>5, <2>1, <2>4, <2>5, <2>7 DEF ParserInv
<1>7. CASE ~EndsWithinData /\ parser.state = "END"
  <2>1. ended' = "flushed" /\ events' = events /\ Torn' \in BOOLEAN
    BY <1>1, <1>5, <1>7
  <2>2. Leads(sent, events, Got, b, Torn') /\ Sound(sent, Got, Torn')
    <3>1. Leads(sent, events, Got, b, Torn')
      BY <1>3, <2>1, LeadsTorn
    <3>q. QED BY <3>1, <1>2, LeadsSound
  <2>q. QED BY <1>1, <1>2, <1>3, <1>5, <2>1, <2>2 DEF ParserInv
<1>8. CASE ~EndsWithinData /\ parser.state # "END"
  <2>1. ended' = "refused" /\ events' = events /\ Torn' = FALSE /\ rest' # <<>>
    BY <1>1, <1>4, <1>5, <1>8
  <2>q. QED BY <1>1, <1>2, <1>5, <2>1 DEF ParserInv
<1>q. QED BY <1>6, <1>7, <1>8

(* The invariant is enough. *)
LEMMA ParserInv_PartsAsSent == ParserInv => PartsAsSent
<1> SUFFICES ASSUME ParserInv PROVE PartsAsSent
  OBVIOUS
<1>1. /\ Sound(sent, Got, Torn) /\ ended \in {"no", "flushed", "done", "refused"}
      /\ ended = "refused" => rest # <<>>
  BY DEF ParserInv
<1>2. Got.results = results /\ Got.over = (ended = "done")
  BY DEF Got
<1> HIDE DEF Got
<1>3. \/ IsPrefix(results, sent)
      \/ Torn /\ Last(results) = EmptyPart /\ IsPrefix(Front(results), sent)
  BY <1>1, <1>2 DEF Sound
<1>4. ended = "done" /\ rest = <<>> => results = sent
  BY <1>1, <1>2 DEF Sound, Torn
<1>q. QED BY <1>1, <1>3, <1>4 DEF PartsAsSent, Torn

(* What an event refers to is what it had when it was pushed.                 *)
LEMMA Resolves ==
  ASSUME NEW es \in Seq(Event), es # <<>>, Held(es, parser.lookbehind)
  PROVE  Resolve(Head(es)) = Head(es).data
<1> DEFINE e == es[1]
           l == parser.lookbehind
<1>1. Head(es) = e /\ 1 \in 1..Len(es)
  OBVIOUS
<1>2. CASE e.from = "lookbehind"
  <2>1. PICK n \in 0..BoundaryLength : e.data = [j \in 1..n |-> Boundary[j]] /\ Remembered(l, n)
    BY <1>1, <1>2 DEF Held
  <2>2. n \in Nat
    BY <2>1, BoundaryIs
  <2> HIDE DEF e, l
  <2>3. \A i \in 1..n : l[i - 1] = Boundary[i]
    <3> TAKE i \in 1..n
    <3> DEFINE j == i - 1
    <3>1. j \in 0..n - 1 /\ j + 1 = i
      BY <2>2
    <3> HIDE DEF j
    <3>2. l[j] = Boundary[j + 1]
      BY <2>1, <3>1 DEF Remembered
    <3>q. QED BY <3>1, <3>2 DEF j
  <2>4. DOMAIN e.data = 1..n
    BY <2>1
  <2>5. [i \in 1..n |-> l[i - 1]] = [i \in 1..n |-> Boundary[i]]
    BY <2>3
  <2>6. Resolve(e) = [i \in 1..n |-> l[i - 1]]
    BY <1>2, <2>4 DEF Resolve, l
  <2>q. QED BY <1>1, <2>1, <2>5, <2>6
<1>3. CASE e.from # "lookbehind"
  BY <1>1, <1>3 DEF Resolve
<1>q. QED BY <1>2, <1>3

(* Without the first event, the others are still held. *)
LEMMA HeldBehind ==
  ASSUME NEW es \in Seq(Event), es # <<>>, NEW l, Held(es, l)
  PROVE  Held(Tail(es), l)
<1> DEFINE ts == Tail(es)
<1>1. Len(es) \in Nat /\ Len(ts) = Len(es) - 1 /\ \A i \in 1..Len(ts) : ts[i] = es[i + 1] /\ i + 1 \in 1..Len(es)
  OBVIOUS
<1> HIDE DEF ts
<1>2. ASSUME NEW i \in 1..Len(ts), ts[i].from = "lookbehind"
      PROVE  \E n \in 0..BoundaryLength : ts[i].data = [j \in 1..n |-> Boundary[j]] /\ Remembered(l, n)
  <2> DEFINE j == i + 1
  <2>1. j \in 1..Len(es) /\ ts[i] = es[j]
    BY <1>1
  <2> HIDE DEF j
  <2>q. QED BY <1>2, <2>1 DEF Held
<1>q. QED BY <1>2 DEF Held, ts

(* The second transform takes an event.                                       *)
LEMMA Consume_Inv == ParserInv /\ Consume => ParserInv'
<1> SUFFICES ASSUME ParserInv, Consume PROVE ParserInv'
  OBVIOUS
<1> DEFINE e == Head(events)
<1>1. /\ ended \in {"no", "flushed"} /\ events # <<>> /\ events' = Tail(events)
      /\ part' = Absorb(e) /\ ended' = (IF e.name = "end" THEN "done" ELSE ended)
      /\ results' = IF e.name = "partEnd" THEN Append(results, [headers |-> part.headers, data |-> part.data]) ELSE results
  BY DEF Consume
<1>2. sent' = sent /\ rest' = rest /\ parser' = parser
  BY DEF Consume
<1>3. /\ sent \in Messages /\ rest \in Seq(Bytes) /\ HasAt(Whole(sent), Begun, rest) /\ events \in Seq(Event)
      /\ Sound(sent, Got, Torn)
  BY DEF ParserInv
<1>4. PICK b : /\ Leads(sent, events, Got, b, Torn) /\ Held(events, parser.lookbehind)
               /\ ended = "no" => parser \in ParserType /\ Stands(sent, parser, Begun, Begun, b)
  BY <1>1 DEF ParserInv
<1>5. e \in Event /\ events' \in Seq(Event) /\ Leads(sent, events', After(Got, e), b, Torn)
  BY <1>1, <1>3, <1>4, LeadsFrom
<1>6. Held(events', parser.lookbehind) /\ Resolve(e) = e.data
  BY <1>1, <1>3, <1>4, HeldBehind, Resolves
<1> HIDE DEF e
<1>7. Got' = After(Got, e)
  <2>1. part' = After(Got, e).part
    BY <1>1, <1>6 DEF Absorb, After, Got
  <2>2. results' = After(Got, e).results
    BY <1>1 DEF After, Got
  <2>3. (ended' = "done") = After(Got, e).over
    BY <1>1 DEF After, Got
  <2>4. After(Got, e) = [part |-> After(Got, e).part, results |-> After(Got, e).results, over |-> After(Got, e).over]
    BY DEF After
  <2>q. QED BY <2>1, <2>2, <2>3, <2>4 DEF Got
<1>8. Sound(sent, Got', Torn) /\ Begun' = Begun
  BY <1>2, <1>5, <1>7, LeadsSound DEF Begun
<1>9. CASE ended' = "done"
  <2>1. Sound(sent, Got', Torn')
    <3>1. CASE rest = <<>>
      BY <1>2, <1>8, <3>1 DEF Torn
    <3>2. CASE rest # <<>>
      <4>1. Torn' = TRUE
        BY <1>2, <1>9, <3>2 DEF Torn
      <4>2. Torn = TRUE \/ Torn = FALSE
        BY DEF Torn
      <4>q. QED BY <1>8, <4>1, <4>2, SoundTorn
    <3>q. QED BY <3>1, <3>2
  <2>q. QED BY <1>2, <1>3, <1>5, <1>8, <1>9, <2>1 DEF ParserInv
<1>10. CASE ended' # "done"
  <2>1. ended' = ended /\ Torn' = Torn
    BY <1>1, <1>2, <1>10 DEF Torn
  <2>2. \E c : /\ Leads(sent', events', Got', c, Torn') /\ Held(events', parser'.lookbehind)
               /\ ended' = "no" => parser' \in ParserType /\ Stands(sent', parser', Begun', Begun', c)
    BY <1>2, <1>4, <1>5, <1>6, <1>7, <1>8, <2>1
  <2>q. QED BY <1>1, <1>2, <1>3, <1>5, <1>8, <2>1, <2>2 DEF ParserInv
<1>q. QED BY <1>9, <1>10

(* Wherever the body is cut into chunks, and however late the second transform takes the events
   that refer to the lookbehind buffer, the parts come out as they were sent; of a body that
   ends early the whole ones, and after a delimiter an empty one; and a body that arrives
   whole is not refused. *)
THEOREM PartsComeAsSent == ParserSpec => []PartsAsSent
<1>1. ParserInit => ParserInv
  BY ParserInit_Inv
<1>2. ParserInv /\ [ParserNext]_parserVars => ParserInv'
  <2> SUFFICES ASSUME ParserInv, [ParserNext]_parserVars PROVE ParserInv'
    OBVIOUS
  <2>1. CASE \E n \in 1..Len(rest) : Transform(n)
    BY <2>1, Transform_Inv
  <2>2. CASE Flush
    BY <2>2, Flush_Inv
  <2>3. CASE Consume
    BY <2>3, Consume_Inv
  <2>4. CASE UNCHANGED parserVars
    BY <2>4 DEF ParserInv, parserVars, Got, Torn, Begun
  <2>q. QED BY <2>1, <2>2, <2>3, <2>4 DEF ParserNext
<1>q. QED BY <1>1, <1>2, ParserInv_PartsAsSent, PTL DEF ParserSpec
=============================================================================
