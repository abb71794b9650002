---------------------------- MODULE StreamsProofs ----------------------------
(***************************************************************************)
(* What Streams promises of a live reader and of the pages of a stream,    *)
(* for any number of writers, readers and pumps and without the bounds.    *)
(***************************************************************************)
EXTENDS Streams, TLAPS, FiniteSetTheorems, SequenceTheorems

-----------------------------------------------------------------------------
(* Sets of rows and the order in which a store lists them *)

Listable(S) ==
  /\ IsFiniteSet(S) /\ S \subseteq Row
  /\ \A c, d \in S : c.at = d.at => c = d

Upto(S, c) == {d \in S : d = c \/ Before(d, c)}

(* Rows that were stored at different moments are put in a total order.    *)
LEMMA Total ==
  ASSUME NEW S, Listable(S), NEW c \in S, NEW d \in S
  PROVE  /\ c = d \/ Before(c, d) \/ Before(d, c)
         /\ ~(Before(c, d) /\ Before(d, c))
         /\ ~Before(c, c)
         /\ \A e \in S : Before(c, d) /\ Before(d, e) => Before(c, e)
<1>1. /\ c \in Row /\ d \in Row /\ \A e \in S : e \in Row
      /\ c.at = d.at => c = d
  BY DEF Listable
<1> QED BY <1>1 DEF Before, Row

(* A part of a listable set is one too.                                    *)
LEMMA PartListable ==
  ASSUME NEW S, Listable(S), NEW T, T \subseteq S
  PROVE  Listable(T)
BY FS_Subset DEF Listable

LEMMA PlaceCounts ==
  ASSUME NEW S, Listable(S), NEW c \in S
  PROVE  /\ IsFiniteSet(Upto(S, c)) /\ Place(S, c) = Cardinality(Upto(S, c))
         /\ Place(S, c) \in 1..Cardinality(S)
<1>1. Upto(S, c) \in SUBSET S /\ c \in Upto(S, c) /\ IsFiniteSet(S)
  BY DEF Upto, Listable
<1>2. IsFiniteSet(Upto(S, c)) /\ Cardinality(Upto(S, c)) <= Cardinality(S)
  BY <1>1, FS_Subset
<1>3. Cardinality(Upto(S, c)) # 0
  BY <1>1, <1>2, FS_EmptySet
<1>4. Place(S, c) = Cardinality(Upto(S, c))
  BY DEF Place, Upto
<1>5. Cardinality(Upto(S, c)) \in Nat /\ Cardinality(S) \in Nat
  BY <1>1, <1>2, FS_CardinalityType
<1> QED BY <1>2, <1>3, <1>4, <1>5

(* What comes before has the lower place.                                  *)
LEMMA PlaceOrders ==
  ASSUME NEW S, Listable(S), NEW c \in S, NEW d \in S, Before(c, d)
  PROVE  Place(S, c) < Place(S, d)
<1>1. Upto(S, c) \subseteq Upto(S, d)
  BY Total DEF Upto
<1>2. d \in Upto(S, d) /\ d \notin Upto(S, c)
  BY Total DEF Upto
<1>3. /\ IsFiniteSet(Upto(S, d))
      /\ Place(S, c) = Cardinality(Upto(S, c)) /\ Place(S, d) = Cardinality(Upto(S, d))
      /\ Place(S, c) \in Nat /\ Place(S, d) \in Nat
  BY PlaceCounts, FS_CardinalityType
<1>4. /\ Cardinality(Upto(S, c)) <= Cardinality(Upto(S, d))
      /\ Cardinality(Upto(S, c)) # Cardinality(Upto(S, d))
  BY <1>1, <1>2, <1>3, FS_Subset
<1> QED BY <1>3, <1>4

LEMMA PlaceDistinct ==
  ASSUME NEW S, Listable(S), NEW c \in S, NEW d \in S, Place(S, c) = Place(S, d)
  PROVE  c = d
<1>1. Place(S, c) \in Nat
  BY PlaceCounts, FS_CardinalityType
<1> QED BY <1>1, Total, PlaceOrders

(* Every place is taken: as many places as rows, and no two rows in one.   *)
LEMMA PlaceTaken ==
  ASSUME NEW S, Listable(S), NEW k \in 1..Cardinality(S)
  PROVE  \E c \in S : Place(S, c) = k
<1> DEFINE f == [c \in S |-> Place(S, c)]
           n == Cardinality(S)
<1>1. IsFiniteSet(S) /\ n \in Nat
  BY FS_CardinalityType DEF Listable
<1>2. f \in [S -> 1..n]
  BY PlaceCounts
<1>3. f \in Injection(S, 1..n)
  BY <1>2, PlaceDistinct DEF Injection, IsInjective
<1>4. IsFiniteSet(1..n) /\ Cardinality(1..n) = n
  BY <1>1, FS_Interval
<1>5. f \in Surjection(S, 1..n)
  BY <1>1, <1>3, <1>4, FS_Injection
<1> QED BY <1>5 DEF Surjection

(* InOrder lists every row once, each at its place.                        *)
LEMMA Listing ==
  ASSUME NEW S, Listable(S)
  PROVE  /\ InOrder(S) \in Seq(S) /\ Len(InOrder(S)) = Cardinality(S)
         /\ \A k \in 1..Cardinality(S) : /\ InOrder(S)[k] \in S
                                         /\ Place(S, InOrder(S)[k]) = k
         /\ \A c \in S : InOrder(S)[Place(S, c)] = c
<1>1. \A k \in 1..Cardinality(S) : /\ InOrder(S)[k] \in S
                                   /\ Place(S, InOrder(S)[k]) = k
  BY PlaceTaken DEF InOrder
<1>2. \A c \in S : InOrder(S)[Place(S, c)] = c
  BY <1>1, PlaceCounts, PlaceDistinct
<1>3. Cardinality(S) \in Nat
  BY FS_CardinalityType DEF Listable
<1>4. InOrder(S) \in Seq(S) /\ Len(InOrder(S)) = Cardinality(S)
  <2>1. InOrder(S) = [k \in 1..Cardinality(S) |-> InOrder(S)[k]]
    BY DEF InOrder
  <2>2. InOrder(S) \in [1..Cardinality(S) -> S]
    BY <1>1, <2>1
  <2> QED BY <1>3, <2>2
<1> QED BY <1>1, <1>2, <1>4

(* The stamps of a set of rows: one for each row, and no two the same.     *)
LEMMA Stamping ==
  ASSUME NEW S, Listable(S)
  PROVE  /\ Stamps(S) \in Seq(Nat) /\ Len(Stamps(S)) = Cardinality(S)
         /\ IsInjective(Stamps(S))
         /\ \A k \in 1..Cardinality(S) : \E c \in S : Stamps(S)[k] = c.at
         /\ \A c \in S : \E k \in 1..Cardinality(S) : Stamps(S)[k] = c.at
<1>1. Cardinality(S) \in Nat /\ S \subseteq Row
  BY FS_CardinalityType DEF Listable
<1>2. \A k \in 1..Cardinality(S) : /\ InOrder(S)[k] \in S
                                   /\ Stamps(S)[k] = InOrder(S)[k].at
                                   /\ Stamps(S)[k] \in Nat
  BY <1>1, Listing DEF Stamps, Row
<1>3. Stamps(S) \in [1..Cardinality(S) -> Nat] /\ DOMAIN Stamps(S) = 1..Cardinality(S)
  <2>1. Stamps(S) = [k \in 1..Cardinality(S) |-> Stamps(S)[k]]
    BY DEF Stamps
  <2> QED BY <1>2, <2>1
<1>4. Stamps(S) \in Seq(Nat) /\ Len(Stamps(S)) = Cardinality(S)
  BY <1>1, <1>3
<1>5. IsInjective(Stamps(S))
  <2> SUFFICES ASSUME NEW i \in 1..Cardinality(S), NEW j \in 1..Cardinality(S),
                      Stamps(S)[i] = Stamps(S)[j]
               PROVE  i = j
    BY <1>3 DEF IsInjective
  <2>1. InOrder(S)[i] = InOrder(S)[j]
    BY <1>2 DEF Listable
  <2>2. Place(S, InOrder(S)[i]) = i /\ Place(S, InOrder(S)[j]) = j
    BY Listing
  <2> QED BY <2>1, <2>2
<1>6. \A c \in S : \E k \in 1..Cardinality(S) : Stamps(S)[k] = c.at
  BY <1>2, PlaceCounts, Listing
<1> QED BY <1>2, <1>4, <1>5, <1>6

(* Past is one beyond the highest index.                                   *)
LEMMA PastLast ==
  ASSUME NEW S, Listable(S), S # {}, NEW k \in Nat
  PROVE  \E c \in S : /\ Past(S, k) = c.idx + 1
                      /\ \A d \in S : d.idx <= c.idx
<1> DEFINE n == Cardinality(S)
           c == InOrder(S)[n]
<1>1. n \in Nat /\ n # 0
  BY FS_CardinalityType, FS_EmptySet DEF Listable
<1>2. c \in S /\ Place(S, c) = n /\ Last(InOrder(S)) = c
  BY <1>1, Listing DEF Last
<1>3. ASSUME NEW d \in S PROVE d.idx <= c.idx
  <2>1. ~Before(c, d)
    <3>1. Place(S, d) \in 1..n
      BY PlaceCounts
    <3>2. SUFFICES ASSUME Before(c, d) PROVE FALSE
      OBVIOUS
    <3>3. Place(S, c) < Place(S, d)
      BY <1>2, <3>2, PlaceOrders
    <3> QED BY <1>1, <1>2, <3>1, <3>3
  <2>2. c \in Row /\ d \in Row
    BY <1>2 DEF Listable
  <2> QED BY <2>1, <2>2 DEF Before, Row
<1> QED BY <1>2, <1>3 DEF Past

(* Rows that all come after those of A leave the places of A alone, and    *)
(* follow them.                                                            *)
LEMMA PlaceInUnion ==
  ASSUME NEW A, NEW B, Listable(A \union B),
         \A a \in A, b \in B : a.idx < b.idx
  PROVE  /\ Cardinality(A \union B) = Cardinality(A) + Cardinality(B)
         /\ \A a \in A : Place(A \union B, a) = Place(A, a)
         /\ \A b \in B : Place(A \union B, b) = Cardinality(A) + Place(B, b)
<1> DEFINE S == A \union B
<1>1. Listable(A) /\ Listable(B) /\ IsFiniteSet(A) /\ IsFiniteSet(B)
  BY PartListable DEF Listable
<1>2. \A a \in A, b \in B : Before(a, b) /\ ~Before(b, a) /\ a # b
  <2> TAKE a \in A, b \in B
  <2>1. a \in Row /\ b \in Row /\ a.idx < b.idx
    BY DEF Listable
  <2> QED BY <2>1 DEF Before, Row
<1>3. Cardinality(S) = Cardinality(A) + Cardinality(B)
  <2>1. A \cap B = {}
    BY <1>2
  <2>2. Cardinality(S) = Cardinality(A) + Cardinality(B) - Cardinality({})
    BY <1>1, <2>1, FS_Union
  <2>3. Cardinality({}) = 0 /\ Cardinality(A) \in Nat /\ Cardinality(B) \in Nat
    BY <1>1, FS_EmptySet, FS_CardinalityType
  <2> QED BY <2>2, <2>3
<1>4. ASSUME NEW a \in A PROVE Place(S, a) = Place(A, a)
  <2>1. Upto(S, a) = Upto(A, a)
    BY <1>2 DEF Upto
  <2> QED BY <1>1, <2>1, PlaceCounts
<1>5. ASSUME NEW b \in B PROVE Place(S, b) = Cardinality(A) + Place(B, b)
  <2>1. Upto(S, b) = A \union Upto(B, b)
    BY <1>2 DEF Upto
  <2>2. A \cap Upto(B, b) = {}
    BY <1>2 DEF Upto
  <2>3. IsFiniteSet(Upto(B, b)) /\ Place(B, b) = Cardinality(Upto(B, b))
        /\ Place(S, b) = Cardinality(Upto(S, b))
    BY <1>1, PlaceCounts
  <2>4. Cardinality(Upto(S, b)) = Cardinality(A) + Cardinality(Upto(B, b))
    <3>1. Cardinality(A \union Upto(B, b)) =
            Cardinality(A) + Cardinality(Upto(B, b)) - Cardinality({})
      BY <1>1, <2>2, <2>3, FS_Union
    <3>2. Cardinality({}) = 0 /\ Cardinality(A) \in Nat /\ Cardinality(Upto(B, b)) \in Nat
      BY <1>1, <2>3, FS_EmptySet, FS_CardinalityType
    <3>3. Cardinality(A \union Upto(B, b)) = Cardinality(A) + Cardinality(Upto(B, b))
      BY <3>1, <3>2
    <3> QED BY <2>1, <3>3
  <2> QED BY <2>3, <2>4
<1> QED BY <1>3, <1>4, <1>5

(* The stamps of a set of rows, and then those of rows that come later.    *)
LEMMA StampsConcat ==
  ASSUME NEW A, NEW B, Listable(A \union B),
         \A a \in A, b \in B : a.idx < b.idx
  PROVE  Stamps(A \union B) = Stamps(A) \o Stamps(B)
<1> DEFINE S == A \union B
           m == Cardinality(A)
           n == Cardinality(B)
<1>1. Listable(A) /\ Listable(B) /\ Listable(S)
  BY PartListable
<1>2. m \in Nat /\ n \in Nat /\ Cardinality(S) = m + n
  BY <1>1, PlaceInUnion, FS_CardinalityType DEF Listable
<1>3. ASSUME NEW k \in 1..m PROVE Stamps(S)[k] = Stamps(A)[k]
  <2>1. InOrder(A)[k] \in A /\ Place(A, InOrder(A)[k]) = k
    BY <1>1, Listing
  <2>2. Place(S, InOrder(A)[k]) = k
    BY <2>1, PlaceInUnion
  <2>3. InOrder(S)[k] = InOrder(A)[k]
    BY <1>1, <2>1, <2>2, Listing
  <2>4. k \in 1..Cardinality(S)
    BY <1>2
  <2> QED BY <2>3, <2>4 DEF Stamps
<1>4. ASSUME NEW k \in 1..n PROVE Stamps(S)[m + k] = Stamps(B)[k]
  <2>1. InOrder(B)[k] \in B /\ Place(B, InOrder(B)[k]) = k
    BY <1>1, Listing
  <2>2. Place(S, InOrder(B)[k]) = m + k
    BY <2>1, PlaceInUnion
  <2>3. InOrder(S)[m + k] = InOrder(B)[k]
    BY <1>1, <2>1, <2>2, Listing
  <2>4. m + k \in 1..Cardinality(S)
    BY <1>2
  <2> QED BY <2>3, <2>4 DEF Stamps
<1>5. /\ Stamps(A) \in Seq(Nat) /\ Len(Stamps(A)) = m
      /\ Stamps(B) \in Seq(Nat) /\ Len(Stamps(B)) = n
      /\ Stamps(S) \in Seq(Nat) /\ Len(Stamps(S)) = m + n
  BY <1>1, <1>2, Stamping
<1> HIDE DEF S, m, n
<1>6. /\ Stamps(A) \o Stamps(B) \in Seq(Nat)
      /\ Len(Stamps(A) \o Stamps(B)) = m + n
      /\ \A i \in 1..(m + n) : (Stamps(A) \o Stamps(B))[i] =
           IF i <= m THEN Stamps(A)[i] ELSE Stamps(B)[i - m]
  BY <1>5, ConcatProperties
<1>7. ASSUME NEW i \in 1..(m + n)
      PROVE  Stamps(S)[i] = (Stamps(A) \o Stamps(B))[i]
  <2>1. CASE i <= m
    BY <1>2, <1>3, <1>6, <2>1
  <2>2. CASE ~(i <= m)
    <3>1. i - m \in 1..n /\ m + (i - m) = i
      BY <1>2, <2>2
    <3> QED BY <1>4, <1>6, <2>2, <3>1
  <2> QED BY <2>1, <2>2
<1>8. Stamps(S) = Stamps(A) \o Stamps(B)
  BY <1>2, <1>5, <1>6, <1>7, SeqEqual
<1> QED BY <1>8 DEF S

LEMMA PrefixAt ==
  ASSUME NEW s \in Seq(Nat), NEW t \in Seq(Nat)
  PROVE  IsPrefix(s, t) <=> Len(s) <= Len(t) /\ \A i \in 1..Len(s) : s[i] = t[i]
<1>1. SUFFICES ASSUME Len(s) <= Len(t)
               PROVE  SubSeq(s, 1, Len(s)) = SubSeq(t, 1, Len(s))
                        <=> \A i \in 1..Len(s) : s[i] = t[i]
  BY DEF IsPrefix
<1> DEFINE m == Len(s)
<1>2. m \in Nat /\ Len(t) \in Nat
  OBVIOUS
<1>3. /\ SubSeq(s, 1, m) \in Seq(Nat) /\ Len(SubSeq(s, 1, m)) = m
      /\ \A i \in 1..m : SubSeq(s, 1, m)[i] = s[i]
  <2>1. \A i \in 1..m : s[i] \in Nat
    OBVIOUS
  <2> HIDE DEF m
  <2>2. /\ SubSeq(s, 1, m) \in Seq(Nat)
        /\ Len(SubSeq(s, 1, m)) = IF 1 <= m THEN m - 1 + 1 ELSE 0
        /\ \A i \in 1..(m - 1 + 1) : SubSeq(s, 1, m)[i] = s[1 + i - 1]
    BY <1>2, <2>1, SubSeqProperties
  <2> QED BY <1>2, <2>2
<1>4. /\ SubSeq(t, 1, m) \in Seq(Nat) /\ Len(SubSeq(t, 1, m)) = m
      /\ \A i \in 1..m : SubSeq(t, 1, m)[i] = t[i]
  <2>1. \A i \in 1..m : t[i] \in Nat
    BY <1>1
  <2> HIDE DEF m
  <2>2. /\ SubSeq(t, 1, m) \in Seq(Nat)
        /\ Len(SubSeq(t, 1, m)) = IF 1 <= m THEN m - 1 + 1 ELSE 0
        /\ \A i \in 1..(m - 1 + 1) : SubSeq(t, 1, m)[i] = t[1 + i - 1]
    BY <1>2, <2>1, SubSeqProperties
  <2> QED BY <1>2, <2>2
<1> HIDE DEF m
<1>5. SubSeq(s, 1, m) = SubSeq(t, 1, m) <=> \A i \in 1..m : s[i] = t[i]
  <2>1. ASSUME \A i \in 1..m : s[i] = t[i]
        PROVE  SubSeq(s, 1, m) = SubSeq(t, 1, m)
    BY <1>3, <1>4, <2>1, SeqEqual
  <2>2. ASSUME SubSeq(s, 1, m) = SubSeq(t, 1, m), NEW i \in 1..m
        PROVE  s[i] = t[i]
    BY <1>3, <1>4, <2>2
  <2> QED BY <2>1, <2>2
<1> QED BY <1>5 DEF m

(* A sequence is the beginning of itself with more behind it.              *)
LEMMA PrefixConcat ==
  ASSUME NEW s \in Seq(Nat), NEW t \in Seq(Nat)
  PROVE  IsPrefix(s, s \o t)
<1>1. /\ s \o t \in Seq(Nat) /\ Len(s \o t) = Len(s) + Len(t)
      /\ \A i \in 1..(Len(s) + Len(t)) :
           (s \o t)[i] = IF i <= Len(s) THEN s[i] ELSE t[i - Len(s)]
  BY ConcatProperties
<1>2. Len(s) \in Nat /\ Len(t) \in Nat
  OBVIOUS
<1>3. Len(s) <= Len(s \o t) /\ \A i \in 1..Len(s) : s[i] = (s \o t)[i]
  BY <1>1, <1>2
<1> QED BY <1>1, <1>3, PrefixAt

LEMMA PrefixTrans ==
  ASSUME NEW s \in Seq(Nat), NEW t \in Seq(Nat), NEW u \in Seq(Nat),
         IsPrefix(s, t), IsPrefix(t, u)
  PROVE  IsPrefix(s, u)
<1>1. /\ Len(s) <= Len(t) /\ \A i \in 1..Len(s) : s[i] = t[i]
      /\ Len(t) <= Len(u) /\ \A i \in 1..Len(t) : t[i] = u[i]
      /\ Len(s) \in Nat /\ Len(t) \in Nat /\ Len(u) \in Nat
  BY PrefixAt
<1>2. Len(s) <= Len(u) /\ \A i \in 1..Len(s) : s[i] = u[i]
  BY <1>1
<1> QED BY <1>2, PrefixAt

(* A prefix of a sequence, extended by what comes next in it.              *)
LEMMA PrefixExtend ==
  ASSUME NEW s \in Seq(Nat), NEW t \in Seq(Nat), NEW n \in Nat,
         IsPrefix(s, t), n <= Len(t)
  PROVE  /\ s \o SubSeq(t, Len(s) + 1, n) \in Seq(Nat)
         /\ IsPrefix(s \o SubSeq(t, Len(s) + 1, n), t)
<1> DEFINE m == Len(s)
           u == SubSeq(t, m + 1, n)
           v == s \o u
<1>1. /\ m \in Nat /\ Len(t) \in Nat /\ m <= Len(t)
      /\ \A i \in 1..m : s[i] = t[i]
      /\ \A i \in 1..Len(t) : t[i] \in Nat
  BY PrefixAt
<1> HIDE DEF m
<1>2. /\ u \in Seq(Nat)
      /\ Len(u) = IF n > m THEN n - m ELSE 0
      /\ \A i \in 1..(n - m) : u[i] = t[m + i]
  <2>1. \A i \in (m + 1)..n : t[i] \in Nat
    BY <1>1
  <2>2. /\ u \in Seq(Nat)
        /\ Len(u) = IF m + 1 <= n THEN n - (m + 1) + 1 ELSE 0
        /\ \A i \in 1..(n - (m + 1) + 1) : u[i] = t[m + 1 + i - 1]
    BY <1>1, <2>1, SubSeqProperties
  <2> QED BY <1>1, <2>2
<1> HIDE DEF u
<1>3. /\ v \in Seq(Nat) /\ Len(v) = m + Len(u)
      /\ \A i \in 1..(m + Len(u)) : v[i] = IF i <= m THEN s[i] ELSE u[i - m]
  BY <1>2, ConcatProperties DEF m
<1> HIDE DEF v
<1>4. Len(v) \in Nat /\ Len(v) <= Len(t)
  BY <1>1, <1>2, <1>3
<1>5. ASSUME NEW i \in 1..Len(v) PROVE v[i] = t[i]
  <2>1. CASE i <= m
    <3>1. i \in 1..m /\ i \in 1..(m + Len(u))
      BY <1>1, <1>3, <2>1
    <3> QED BY <1>1, <1>3, <2>1, <3>1
  <2>2. CASE ~(i <= m)
    <3>1. i - m \in 1..(n - m) /\ m + (i - m) = i
      BY <1>1, <1>2, <1>3, <2>2
    <3> QED BY <1>1, <1>2, <1>3, <2>2, <3>1
  <2> QED BY <2>1, <2>2
<1>6. IsPrefix(v, t)
  BY <1>3, <1>4, <1>5, PrefixAt
<1> QED BY <1>3, <1>6 DEF m, u, v

(* A prefix as long as the whole is the whole.                             *)
LEMMA PrefixFull ==
  ASSUME NEW s \in Seq(Nat), NEW t \in Seq(Nat), IsPrefix(s, t), Len(t) <= Len(s)
  PROVE  s = t
<1>1. /\ Len(s) \in Nat /\ Len(t) \in Nat /\ Len(s) <= Len(t)
      /\ \A i \in 1..Len(s) : s[i] = t[i]
  BY PrefixAt
<1> QED BY <1>1, SeqEqual

-----------------------------------------------------------------------------
(* The inductive invariant *)

Statuses == {"new", "open", "ended", "errored", "cancelled"}
Stages == {"idle", "load", "fetch", "deliver", "range", "enqueue", "flag", "tail", "drain"}

Writes == [stage : {"put"}, idx : Nat, left : 1..MaxBatch, last : BOOLEAN]
Readers == [status : Statuses, first : Nat, cursor : Nat, got : Seq(Nat), again : BOOLEAN]
Pumps == [stage : Stages, keys : SUBSET Nat, batch : SUBSET Row]
Pagers == [stage : {"idle", "range", "flag"}, total : Nat, got : Seq(Nat),
           more : BOOLEAN, done : BOOLEAN]

StoreTyped ==
  /\ world \in {"redirect", "kv", "sheets"} /\ world \in World
  /\ rows \subseteq Row /\ IsFiniteSet(rows)
  /\ done \in BOOLEAN /\ overlap \in BOOLEAN
  /\ stamp \in Nat /\ closedAt \in Nat /\ issued \in Nat /\ errors \in Nat

Typed ==
  /\ StoreTyped
  /\ writer \in [Writer -> {Idle} \union Writes]
  /\ reader \in [Reader -> Readers]
  /\ pump \in [Reader -> [Pump -> Pumps]]
  /\ pager \in Pagers

(* Redirect's writes are single commands and its close is a flag; the      *)
(* stages of a pump are those of its world.                                *)
WorldInv ==
  /\ ~Polled =>
       /\ ~overlap /\ \A w \in Writer : writer[w] = Idle
       /\ \A c \in rows : ~c.done
       /\ done <=> closedAt # 0
       /\ \A r \in Reader, p \in Pump :
            pump[r][p].stage \in {"idle", "range", "enqueue", "flag", "tail", "drain"}
  /\ Polled =>
       /\ \A r \in Reader, p \in Pump : pump[r][p].stage \in {"idle", "load", "fetch", "deliver"}
       /\ pager.stage = "idle"

(* No two rows were stored at the same moment, and no done row before the  *)
(* first close.                                                            *)
StampInv ==
  /\ \A c \in rows : 1 <= c.at /\ c.at <= stamp
  /\ \A c, d \in rows : c.at = d.at => c = d
  /\ closedAt <= stamp
  /\ \A c \in rows : c.done => closedAt # 0 /\ closedAt <= c.at

(* Without an overlap the rows have the indexes 0, 1, 2, ... in the order  *)
(* in which they were stored, and a write under way continues from there.  *)
OrderInv ==
  Orderly =>
    /\ \A c, d \in rows : c.idx < d.idx <=> c.at < d.at
    /\ \A c \in rows : c.idx < Cardinality(rows)
    /\ \A w \in Writer : writer[w] # Idle =>
         /\ writer[w].idx = Cardinality(rows)
         /\ \A v \in Writer : writer[v] # Idle => v = w

(* The rows a pump of r has read; a row that is not below the cursor has   *)
(* not been handed over, overlap or not.                                   *)
Read(r) == UNION {pump[r][p].batch : p \in Pump}

Handed(r) ==
    /\ reader[r].status = "new" =>
         reader[r].got = <<>> /\ \A p \in Pump : pump[r][p] = Asleep
    /\ \A p \in Pump : IsFiniteSet(pump[r][p].batch)
    /\ \A c \in Read(r) : 1 <= c.at /\ c.at <= stamp
    /\ \A c, d \in rows \union Read(r) : c.at = d.at => c = d
    /\ \A k \in DOMAIN reader[r].got : reader[r].got[k] <= stamp
    /\ Polled =>
         /\ IsInjective(reader[r].got)
         /\ \A c \in rows \union Read(r) : c.idx >= reader[r].cursor
              => \A k \in DOMAIN reader[r].got : reader[r].got[k] # c.at

HandedInv == \A r \in Reader : Handed(r)

(* Without an overlap a reader has been handed exactly the chunks from its *)
(* first index up to its cursor; once it has ended the chunks before the   *)
(* close are all below the cursor.                                         *)
Window(r) ==
  {c \in Chunks(rows) : reader[r].first <= c.idx /\ c.idx < reader[r].cursor}

UpToCursor(r) ==
  /\ reader[r].first <= reader[r].cursor
  /\ reader[r].cursor <= Cardinality(rows) \/ reader[r].cursor = reader[r].first
  /\ reader[r].got = Stamps(Window(r))
  /\ reader[r].status = "ended" =>
       /\ closedAt # 0
       /\ \A c \in After(Chunks(rows), reader[r].first) :
            c.at < closedAt => c.idx < reader[r].cursor

ReaderInv == Orderly => \A r \in Reader : UpToCursor(r)

(* ... and what a pump has read are rows of the stream, with no row left   *)
(* out between the cursor and a row it has read.                           *)
Batch(r, p) ==
    /\ pump[r][p].batch \subseteq rows
    /\ \A c \in pump[r][p].batch, d \in rows :
         reader[r].cursor <= d.idx /\ d.idx <= c.idx => d \in pump[r][p].batch
    /\ \A k \in pump[r][p].keys :
         /\ k < Cardinality(rows)
         /\ \A d \in rows : d.idx <= k => d.idx \in pump[r][p].keys

BatchInv == Orderly => \A r \in Reader, p \in Pump : Batch(r, p)

(* A redirect reader has one pump at a time, whose batch starts at the     *)
(* cursor; in the last one is every chunk stored before the close.         *)
OnePump(r, p) ==
    /\ \A q \in Pump : pump[r][p] # Asleep /\ pump[r][q] # Asleep => p = q
    /\ pump[r][p].stage = "idle" => pump[r][p] = Asleep
    /\ \A c \in pump[r][p].batch :
         /\ reader[r].cursor <= c.idx
         /\ c.idx < reader[r].cursor + Cardinality(pump[r][p].batch)
    /\ pump[r][p].stage \in {"tail", "drain"} => done
    /\ pump[r][p].stage = "drain" => \A c \in rows : c.at < closedAt
         => c.idx < reader[r].cursor + Cardinality(pump[r][p].batch)

RangeInv == ~Polled => \A r \in Reader, p \in Pump : OnePump(r, p)

(* The pages so far are the beginning of the stream, and a last page that  *)
(* says done came after the close.                                         *)
PagerInv ==
  Orderly =>
    /\ IsPrefix(pager.got, Stamps(Chunks(rows)))
    /\ Polled /\ pager.done /\ ~pager.more =>
         /\ closedAt # 0
         /\ \A c \in Chunks(rows) : c.at < closedAt
              => \E k \in DOMAIN pager.got : pager.got[k] = c.at

StreamInv ==
  /\ Typed /\ WorldInv /\ StampInv /\ OrderInv /\ HandedInv /\ ReaderInv
  /\ BatchInv /\ RangeInv /\ PagerInv

-----------------------------------------------------------------------------
(* Facts about a state that satisfies it *)

LEMMA RowsListable ==
  ASSUME StreamInv
  PROVE  /\ Listable(rows) /\ Listable(Chunks(rows))
         /\ \A r \in Reader, p \in Pump :
              /\ Listable(pump[r][p].batch)
              /\ pump[r][p].batch \subseteq Read(r)
<1>1. Listable(rows)
  BY DEF StreamInv, Typed, StoreTyped, StampInv, Listable
<1>2. Listable(Chunks(rows))
  BY <1>1, PartListable DEF Chunks
<1>3. ASSUME NEW r \in Reader, NEW p \in Pump
      PROVE  Listable(pump[r][p].batch) /\ pump[r][p].batch \subseteq Read(r)
  <2>1. pump[r][p].batch \subseteq Read(r)
    BY DEF Read
  <2>2. pump[r][p] \in Pumps
    BY DEF StreamInv, Typed
  <2>3. pump[r][p].batch \subseteq Row
    BY <2>2 DEF Pumps
  <2>4. IsFiniteSet(pump[r][p].batch) /\ \A c, d \in Read(r) : c.at = d.at => c = d
    BY DEF StreamInv, HandedInv, Handed
  <2> QED BY <2>1, <2>3, <2>4 DEF Listable
<1> QED BY <1>1, <1>2, <1>3

(* As many rows as indexes to have, and no two of the same: all are had.   *)
LEMMA Filled ==
  ASSUME NEW S, Listable(S), NEW a \in Nat,
         \A c, d \in S : c.idx = d.idx => c = d,
         \A c \in S : a <= c.idx /\ c.idx < a + Cardinality(S),
         NEW k \in Nat, a <= k, k < a + Cardinality(S)
  PROVE  \E c \in S : c.idx = k
<1> DEFINE n == Cardinality(S)
           T == a..(a + n - 1)
           f == [c \in S |-> c.idx]
<1>1. IsFiniteSet(S) /\ n \in Nat /\ S \subseteq Row
  BY FS_CardinalityType DEF Listable
<1>2. IsFiniteSet(T) /\ Cardinality(T) = n
  <2>1. a \in Int /\ a + n - 1 \in Int
    BY <1>1
  <2>2. IsFiniteSet(T) /\ Cardinality(T) = IF a > a + n - 1 THEN 0 ELSE (a + n - 1) - a + 1
    BY <2>1, FS_Interval
  <2> QED BY <1>1, <2>2
<1>3. f \in [S -> T]
  BY <1>1 DEF Row
<1>4. f \in Injection(S, T)
  BY <1>3 DEF Injection, IsInjective
<1>5. f \in Surjection(S, T)
  BY <1>1, <1>2, <1>4, FS_Injection
<1>6. k \in T
  BY <1>1
<1> QED BY <1>5, <1>6 DEF Surjection

LEMMA OrderlyRows ==
  ASSUME StreamInv, Orderly
  PROVE  /\ Cardinality(rows) \in Nat
         /\ \A c, d \in rows : c.idx = d.idx => c = d
         /\ \A k \in Nat : k < Cardinality(rows) => \E c \in rows : c.idx = k
         /\ NextIdx = Cardinality(rows)
<1> DEFINE n == Cardinality(rows)
<1>1. /\ Listable(rows) /\ IsFiniteSet(rows) /\ rows \subseteq Row
      /\ \A c, d \in rows : c.idx < d.idx <=> c.at < d.at
      /\ \A c \in rows : c.idx < n
  BY RowsListable DEF StreamInv, OrderInv, Listable
<1>2. n \in Nat
  BY <1>1, FS_CardinalityType
<1>3. \A c, d \in rows : c.idx = d.idx => c = d
  BY <1>1 DEF Listable, Row
<1>4. \A k \in Nat : k < n => \E c \in rows : c.idx = k
  <2>1. \A c \in rows : 0 <= c.idx /\ c.idx < 0 + n
    BY <1>1, <1>2 DEF Row
  <2> SUFFICES ASSUME NEW k \in Nat, k < n PROVE \E c \in rows : c.idx = k
    OBVIOUS
  <2>2. 0 \in Nat /\ 0 <= k /\ k < 0 + n
    BY <1>2
  <2> QED BY <1>1, <1>3, <2>1, <2>2, Filled
<1>5. NextIdx = n
  <2>1. CASE rows = {}
    BY <2>1, FS_EmptySet DEF NextIdx, Past
  <2>2. CASE rows # {}
    <3>1. PICK c \in rows : /\ Past(rows, 0) = c.idx + 1
                            /\ \A d \in rows : d.idx <= c.idx
      BY <1>1, <2>2, PastLast
    <3>2. c.idx \in Nat /\ c.idx < n
      BY <1>1 DEF Row
    <3>3. PICK d \in rows : d.idx = n - 1
      BY <1>2, <1>4, <3>2
    <3>4. n - 1 <= c.idx
      BY <3>1, <3>3
    <3> QED BY <1>2, <3>1, <3>2, <3>4 DEF NextIdx
  <2> QED BY <2>1, <2>2
<1> QED BY <1>2, <1>3, <1>4, <1>5

(* A reader is handed the chunks from its cursor up to k.                  *)
LEMMA WindowGrows ==
  ASSUME StreamInv, Orderly, NEW r \in Reader, NEW k \in Nat, NEW N,
         N \subseteq Chunks(rows),
         \A c \in N : reader[r].cursor <= c.idx /\ c.idx < k,
         \A c \in Chunks(rows) : reader[r].cursor <= c.idx /\ c.idx < k => c \in N,
         reader[r].cursor <= k
  PROVE  Stamps({c \in Chunks(rows) : reader[r].first <= c.idx /\ c.idx < k})
           = reader[r].got \o Stamps(N)
<1> DEFINE W == {c \in Chunks(rows) : reader[r].first <= c.idx /\ c.idx < k}
           A == Window(r)
<1>1. /\ Chunks(rows) \subseteq Row /\ Listable(Chunks(rows))
  BY RowsListable DEF Listable
<1>2. reader[r] \in Readers
  BY DEF StreamInv, Typed
<1>3. reader[r].first \in Nat /\ reader[r].cursor \in Nat
  BY <1>2 DEF Readers
<1>4. reader[r].first <= reader[r].cursor /\ reader[r].got = Stamps(A)
  BY DEF StreamInv, ReaderInv, UpToCursor
<1>5. \A c \in Chunks(rows) : c.idx \in Nat
  BY <1>1 DEF Row
<1>6. W = A \union N
  BY <1>3, <1>4, <1>5 DEF Window
<1>7. \A a \in A, b \in N : a.idx < b.idx
  BY <1>3, <1>5 DEF Window
<1>8. Listable(A \union N)
  BY <1>1, <1>6, PartListable
<1>9. Stamps(A \union N) = Stamps(A) \o Stamps(N)
  BY <1>7, <1>8, StampsConcat
<1> QED BY <1>4, <1>6, <1>9

-----------------------------------------------------------------------------
(* Steps of a reader that hand nothing over *)

(* What a pump may turn into when it has read, or has nothing more to do.  *)
Suits(r, p, v) ==
  /\ v.batch \subseteq rows
  /\ Orderly =>
       /\ \A c \in v.batch, d \in rows :
            reader[r].cursor <= d.idx /\ d.idx <= c.idx => d \in v.batch
       /\ \A k \in v.keys :
            /\ k < Cardinality(rows)
            /\ \A d \in rows : d.idx <= k => d.idx \in v.keys
  /\ Polled => v.stage \in {"idle", "load", "fetch", "deliver"}
  /\ ~Polled =>
       /\ v.stage \in {"idle", "range", "enqueue", "flag", "tail", "drain"}
       /\ v.stage = "idle" => v = Asleep
       /\ v # Asleep => \A q \in Pump : q # p => pump[r][q] = Asleep
       /\ \A c \in v.batch :
            reader[r].cursor <= c.idx /\ c.idx < reader[r].cursor + Cardinality(v.batch)
       /\ v.stage \in {"tail", "drain"} => done
       /\ v.stage = "drain" => \A c \in rows : c.at < closedAt
            => c.idx < reader[r].cursor + Cardinality(v.batch)

LEMMA AsleepSuits ==
  ASSUME NEW r, NEW p
  PROVE  Suits(r, p, Asleep)
<1>1. Asleep.batch = {} /\ Asleep.keys = {} /\ Asleep.stage = "idle"
  BY DEF Asleep
<1> QED BY <1>1 DEF Suits

(* A step of reader a and at most its pump b, that hands nothing over.     *)
Moves(a, b) ==
  /\ UNCHANGED <<world, store, overlap, issued, writer, pager>>
  /\ errors' \in Nat /\ reader' \in [Reader -> Readers]
  /\ pump' \in [Reader -> [Pump -> Pumps]]
  /\ reader[a].status # "new"
  /\ \A r \in Reader :
       /\ reader'[r].first = reader[r].first
       /\ reader'[r].cursor = reader[r].cursor
       /\ reader'[r].got = reader[r].got
       /\ \/ reader'[r].status = reader[r].status
          \/ reader'[r].status \in {"errored", "cancelled"}
  /\ \A r \in Reader, p \in Pump :
       pump'[r][p] = pump[r][p] \/ (r = a /\ p = b /\ Suits(r, p, pump'[r][p]))

LEMMA Moved ==
  ASSUME StreamInv, NEW a \in Reader, NEW b, Moves(a, b)
  PROVE  StreamInv'
<1>0. /\ rows' = rows /\ done' = done /\ stamp' = stamp /\ closedAt' = closedAt
      /\ world' = world /\ overlap' = overlap /\ writer' = writer /\ pager' = pager
      /\ issued' = issued
  BY DEF Moves, store
<1>00. /\ errors' \in Nat /\ reader' \in [Reader -> Readers]
       /\ pump' \in [Reader -> [Pump -> Pumps]]
       /\ reader[a].status # "new"
       /\ \A r \in Reader :
            /\ reader'[r].first = reader[r].first
            /\ reader'[r].cursor = reader[r].cursor
            /\ reader'[r].got = reader[r].got
            /\ \/ reader'[r].status = reader[r].status
               \/ reader'[r].status \in {"errored", "cancelled"}
       /\ \A r \in Reader, p \in Pump :
            pump'[r][p] = pump[r][p] \/ (r = a /\ p = b /\ Suits(r, p, pump'[r][p]))
  BY DEF Moves
<1> USE <1>0, <1>00
<1>1. Typed'
  BY DEF StreamInv, Typed, StoreTyped
<1>2. WorldInv'
  <2>1. WorldInv
    BY DEF StreamInv
  <2>2. Polled' = Polled
    BY DEF Polled
  <2>3. ASSUME NEW r \in Reader, NEW p \in Pump
        PROVE  /\ ~Polled => pump'[r][p].stage
                               \in {"idle", "range", "enqueue", "flag", "tail", "drain"}
               /\ Polled => pump'[r][p].stage \in {"idle", "load", "fetch", "deliver"}
    <3>1. CASE pump'[r][p] = pump[r][p]
      BY <2>1, <3>1 DEF WorldInv
    <3>2. CASE Suits(r, p, pump'[r][p])
      BY <3>2 DEF Suits
    <3> QED BY <3>1, <3>2
  <2> QED BY <2>1, <2>2, <2>3 DEF WorldInv
<1>3. StampInv' /\ OrderInv'
  BY DEF StreamInv, StampInv, OrderInv, Orderly
<1>4. HandedInv'
  <2> SUFFICES ASSUME NEW r \in Reader
               PROVE  Handed(r)'
    BY DEF HandedInv
  <2>1. Handed(r) /\ StampInv
    BY DEF StreamInv, HandedInv
  <2>2. \A p \in Pump : pump'[r][p].batch \subseteq rows \/ pump'[r][p] = pump[r][p]
    BY DEF Suits
  <2>3. Read(r)' \subseteq rows \union Read(r)
    BY <2>2 DEF Read
  <2>4. \A p \in Pump : IsFiniteSet(pump'[r][p].batch)
    BY <2>1, <2>2, FS_Subset DEF Handed, StreamInv, Typed, StoreTyped
  <2>5. reader'[r].status = "new" => reader'[r].got = <<>> /\ \A p \in Pump : pump'[r][p] = Asleep
    BY <2>1 DEF Handed
  <2>6. \A c \in Read(r)' : 1 <= c.at /\ c.at <= stamp
    BY <2>1, <2>3 DEF Handed, StampInv
  <2>7. \A c, d \in rows' \union Read(r)' : c.at = d.at => c = d
    BY <2>1, <2>3 DEF Handed
  <2>8. Polled' => Polled
    BY DEF Polled
  <2> QED BY <2>1, <2>3, <2>4, <2>5, <2>6, <2>7, <2>8 DEF Handed
<1>5. ReaderInv'
  <2>1. \A r \in Reader : Window(r)' = Window(r)
    BY DEF Window
  <2>2. ReaderInv
    BY DEF StreamInv
  <2> QED BY <2>1, <2>2 DEF ReaderInv, UpToCursor, Orderly
<1>6. BatchInv'
  <2>1. BatchInv
    BY DEF StreamInv
  <2> SUFFICES ASSUME Orderly, NEW r \in Reader, NEW p \in Pump
               PROVE  Batch(r, p)'
    BY DEF BatchInv, Orderly
  <2>2. CASE pump'[r][p] = pump[r][p]
    BY <2>1, <2>2 DEF BatchInv, Batch
  <2>3. CASE Suits(r, p, pump'[r][p])
    BY <2>3 DEF Suits, Batch
  <2> QED BY <2>2, <2>3
<1>7. RangeInv'
  <2>1. RangeInv
    BY DEF StreamInv
  <2> SUFFICES ASSUME ~Polled, NEW r \in Reader, NEW p \in Pump
               PROVE  OnePump(r, p)'
    BY DEF RangeInv, Polled
  <2>2. \A q \in Pump : pump'[r][p] # Asleep /\ pump'[r][q] # Asleep => p = q
    BY <2>1 DEF RangeInv, OnePump, Suits
  <2>3. CASE pump'[r][p] = pump[r][p]
    BY <2>1, <2>2, <2>3 DEF RangeInv, OnePump
  <2>4. CASE Suits(r, p, pump'[r][p])
    BY <2>2, <2>4 DEF Suits, OnePump
  <2> QED BY <2>3, <2>4
<1>8. PagerInv'
  BY DEF StreamInv, PagerInv, Orderly, Polled
<1> QED BY <1>1, <1>2, <1>3, <1>4, <1>5, <1>6, <1>7, <1>8 DEF StreamInv

(* In redirect, while one pump is awake the others are asleep.             *)
LEMMA OthersSleep ==
  ASSUME StreamInv, ~Polled, NEW r \in Reader, NEW p \in Pump, pump[r][p].stage # "idle"
  PROVE  \A q \in Pump : q # p => pump[r][q] = Asleep
<1>1. pump[r][p] # Asleep
  BY DEF Asleep
<1>2. \A q \in Pump : OnePump(r, p)
  BY DEF StreamInv, RangeInv
<1> QED BY <1>1, <1>2 DEF OnePump

LEMMA GotoSuits ==
  ASSUME StreamInv, NEW r \in Reader, NEW p \in Pump, NEW stage \in Stages,
         Polled => stage \in {"idle", "load"},
         ~Polled => /\ stage \in {"idle", "range", "flag", "tail"}
                    /\ stage = "tail" => done
                    /\ \A q \in Pump : q # p => pump[r][q] = Asleep
  PROVE  /\ [Asleep EXCEPT !.stage = stage] \in Pumps
         /\ Suits(r, p, [Asleep EXCEPT !.stage = stage])
<1> DEFINE v == [Asleep EXCEPT !.stage = stage]
<1>1. v = [stage |-> stage, keys |-> {}, batch |-> {}]
  BY DEF Asleep
<1>2. v.stage = stage /\ v.keys = {} /\ v.batch = {} /\ v \in Pumps
  BY <1>1 DEF Pumps
<1>3. stage = "idle" => v = Asleep
  BY <1>1 DEF Asleep
<1> HIDE DEF v
<1>4. Suits(r, p, v)
  BY <1>2, <1>3 DEF Suits
<1> QED BY <1>2, <1>4 DEF v

LEMMA PumpTyped ==
  ASSUME StreamInv, NEW r \in Reader, NEW p \in Pump, NEW v \in Pumps,
         pump' = [pump EXCEPT ![r][p] = v]
  PROVE  /\ pump' \in [Reader -> [Pump -> Pumps]]
         /\ \A x \in Reader, y \in Pump :
              pump'[x][y] = IF x = r /\ y = p THEN v ELSE pump[x][y]
<1>1. pump \in [Reader -> [Pump -> Pumps]]
  BY DEF StreamInv, Typed
<1> QED BY <1>1

LEMMA ReaderTyped ==
  ASSUME StreamInv
  PROVE  /\ reader \in [Reader -> Readers]
         /\ pump \in [Reader -> [Pump -> Pumps]]
         /\ errors \in Nat /\ errors + 1 \in Nat
         /\ \A r \in Reader : reader[r] \in Readers
         /\ \A r \in Reader, p \in Pump : pump[r][p] \in Pumps
<1>1. errors \in Nat
  BY DEF StreamInv, Typed, StoreTyped
<1> QED BY <1>1 DEF StreamInv, Typed

LEMMA AgainTyped ==
  ASSUME StreamInv, NEW r \in Reader, NEW b \in BOOLEAN,
         reader' = [reader EXCEPT ![r].again = b]
  PROVE  /\ reader' \in [Reader -> Readers]
         /\ \A x \in Reader : /\ reader'[x].first = reader[x].first
                              /\ reader'[x].cursor = reader[x].cursor
                              /\ reader'[x].got = reader[x].got
                              /\ \/ reader'[x].status = reader[x].status
                                 \/ reader'[x].status \in {"errored", "cancelled"}
BY ReaderTyped DEF Readers

LEMMA StatusTyped ==
  ASSUME StreamInv, NEW r \in Reader, NEW s \in {"errored", "cancelled"},
         reader' = [reader EXCEPT ![r].status = s]
  PROVE  /\ reader' \in [Reader -> Readers]
         /\ \A x \in Reader : /\ reader'[x].first = reader[x].first
                              /\ reader'[x].cursor = reader[x].cursor
                              /\ reader'[x].got = reader[x].got
                              /\ \/ reader'[x].status = reader[x].status
                                 \/ reader'[x].status \in {"errored", "cancelled"}
BY ReaderTyped DEF Readers, Statuses

LEMMA TickStep ==
  ASSUME StreamInv, NEW r \in Reader, NEW p \in Pump, Tick(r, p)
  PROVE  StreamInv'
<1> DEFINE stage == IF Polled THEN "load" ELSE "range"
           v == [Asleep EXCEPT !.stage = stage]
<1>1. /\ reader[r].status = "open" /\ reader' = [reader EXCEPT ![r].again = FALSE]
      /\ pump' = [pump EXCEPT ![r][p] = v]
      /\ UNCHANGED <<world, store, overlap, issued, errors, writer, pager>>
      /\ ~Polled => \A q \in Pump : pump[r][q] = Asleep
  BY DEF Tick, MayPump, At, Goto, OnlyReader
<1>2. v \in Pumps /\ Suits(r, p, v)
  BY <1>1, GotoSuits DEF Stages
<1> HIDE DEF v
<1>3. pump' \in [Reader -> [Pump -> Pumps]]
      /\ \A x \in Reader, y \in Pump :
           pump'[x][y] = pump[x][y] \/ (x = r /\ y = p /\ Suits(x, y, pump'[x][y]))
  BY <1>1, <1>2, PumpTyped
<1>8. reader' \in [Reader -> Readers]
      /\ \A x \in Reader : /\ reader'[x].first = reader[x].first
                           /\ reader'[x].cursor = reader[x].cursor
                           /\ reader'[x].got = reader[x].got
                           /\ \/ reader'[x].status = reader[x].status
                              \/ reader'[x].status \in {"errored", "cancelled"}
  BY <1>1, AgainTyped
<1>9. errors' \in Nat /\ reader[r].status # "new"
  BY <1>1, ReaderTyped
<1>10. Moves(r, p)
  BY <1>1, <1>3, <1>8, <1>9, ReaderTyped DEF Moves
<1> QED BY <1>10, Moved

LEMMA TickAgainStep ==
  ASSUME StreamInv, NEW r \in Reader, TickAgain(r)
  PROVE  StreamInv'
<1>1. /\ reader[r].status = "open" /\ reader' = [reader EXCEPT ![r].again = TRUE]
      /\ UNCHANGED <<world, store, overlap, issued, errors, writer, pager>> /\ pump' = pump
  BY DEF TickAgain, OnlyReader
<1>8. reader' \in [Reader -> Readers]
      /\ \A x \in Reader : /\ reader'[x].first = reader[x].first
                           /\ reader'[x].cursor = reader[x].cursor
                           /\ reader'[x].got = reader[x].got
                           /\ \/ reader'[x].status = reader[x].status
                              \/ reader'[x].status \in {"errored", "cancelled"}
  BY <1>1, AgainTyped
<1>9. errors' \in Nat /\ reader[r].status # "new"
  BY <1>1, ReaderTyped
<1>10. Moves(r, r)
  BY <1>1, <1>8, <1>9, ReaderTyped DEF Moves
<1> QED BY <1>10, Moved

LEMMA CancelStep ==
  ASSUME StreamInv, NEW r \in Reader, Cancel(r)
  PROVE  StreamInv'
<1>1. /\ reader[r].status = "open" /\ reader' = [reader EXCEPT ![r].status = "cancelled"]
      /\ UNCHANGED <<world, store, overlap, issued, errors, writer, pager>> /\ pump' = pump
  BY DEF Cancel, OnlyReader
<1>8. reader' \in [Reader -> Readers]
      /\ \A x \in Reader : /\ reader'[x].first = reader[x].first
                           /\ reader'[x].cursor = reader[x].cursor
                           /\ reader'[x].got = reader[x].got
                           /\ \/ reader'[x].status = reader[x].status
                              \/ reader'[x].status \in {"errored", "cancelled"}
  BY <1>1, StatusTyped
<1>9. errors' \in Nat /\ reader[r].status # "new"
  BY <1>1, ReaderTyped
<1>10. Moves(r, r)
  BY <1>1, <1>8, <1>9, ReaderTyped DEF Moves
<1> QED BY <1>10, Moved

LEMMA PumpFailsStep ==
  ASSUME StreamInv, NEW r \in Reader, NEW p \in Pump, PumpFails(r, p)
  PROVE  StreamInv'
<1>1. /\ reader[r].status = "open" /\ reader' = [reader EXCEPT ![r].status = "errored"]
      /\ pump' = [pump EXCEPT ![r][p] = Asleep] /\ errors' = errors + 1
      /\ UNCHANGED <<world, store, overlap, issued, writer, pager>>
  BY DEF PumpFails, At
<1>2. Asleep \in Pumps /\ Suits(r, p, Asleep)
  BY AsleepSuits DEF Asleep, Pumps, Stages
<1>3. pump' \in [Reader -> [Pump -> Pumps]]
      /\ \A x \in Reader, y \in Pump :
           pump'[x][y] = pump[x][y] \/ (x = r /\ y = p /\ Suits(x, y, pump'[x][y]))
  BY <1>1, <1>2, PumpTyped
<1>8. reader' \in [Reader -> Readers]
      /\ \A x \in Reader : /\ reader'[x].first = reader[x].first
                           /\ reader'[x].cursor = reader[x].cursor
                           /\ reader'[x].got = reader[x].got
                           /\ \/ reader'[x].status = reader[x].status
                              \/ reader'[x].status \in {"errored", "cancelled"}
  BY <1>1, StatusTyped
<1>9. errors' \in Nat /\ reader[r].status # "new"
  BY <1>1, ReaderTyped
<1>10. Moves(r, p)
  BY <1>1, <1>3, <1>8, <1>9, ReaderTyped DEF Moves
<1> QED BY <1>10, Moved

LEMMA PumpStopsStep ==
  ASSUME StreamInv, NEW r \in Reader, NEW p \in Pump, PumpStops(r, p)
  PROVE  StreamInv'
<1>1. /\ pump[r][p] # Asleep /\ reader' = reader
      /\ pump' = [pump EXCEPT ![r][p] = [Asleep EXCEPT !.stage = "idle"]]
      /\ UNCHANGED <<world, store, overlap, issued, errors, writer, pager>>
  BY DEF PumpStops, Goto, OnlyReader
<1>2. [Asleep EXCEPT !.stage = "idle"] = Asleep
  BY DEF Asleep
<1>3. Asleep \in Pumps /\ Suits(r, p, Asleep)
  BY AsleepSuits DEF Asleep, Pumps, Stages
<1>4. pump' \in [Reader -> [Pump -> Pumps]]
      /\ \A x \in Reader, y \in Pump :
           pump'[x][y] = pump[x][y] \/ (x = r /\ y = p /\ Suits(x, y, pump'[x][y]))
  BY <1>1, <1>2, <1>3, PumpTyped
<1>5. reader[r].status # "new"
  BY <1>1 DEF StreamInv, HandedInv, Handed
<1>10. Moves(r, p)
  BY <1>1, <1>4, <1>5, ReaderTyped DEF Moves
<1> QED BY <1>10, Moved

LEMMA ReadFlagStep ==
  ASSUME StreamInv, NEW r \in Reader, NEW p \in Pump, ReadFlag(r, p)
  PROVE  StreamInv'
<1> DEFINE stage == IF done THEN "tail" ELSE IF reader[r].again THEN "range" ELSE "idle"
           v == [Asleep EXCEPT !.stage = stage]
<1>1. /\ reader[r].status = "open" /\ reader' = [reader EXCEPT ![r].again = FALSE]
      /\ pump[r][p].stage = "flag"
      /\ pump' = [pump EXCEPT ![r][p] = v]
      /\ UNCHANGED <<world, store, overlap, issued, errors, writer, pager>>
  BY DEF ReadFlag, At, Goto, OnlyReader
<1>2. ~Polled
  BY <1>1 DEF StreamInv, WorldInv
<1>3. \A q \in Pump : q # p => pump[r][q] = Asleep
  BY <1>1, <1>2, OthersSleep
<1>4. stage \in Stages /\ stage \in {"idle", "range", "flag", "tail"} /\ (stage = "tail" => done)
  BY DEF Stages
<1> HIDE DEF stage
<1>5. v \in Pumps /\ Suits(r, p, v)
  BY <1>2, <1>3, <1>4, GotoSuits
<1> HIDE DEF v
<1>6. pump' \in [Reader -> [Pump -> Pumps]]
      /\ \A x \in Reader, y \in Pump :
           pump'[x][y] = pump[x][y] \/ (x = r /\ y = p /\ Suits(x, y, pump'[x][y]))
  BY <1>1, <1>5, PumpTyped
<1>8. reader' \in [Reader -> Readers]
      /\ \A x \in Reader : /\ reader'[x].first = reader[x].first
                           /\ reader'[x].cursor = reader[x].cursor
                           /\ reader'[x].got = reader[x].got
                           /\ \/ reader'[x].status = reader[x].status
                              \/ reader'[x].status \in {"errored", "cancelled"}
  BY <1>1, AgainTyped
<1>9. errors' \in Nat /\ reader[r].status # "new"
  BY <1>1, ReaderTyped
<1>10. Moves(r, p)
  BY <1>1, <1>6, <1>8, <1>9, ReaderTyped DEF Moves
<1> QED BY <1>10, Moved

(* LRANGE from the cursor: as many rows as there are from the cursor on.   *)
LEMMA RangeCounts ==
  ASSUME StreamInv, Orderly, NEW r \in Reader
  PROVE  /\ FromCursor(r) \subseteq rows /\ IsFiniteSet(FromCursor(r))
         /\ \A c \in FromCursor(r) :
              /\ reader[r].cursor <= c.idx
              /\ c.idx < reader[r].cursor + Cardinality(FromCursor(r))
<1> DEFINE B == FromCursor(r)
           k == reader[r].cursor
           n == Cardinality(rows)
           A == {c \in rows : c.idx < k}
<1>1. k \in Nat
  BY ReaderTyped DEF Readers
<1>2. /\ IsFiniteSet(rows) /\ rows \subseteq Row /\ n \in Nat
      /\ \A c \in rows : c.idx \in Nat /\ c.idx < n
      /\ \A c, d \in rows : c.idx = d.idx => c = d
  BY OrderlyRows, RowsListable DEF StreamInv, OrderInv, Listable, Row
<1>3. B \subseteq rows /\ \A c \in B : k <= c.idx
  BY <1>1, <1>2 DEF FromCursor
<1>4. IsFiniteSet(A) /\ IsFiniteSet(B) /\ Cardinality(A) \in Nat /\ Cardinality(B) \in Nat
  <2>1. A \in SUBSET rows /\ B \in SUBSET rows
    BY <1>3
  <2> QED BY <1>2, <2>1, FS_Subset, FS_CardinalityType
<1>5. n = Cardinality(A) + Cardinality(B)
  <2>1. A \union B = rows /\ A \cap B = {}
    BY <1>1, <1>2 DEF FromCursor
  <2> HIDE DEF A, B
  <2>2. Cardinality(A \union B) = Cardinality(A) + Cardinality(B) - Cardinality(A \cap B)
    BY <1>4, FS_Union
  <2>3. Cardinality(A \cap B) = 0
    BY <2>1, FS_EmptySet
  <2> QED BY <1>4, <2>1, <2>2, <2>3
<1>6. Cardinality(A) <= k
  <2> DEFINE f == [c \in A |-> c.idx]
             T == 0..(k - 1)
  <2>1. f \in Injection(A, T)
    <3>1. f \in [A -> T]
      BY <1>1, <1>2
    <3> QED BY <1>2, <3>1 DEF Injection, IsInjective
  <2>2. IsFiniteSet(T) /\ Cardinality(T) = k
    <3>1. 0 \in Int /\ k - 1 \in Int
      BY <1>1
    <3>2. IsFiniteSet(T) /\ Cardinality(T) = IF 0 > k - 1 THEN 0 ELSE (k - 1) - 0 + 1
      BY <3>1, FS_Interval
    <3> QED BY <1>1, <3>2
  <2> HIDE DEF f, T, A
  <2>3. Cardinality(A) <= Cardinality(T)
    BY <2>1, <2>2, FS_Injection
  <2> QED BY <2>2, <2>3
<1> HIDE DEF A, B, k, n
<1>7. \A c \in B : c.idx < k + Cardinality(B)
  BY <1>1, <1>2, <1>3, <1>4, <1>5, <1>6
<1> QED BY <1>3, <1>4, <1>7 DEF B, k

LEMMA RangeStep ==
  ASSUME StreamInv, NEW r \in Reader, NEW p \in Pump, ReadRange(r, p) \/ ReadTail(r, p)
  PROVE  StreamInv'
<1> DEFINE stage == IF ReadRange(r, p) THEN "enqueue" ELSE "drain"
           v == [stage |-> stage, keys |-> {}, batch |-> FromCursor(r)]
<1>1. /\ reader[r].status = "open" /\ reader' = reader
      /\ pump' = [pump EXCEPT ![r][p] = v]
      /\ pump[r][p].stage \in {"range", "tail"}
      /\ stage = "drain" => pump[r][p].stage = "tail"
      /\ UNCHANGED <<world, store, overlap, issued, errors, writer, pager>>
  <2>1. CASE ReadRange(r, p)
    BY <2>1 DEF ReadRange, At, Take, OnlyReader
  <2>2. CASE ~ReadRange(r, p)
    BY <2>2 DEF ReadTail, At, Take, OnlyReader
  <2> QED BY <2>1, <2>2
<1>2. stage \in {"enqueue", "drain"}
  OBVIOUS
<1> HIDE DEF stage
<1>3. ~Polled
  BY <1>1 DEF StreamInv, WorldInv
<1>4. Orderly
  BY <1>3 DEF StreamInv, WorldInv, Orderly
<1>5. \A q \in Pump : q # p => pump[r][q] = Asleep
  BY <1>1, <1>3, OthersSleep
<1>6. /\ FromCursor(r) \subseteq rows
      /\ \A c \in FromCursor(r) :
           /\ reader[r].cursor <= c.idx
           /\ c.idx < reader[r].cursor + Cardinality(FromCursor(r))
      /\ IsFiniteSet(FromCursor(r)) /\ Cardinality(FromCursor(r)) \in Nat
      /\ rows \subseteq Row /\ reader[r].cursor \in Nat
  BY <1>4, RangeCounts, FS_CardinalityType, RowsListable, ReaderTyped DEF Listable, Readers
<1>7. v.stage = stage /\ v.keys = {} /\ v.batch = FromCursor(r)
  OBVIOUS
<1>8. v \in Pumps
  BY <1>2, <1>6 DEF Pumps, Stages
<1> HIDE DEF v
<1>9. \A c \in rows : c.idx < reader[r].cursor + Cardinality(v.batch)
  <2> TAKE c \in rows
  <2>1. c.idx \in Nat
    BY <1>6 DEF Row
  <2>2. c \in FromCursor(r) \/ c.idx < reader[r].cursor
    BY <1>6, <2>1 DEF FromCursor
  <2> QED BY <1>6, <1>7, <2>1, <2>2
<1>10. stage = "drain" => done
  BY <1>1, <1>3 DEF StreamInv, RangeInv, OnePump
<1>11. \A c \in v.batch, d \in rows : reader[r].cursor <= d.idx => d \in v.batch
  BY <1>6, <1>7 DEF FromCursor, Row
<1>12. Suits(r, p, v)
  <2>1. v.batch \subseteq rows /\ v.keys = {} /\ v.stage \in {"enqueue", "drain"}
    BY <1>2, <1>6, <1>7
  <2>2. \A c \in v.batch :
          reader[r].cursor <= c.idx /\ c.idx < reader[r].cursor + Cardinality(v.batch)
    BY <1>6, <1>7
  <2>3. v.stage = "drain" => done
    BY <1>7, <1>10
  <2> QED BY <1>3, <1>5, <1>9, <1>11, <2>1, <2>2, <2>3 DEF Suits
<1>13. pump' \in [Reader -> [Pump -> Pumps]]
       /\ \A x \in Reader, y \in Pump :
            pump'[x][y] = pump[x][y] \/ (x = r /\ y = p /\ Suits(x, y, pump'[x][y]))
  BY <1>1, <1>8, <1>12, PumpTyped
<1>14. Moves(r, p)
  BY <1>1, <1>13, ReaderTyped DEF Moves
<1> QED BY <1>14, Moved

(* A polled reader may have any number of pumps under way.                 *)
LEMMA PolledSuits ==
  ASSUME Polled, NEW r, NEW p, NEW v, v.batch \subseteq rows,
         v.stage \in {"idle", "load", "fetch", "deliver"},
         Orderly =>
           /\ \A c \in v.batch, d \in rows : d.idx <= c.idx => d \in v.batch
           /\ \A k \in v.keys :
                /\ k < Cardinality(rows)
                /\ \A d \in rows : d.idx <= k => d.idx \in v.keys
  PROVE  Suits(r, p, v)
BY DEF Suits

LEMMA LoadStep ==
  ASSUME StreamInv, NEW r \in Reader, NEW p \in Pump,
         ListKeys(r, p) \/ Fetch(r, p) \/ LoadRows(r, p)
  PROVE  StreamInv'
<1>1. /\ reader[r].status = "open" /\ reader' = reader
      /\ pump[r][p].stage \in {"load", "fetch"}
      /\ UNCHANGED <<world, store, overlap, issued, errors, writer, pager>>
  BY DEF ListKeys, Fetch, LoadRows, At, Take, OnlyReader
<1>2. Polled
  BY <1>1 DEF StreamInv, WorldInv
<1>3. /\ rows \subseteq Row /\ pump[r][p] \in Pumps /\ pump \in [Reader -> [Pump -> Pumps]]
      /\ \A c \in rows : c.idx \in Nat
  BY RowsListable, ReaderTyped DEF Listable, Row
<1>4. PICK v \in Pumps : pump' = [pump EXCEPT ![r][p] = v] /\ Suits(r, p, v)
  <2>1. CASE ListKeys(r, p)
    <3> DEFINE w == [stage |-> "fetch", keys |-> {c.idx : c \in rows}, batch |-> {}]
    <3>1. pump' = [pump EXCEPT ![r][p] = w]
      BY <2>1 DEF ListKeys
    <3>2. w.stage = "fetch" /\ w.keys = {c.idx : c \in rows} /\ w.batch = {}
      OBVIOUS
    <3>3. w \in Pumps
      BY <1>3 DEF Pumps, Stages
    <3> HIDE DEF w
    <3>4. Orderly => \A c \in rows : c.idx < Cardinality(rows)
      BY DEF StreamInv, OrderInv
    <3>5. Suits(r, p, w)
      BY <1>2, <3>2, <3>4, PolledSuits
    <3> QED BY <3>1, <3>3, <3>5
  <2>2. CASE Fetch(r, p)
    <3> DEFINE B == {c \in rows : c.idx \in pump[r][p].keys}
               w == [stage |-> "deliver", keys |-> {}, batch |-> B]
    <3>1. pump' = [pump EXCEPT ![r][p] = w]
      BY <2>2 DEF Fetch, Take
    <3>2. w.stage = "deliver" /\ w.keys = {} /\ w.batch = B
      OBVIOUS
    <3>3. w \in Pumps
      BY <1>3 DEF Pumps, Stages
    <3>4. ASSUME Orderly, NEW c \in B, NEW d \in rows, d.idx <= c.idx
          PROVE  d \in B
      BY <3>4 DEF StreamInv, BatchInv, Batch
    <3> HIDE DEF w
    <3>5. Suits(r, p, w)
      BY <1>2, <3>2, <3>4, PolledSuits
    <3> QED BY <3>1, <3>3, <3>5
  <2>3. CASE LoadRows(r, p)
    <3> DEFINE w == [stage |-> "deliver", keys |-> {}, batch |-> rows]
    <3>1. pump' = [pump EXCEPT ![r][p] = w]
      BY <2>3 DEF LoadRows, Take
    <3>2. w.stage = "deliver" /\ w.keys = {} /\ w.batch = rows
      OBVIOUS
    <3>3. w \in Pumps
      BY <1>3 DEF Pumps, Stages
    <3> HIDE DEF w
    <3>4. Suits(r, p, w)
      BY <1>2, <3>2, PolledSuits
    <3> QED BY <3>1, <3>3, <3>4
  <2> QED BY <2>1, <2>2, <2>3
<1>5. pump' \in [Reader -> [Pump -> Pumps]]
      /\ \A x \in Reader, y \in Pump :
           pump'[x][y] = pump[x][y] \/ (x = r /\ y = p /\ Suits(x, y, pump'[x][y]))
  BY <1>4, PumpTyped
<1>6. Moves(r, p)
  BY <1>1, <1>5, ReaderTyped DEF Moves
<1> QED BY <1>6, Moved

-----------------------------------------------------------------------------
(* Steps that hand chunks over *)

(* Pump b of reader a hands over the rows N of its batch, and its cursor   *)
(* moves on to k.                                                          *)
HandsOver(a, b, N, k) ==
  /\ UNCHANGED <<world, store, overlap, issued, errors, writer, pager>>
  /\ reader' \in [Reader -> Readers] /\ pump' \in [Reader -> [Pump -> Pumps]]
  /\ reader[a].status = "open" /\ reader'[a].status \in {"open", "ended"}
  /\ reader'[a].first = reader[a].first
  /\ reader'[a].cursor = k
  /\ reader'[a].got = reader[a].got \o Stamps(N)
  /\ \A r \in Reader : r # a => reader'[r] = reader[r]
  /\ pump'[a][b].batch = {} /\ pump'[a][b].keys = {}
  /\ pump'[a][b] = Asleep \/ (~Polled /\ pump'[a][b].stage = "flag")
  /\ \A r \in Reader, p \in Pump : ~(r = a /\ p = b) => pump'[r][p] = pump[r][p]

(* What it takes: all chunks of the stream from the cursor up to k, and    *)
(* nothing else.                                                           *)
Due(a, b, N, k) ==
  /\ N \subseteq pump[a][b].batch
  /\ reader[a].cursor <= k
  /\ \A c \in N : reader[a].cursor <= c.idx /\ c.idx < k
  /\ Orderly =>
       /\ N \subseteq Chunks(rows)
       /\ \A c \in Chunks(rows) : reader[a].cursor <= c.idx /\ c.idx < k => c \in N
       /\ k <= Cardinality(rows) \/ k = reader[a].cursor

LEMMA HandedPreserved ==
  ASSUME StreamInv, NEW a \in Reader, NEW b \in Pump, NEW N, NEW k \in Nat,
         HandsOver(a, b, N, k), Due(a, b, N, k)
  PROVE  HandedInv'
<1>1. /\ rows' = rows /\ stamp' = stamp /\ world' = world
      /\ reader[a].status = "open" /\ reader'[a].status # "new"
      /\ reader'[a].cursor = k
      /\ reader'[a].got = reader[a].got \o Stamps(N)
      /\ \A r \in Reader : r # a => reader'[r] = reader[r]
      /\ \A r \in Reader, p \in Pump :
           pump'[r][p] = pump[r][p] \/ (r = a /\ p = b /\ pump'[r][p].batch = {})
  BY DEF HandsOver, store
<1>2. \A r \in Reader : Read(r)' \subseteq Read(r)
  BY <1>1 DEF Read
<1>3. /\ Listable(N) /\ N \subseteq Read(a) /\ Listable(pump[a][b].batch)
  BY RowsListable, PartListable DEF Due
<1>4. Handed(a) /\ reader[a] \in Readers
  BY ReaderTyped DEF StreamInv, HandedInv
<1>5. (Polled' <=> Polled)
  BY <1>1 DEF Polled
<1> DEFINE s == reader[a].got
           t == Stamps(N)
<1>6. /\ s \in Seq(Nat) /\ t \in Seq(Nat) /\ IsInjective(t) /\ Len(t) = Cardinality(N)
      /\ Len(s) \in Nat /\ Len(t) \in Nat
      /\ \A i \in 1..Len(t) : \E c \in N : t[i] = c.at
  BY <1>3, <1>4, Stamping DEF Readers
<1>7. /\ s \o t \in Seq(Nat) /\ Len(s \o t) = Len(s) + Len(t)
      /\ \A i \in 1..(Len(s) + Len(t)) :
           (s \o t)[i] = IF i <= Len(s) THEN s[i] ELSE t[i - Len(s)]
  <2> HIDE DEF s, t
  <2> QED BY <1>6, ConcatProperties
<1>8. DOMAIN (s \o t) = 1..(Len(s) + Len(t)) /\ DOMAIN s = 1..Len(s) /\ DOMAIN t = 1..Len(t)
  BY <1>6, <1>7
<1>9. \A i \in DOMAIN (s \o t) :
        \/ i \in DOMAIN s /\ (s \o t)[i] = s[i]
        \/ /\ i - Len(s) \in DOMAIN t /\ (s \o t)[i] = t[i - Len(s)]
           /\ \E c \in N : (s \o t)[i] = c.at
  <2> HIDE DEF s, t
  <2> TAKE i \in DOMAIN (s \o t)
  <2>1. i \in 1..(Len(s) + Len(t))
    BY <1>8
  <2>2. CASE i <= Len(s)
    <3>1. i \in DOMAIN s
      BY <1>6, <1>8, <2>1, <2>2
    <3> QED BY <1>7, <2>1, <2>2, <3>1
  <2>3. CASE ~(i <= Len(s))
    <3>1. i - Len(s) \in 1..Len(t)
      BY <1>6, <2>1, <2>3
    <3> QED BY <1>6, <1>7, <1>8, <2>1, <2>3, <3>1
  <2> QED BY <2>2, <2>3
<1> SUFFICES ASSUME NEW r \in Reader PROVE Handed(r)'
  BY DEF HandedInv
<1>10. CASE r # a
  BY <1>1, <1>2, <1>5, <1>10 DEF StreamInv, HandedInv, Handed
<1>11. CASE r = a
  <2>1. /\ \A p \in Pump : IsFiniteSet(pump'[a][p].batch)
        /\ \A c \in Read(a)' : 1 <= c.at /\ c.at <= stamp
        /\ \A c, d \in rows' \union Read(a)' : c.at = d.at => c = d
    BY <1>1, <1>2, <1>4, FS_EmptySet DEF Handed
  <2>2. \A i \in DOMAIN (s \o t) : (s \o t)[i] <= stamp
    <3>1. \A i \in DOMAIN s : s[i] <= stamp
      BY <1>4 DEF Handed
    <3>2. \A c \in N : c.at <= stamp
      BY <1>3, <1>4 DEF Handed
    <3> HIDE DEF s, t
    <3> QED BY <1>9, <3>1, <3>2
  <2>3. ASSUME Polled, NEW i \in DOMAIN s, NEW c \in N PROVE s[i] # c.at
    BY <1>3, <1>4, <2>3 DEF Handed, Due, Readers, Row, Listable
  <2>4. ASSUME Polled PROVE IsInjective(s \o t)
    <3>1. IsInjective(s)
      BY <1>4, <2>4 DEF Handed
    <3>2. \A i \in DOMAIN s, c \in N : s[i] # c.at
      BY <2>3, <2>4
    <3> HIDE DEF s, t
    <3> SUFFICES ASSUME NEW i \in DOMAIN (s \o t), NEW j \in DOMAIN (s \o t),
                        (s \o t)[i] = (s \o t)[j]
                 PROVE  i = j
      BY DEF IsInjective
    <3>3. i \in Int /\ j \in Int /\ Len(s) \in Int
      BY <1>6, <1>8
    <3>4. CASE i \in DOMAIN s /\ (s \o t)[i] = s[i]
      <4>1. j \in DOMAIN s /\ (s \o t)[j] = s[j]
        BY <1>9, <3>2, <3>4
      <4> QED BY <3>1, <3>4, <4>1 DEF IsInjective
    <3>5. CASE /\ i - Len(s) \in DOMAIN t /\ (s \o t)[i] = t[i - Len(s)]
               /\ \E c \in N : (s \o t)[i] = c.at
      <4>1. j - Len(s) \in DOMAIN t /\ (s \o t)[j] = t[j - Len(s)]
        BY <1>9, <3>2, <3>5
      <4>2. i - Len(s) = j - Len(s)
        BY <1>6, <3>5, <4>1 DEF IsInjective
      <4> QED BY <3>3, <4>2
    <3> QED BY <1>9, <3>4, <3>5
  <2>5. ASSUME Polled, NEW c \in rows' \union Read(a)', c.idx >= k,
               NEW i \in DOMAIN (s \o t)
        PROVE  (s \o t)[i] # c.at
    <3>1. c \in rows \union Read(a) /\ c.idx >= reader[a].cursor
      <4>1. c \in rows \union Read(a)
        BY <1>1, <1>2, <2>5
      <4>2. c \in Row
        <5>1. \A p \in Pump : pump[a][p].batch \subseteq Row
          BY RowsListable DEF Listable
        <5>2. Read(a) \subseteq Row
          BY <5>1 DEF Read
        <5> QED BY <4>1, <5>2, RowsListable DEF Listable
      <4>3. reader[a].cursor \in Nat /\ c.idx \in Nat /\ reader[a].cursor <= k
        BY <1>4, <4>2 DEF Readers, Row, Due
      <4> QED BY <2>5, <4>1, <4>3
    <3>2. \A j \in DOMAIN s : s[j] # c.at
      BY <1>4, <2>5, <3>1 DEF Handed
    <3>3. \A d \in N : d.at # c.at
      <4>1. \A d \in N : d \in Read(a) /\ d.idx < k /\ d.idx \in Nat
        BY <1>3 DEF Due, Listable, Row
      <4>2. \A d \in N : d # c
        BY <2>5, <4>1
      <4> QED BY <1>4, <3>1, <4>1, <4>2 DEF Handed
    <3> HIDE DEF s, t
    <3> QED BY <1>9, <3>2, <3>3
  <2> HIDE DEF s, t
  <2>6. reader'[a].got = s \o t
    BY <1>1 DEF s, t
  <2> QED BY <1>1, <1>5, <1>11, <2>1, <2>2, <2>4, <2>5, <2>6 DEF Handed
<1> QED BY <1>10, <1>11

LEMMA HandedOver ==
  ASSUME StreamInv, NEW a \in Reader, NEW b \in Pump, NEW N, NEW k \in Nat,
         HandsOver(a, b, N, k), Due(a, b, N, k), pump[a][b].stage # "idle",
         reader'[a].status = "ended" /\ Orderly =>
           /\ closedAt # 0
           /\ \A c \in After(Chunks(rows), reader[a].first) : c.at < closedAt => c.idx < k
  PROVE  StreamInv'
<1>1. /\ rows' = rows /\ done' = done /\ stamp' = stamp /\ closedAt' = closedAt
      /\ world' = world /\ overlap' = overlap /\ writer' = writer /\ pager' = pager
      /\ issued' = issued /\ errors' = errors
      /\ reader' \in [Reader -> Readers] /\ pump' \in [Reader -> [Pump -> Pumps]]
      /\ reader[a].status = "open" /\ reader'[a].status \in {"open", "ended"}
      /\ reader'[a].first = reader[a].first
      /\ reader'[a].cursor = k
      /\ reader'[a].got = reader[a].got \o Stamps(N)
      /\ \A r \in Reader : r # a => reader'[r] = reader[r]
      /\ pump'[a][b].batch = {} /\ pump'[a][b].keys = {}
      /\ pump'[a][b] = Asleep \/ (~Polled /\ pump'[a][b].stage = "flag")
      /\ \A r \in Reader, p \in Pump : ~(r = a /\ p = b) => pump'[r][p] = pump[r][p]
  BY DEF HandsOver, store
<1>2. (Polled' <=> Polled) /\ (Orderly' <=> Orderly)
  BY <1>1 DEF Polled, Orderly
<1>3. Typed'
  BY <1>1 DEF StreamInv, Typed, StoreTyped
<1>4. WorldInv'
  <2>1. ASSUME NEW r \in Reader, NEW p \in Pump
        PROVE  /\ ~Polled => pump'[r][p].stage
                               \in {"idle", "range", "enqueue", "flag", "tail", "drain"}
               /\ Polled => pump'[r][p].stage \in {"idle", "load", "fetch", "deliver"}
    <3>1. CASE r = a /\ p = b
      BY <1>1, <3>1 DEF Asleep
    <3>2. CASE ~(r = a /\ p = b)
      BY <1>1, <3>2 DEF StreamInv, WorldInv
    <3> QED BY <3>1, <3>2
  <2> QED BY <1>1, <1>2, <2>1 DEF StreamInv, WorldInv
<1>5. StampInv' /\ OrderInv'
  BY <1>1, <1>2 DEF StreamInv, StampInv, OrderInv, Orderly
<1>6. HandedInv'
  BY HandedPreserved
<1>7. ReaderInv'
  <2> SUFFICES ASSUME Orderly, NEW r \in Reader PROVE UpToCursor(r)'
    BY <1>2 DEF ReaderInv
  <2>1. CASE r # a
    <3>1. Window(r)' = Window(r)
      BY <1>1, <2>1 DEF Window
    <3> QED BY <1>1, <2>1, <3>1 DEF StreamInv, ReaderInv, UpToCursor
  <2>2. CASE r = a
    <3>1. /\ N \subseteq Chunks(rows)
          /\ \A c \in N : reader[a].cursor <= c.idx /\ c.idx < k
          /\ \A c \in Chunks(rows) : reader[a].cursor <= c.idx /\ c.idx < k => c \in N
          /\ reader[a].cursor <= k
          /\ k <= Cardinality(rows) \/ k = reader[a].cursor
      BY DEF Due
    <3>2. Stamps({c \in Chunks(rows) : reader[a].first <= c.idx /\ c.idx < k})
            = reader[a].got \o Stamps(N)
      BY <3>1, WindowGrows
    <3>3. Window(a)' = {c \in Chunks(rows) : reader[a].first <= c.idx /\ c.idx < k}
      BY <1>1 DEF Window
    <3>4. UpToCursor(a) /\ reader[a] \in Readers
      BY ReaderTyped DEF StreamInv, ReaderInv
    <3>5. reader[a].first <= k
      BY <3>1, <3>4 DEF UpToCursor, Readers
    <3>6. k <= Cardinality(rows) \/ k = reader[a].first
      BY <3>1, <3>4 DEF UpToCursor
    <3> QED BY <1>1, <2>2, <3>2, <3>3, <3>5, <3>6 DEF UpToCursor
  <2> QED BY <2>1, <2>2
<1>8. BatchInv'
  <2> SUFFICES ASSUME Orderly, NEW r \in Reader, NEW p \in Pump PROVE Batch(r, p)'
    BY <1>2 DEF BatchInv
  <2>1. CASE r = a /\ p = b
    BY <1>1, <2>1 DEF Batch
  <2>2. CASE ~(r = a /\ p = b)
    <3>1. Batch(r, p) /\ pump'[r][p] = pump[r][p]
      BY <1>1, <2>2 DEF StreamInv, BatchInv
    <3>2. \A d \in rows : reader'[r].cursor <= d.idx => reader[r].cursor <= d.idx
      <4>1. CASE r # a
        BY <1>1, <4>1
      <4>2. CASE r = a
        <5>1. reader[a].cursor \in Nat /\ reader[a].cursor <= k /\ \A d \in rows : d.idx \in Nat
          BY ReaderTyped, RowsListable DEF Readers, Due, Listable, Row
        <5> QED BY <1>1, <4>2, <5>1
      <4> QED BY <4>1, <4>2
    <3> QED BY <1>1, <3>1, <3>2 DEF Batch
  <2> QED BY <2>1, <2>2
<1>9. RangeInv'
  <2> SUFFICES ASSUME ~Polled, NEW r \in Reader, NEW p \in Pump PROVE OnePump(r, p)'
    BY <1>2 DEF RangeInv
  <2>1. CASE r # a
    <3>1. reader'[r] = reader[r] /\ \A q \in Pump : pump'[r][q] = pump[r][q]
      BY <1>1, <2>1
    <3>2. OnePump(r, p) /\ rows' = rows /\ done' = done /\ closedAt' = closedAt
      BY <1>1 DEF StreamInv, RangeInv
    <3> QED BY <3>1, <3>2 DEF OnePump
  <2>2. CASE r = a
    <3>1. \A q \in Pump : q # b => pump'[a][q] = Asleep
      BY <1>1, OthersSleep
    <3>2. Asleep.stage = "idle" /\ Asleep.batch = {}
      BY DEF Asleep
    <3>3. CASE p = b
      <4>1. pump'[r][p].batch = {} /\ (pump'[r][p] = Asleep \/ pump'[r][p].stage = "flag")
        BY <1>1, <2>2, <3>3
      <4>2. \A q \in Pump : q # p => pump'[r][q] = Asleep
        BY <2>2, <3>1, <3>3
      <4> QED BY <3>2, <4>1, <4>2 DEF OnePump
    <3>4. CASE p # b
      <4>1. pump'[r][p] = Asleep
        BY <2>2, <3>1, <3>4
      <4> QED BY <3>2, <4>1 DEF OnePump
    <3> QED BY <3>3, <3>4
  <2> QED BY <2>1, <2>2
<1>10. PagerInv'
  BY <1>1, <1>2 DEF StreamInv, PagerInv
<1> QED BY <1>3, <1>4, <1>5, <1>6, <1>7, <1>8, <1>9, <1>10 DEF StreamInv

(* A batch read by LRANGE, handed over, takes the cursor past its rows.    *)
LEMMA RangeDue ==
  ASSUME StreamInv, ~Polled, NEW r \in Reader, NEW p \in Pump
  PROVE  LET N == pump[r][p].batch IN
           /\ reader[r].cursor + Cardinality(N) \in Nat
           /\ Due(r, p, N, reader[r].cursor + Cardinality(N))
<1> DEFINE N == pump[r][p].batch
           k == reader[r].cursor
           n == Cardinality(N)
<1>1. Orderly
  BY DEF StreamInv, WorldInv, Orderly
<1>2. Listable(N) /\ k \in Nat /\ n \in Nat /\ N \subseteq Row
  BY RowsListable, ReaderTyped, FS_CardinalityType DEF Readers, Listable
<1>3. /\ N \subseteq rows /\ \A c \in N : k <= c.idx /\ c.idx < k + n
  BY <1>1 DEF StreamInv, BatchInv, Batch, RangeInv, OnePump
<1>4. \A c, d \in rows : c.idx = d.idx => c = d
  BY <1>1, OrderlyRows
<1>5. N \subseteq Chunks(rows) /\ \A c \in rows : c.idx \in Nat
  BY <1>3, RowsListable DEF StreamInv, WorldInv, Chunks, Chunk, Listable, Row
<1>6. \A c, d \in N : c.idx = d.idx => c = d
  BY <1>3, <1>4
<1> HIDE DEF N, k, n
<1>7. ASSUME NEW c \in Chunks(rows), k <= c.idx, c.idx < k + n
      PROVE  c \in N
  <2>1. c \in rows /\ c.idx \in Nat
    BY <1>5 DEF Chunks
  <2>2. \E d \in N : d.idx = c.idx
    <3>1. n = Cardinality(N)
      BY DEF n
    <3> QED BY <1>2, <1>3, <1>6, <1>7, <2>1, <3>1, Filled
  <2> QED BY <1>3, <1>4, <2>1, <2>2
<1>8. k + n <= Cardinality(rows) \/ k + n = k
  <2>1. CASE n = 0
    BY <1>2, <2>1
  <2>2. CASE n # 0
    <3>1. k + n - 1 \in Nat /\ k <= k + n - 1 /\ k + n - 1 < k + n
      BY <1>2, <2>2
    <3>2. \E d \in N : d.idx = k + n - 1
      <4>1. n = Cardinality(N)
        BY DEF n
      <4> QED BY <1>2, <1>3, <1>6, <3>1, <4>1, Filled
    <3>3. PICK d \in rows : d.idx = k + n - 1
      BY <1>3, <3>2
    <3>4. d.idx < Cardinality(rows) /\ Cardinality(rows) \in Nat
      BY <1>1, OrderlyRows DEF StreamInv, OrderInv
    <3> QED BY <1>2, <3>3, <3>4
  <2> QED BY <2>1, <2>2
<1>9. k + n \in Nat /\ k <= k + n
  BY <1>2
<1>10. Due(r, p, N, k + n)
  <2>1. N \subseteq pump[r][p].batch /\ k = reader[r].cursor
    BY DEF N, k
  <2> QED BY <1>3, <1>5, <1>7, <1>8, <1>9, <2>1 DEF Due
<1> QED BY <1>9, <1>10 DEF N, k, n

LEMMA EnqueueStep ==
  ASSUME StreamInv, NEW r \in Reader, NEW p \in Pump, Enqueue(r, p) \/ Drain(r, p)
  PROVE  StreamInv'
<1> DEFINE N == pump[r][p].batch
           k == reader[r].cursor + Cardinality(N)
           rd == Delivered(reader[r], N)
           status == IF Enqueue(r, p) THEN "open" ELSE "ended"
           v == [Asleep EXCEPT !.stage = IF Enqueue(r, p) THEN "flag" ELSE "idle"]
<1>1. /\ reader[r].status = "open"
      /\ pump[r][p].stage = IF Enqueue(r, p) THEN "enqueue" ELSE "drain"
      /\ reader' = [reader EXCEPT ![r] = [rd EXCEPT !.status = status]]
      /\ pump' = [pump EXCEPT ![r][p] = v]
      /\ UNCHANGED <<world, store, overlap, issued, errors, writer, pager>>
  <2>1. CASE Enqueue(r, p)
    <3>1. reader[r].status = "open" /\ pump[r][p].stage = "enqueue"
      BY <2>1 DEF Enqueue, At
    <3>2. reader' = [reader EXCEPT ![r] = rd]
      BY <2>1, ReaderTyped DEF Enqueue
    <3>3. [rd EXCEPT !.status = "open"] = rd
      <4>1. reader[r] \in Readers
        BY ReaderTyped
      <4> QED BY <3>1, <4>1 DEF Delivered, Readers
    <3>4. pump' = [pump EXCEPT ![r][p] = v]
          /\ UNCHANGED <<world, store, overlap, issued, errors, writer, pager>>
      BY <2>1 DEF Enqueue, Goto, OnlyReader
    <3> QED BY <2>1, <3>1, <3>2, <3>3, <3>4
  <2>2. CASE ~Enqueue(r, p)
    BY <2>2 DEF Drain, At, Goto, OnlyReader
  <2> QED BY <2>1, <2>2
<1>2. ~Polled
  BY <1>1 DEF StreamInv, WorldInv
<1>3. k \in Nat /\ Due(r, p, N, k)
  BY <1>2, RangeDue
<1>4. status \in {"open", "ended"} /\ (status = "ended" => pump[r][p].stage = "drain")
  BY <1>1
<1>5. v \in Pumps /\ v.batch = {} /\ v.keys = {} /\ (v = Asleep \/ v.stage = "flag")
  BY DEF Asleep, Pumps, Stages
<1>6. /\ rd.first = reader[r].first /\ rd.cursor = k
      /\ rd.got = reader[r].got \o Stamps(N) /\ rd \in Readers
  <2>1. reader[r] \in Readers
    BY ReaderTyped
  <2>2. Stamps(N) \in Seq(Nat)
    BY RowsListable, Stamping
  <2>3. reader[r].got \o Stamps(N) \in Seq(Nat)
    BY <2>1, <2>2, ConcatProperties DEF Readers
  <2> QED BY <1>3, <2>1, <2>3 DEF Delivered, Readers
<1> HIDE DEF rd, v, status
<1>7. /\ reader' \in [Reader -> Readers]
      /\ reader'[r].status = status /\ reader'[r].first = reader[r].first
      /\ reader'[r].cursor = k /\ reader'[r].got = reader[r].got \o Stamps(N)
      /\ \A x \in Reader : x # r => reader'[x] = reader[x]
  <2>1. [rd EXCEPT !.status = status] \in Readers
    BY <1>4, <1>6 DEF Readers, Statuses
  <2> HIDE DEF k, N
  <2> QED BY <1>1, <1>6, <2>1, ReaderTyped DEF Readers
<1>8. /\ pump' \in [Reader -> [Pump -> Pumps]] /\ pump'[r][p] = v
      /\ \A x \in Reader, y \in Pump : ~(x = r /\ y = p) => pump'[x][y] = pump[x][y]
  BY <1>1, <1>5, PumpTyped
<1>9. pump[r][p].stage # "idle"
  BY <1>1
<1>10. ASSUME status = "ended"
       PROVE  /\ closedAt # 0
              /\ \A c \in After(Chunks(rows), reader[r].first) : c.at < closedAt => c.idx < k
  BY <1>2, <1>4, <1>10 DEF StreamInv, WorldInv, RangeInv, OnePump, After, Chunks
<1> HIDE DEF N, k
<1>11. HandsOver(r, p, N, k)
  BY <1>1, <1>2, <1>4, <1>5, <1>7, <1>8 DEF HandsOver
<1> QED BY <1>3, <1>7, <1>9, <1>10, <1>11, HandedOver

(* The rows that the loop of a polled pump hands over are due, and when it *)
(* meets the done row nothing stored before the close is left.             *)
LEMMA FreshDue ==
  ASSUME StreamInv, NEW r \in Reader, NEW p \in Pump
  PROVE  LET B == pump[r][p].batch
             N == Fresh(B, reader[r].cursor)
             k == Past(N, reader[r].cursor) IN
           /\ k \in Nat /\ Due(r, p, N, k)
           /\ Orderly /\ (\E d \in Ahead(B, reader[r].cursor) : d.done) =>
                /\ closedAt # 0
                /\ \A c \in After(Chunks(rows), reader[r].first) : c.at < closedAt => c.idx < k
<1> DEFINE B == pump[r][p].batch
           k0 == reader[r].cursor
           A == Ahead(B, k0)
           N == Fresh(B, k0)
           k == Past(N, k0)
<1>1. Listable(B) /\ B \subseteq Row /\ k0 \in Nat
  BY RowsListable, ReaderTyped DEF Readers, Listable
<1>2. /\ \A c \in A : c \in B /\ k0 <= c.idx
      /\ \A c \in B : k0 <= c.idx /\ (\A d \in B : d.idx = c.idx => c.at <= d.at) => c \in A
      /\ \A c \in N : c \in A /\ \A d \in A : d.done => c.idx < d.idx
      /\ \A c \in A : (\A d \in A : d.done => c.idx < d.idx) => c \in N
  BY <1>1 DEF Ahead, Fresh, Row
<1>3. \A c \in B : c.idx \in Nat /\ c.at \in Nat /\ c.done \in BOOLEAN
  BY <1>1 DEF Row
<1>4. \A c \in N : c \in B /\ k0 <= c.idx /\ ~c.done
  BY <1>2, <1>3
<1> HIDE DEF A, N
<1>5. \/ N = {} /\ k = k0
      \/ \E e \in N : k = e.idx + 1 /\ \A d \in N : d.idx <= e.idx
  <2>1. CASE N = {}
    BY <2>1 DEF Past
  <2>2. CASE N # {}
    <3>1. Listable(N)
      BY <1>1, <1>4, PartListable
    <3> QED BY <1>1, <2>2, <3>1, PastLast
  <2> QED BY <2>1, <2>2
<1> HIDE DEF k
<1>6. k \in Nat /\ k0 <= k /\ \A c \in N : k0 <= c.idx /\ c.idx < k
  BY <1>1, <1>3, <1>4, <1>5
<1>7. ASSUME Orderly
      PROVE  /\ B \subseteq rows
             /\ \A c \in B, d \in rows : k0 <= d.idx /\ d.idx <= c.idx => d \in B
             /\ \A c, d \in rows : c.idx = d.idx => c = d
             /\ \A c, d \in rows : c.at < d.at => c.idx < d.idx
             /\ \A c \in rows : c \in Row /\ c.idx < Cardinality(rows)
             /\ Cardinality(rows) \in Nat
             /\ closedAt \in Nat /\ \A c \in rows : c.done => closedAt # 0 /\ closedAt <= c.at
  <2>1. Batch(r, p) /\ OrderInv /\ StampInv /\ closedAt \in Nat
    BY <1>7 DEF StreamInv, BatchInv, Typed, StoreTyped
  <2>2. \A c, d \in rows : c.idx = d.idx => c = d
    BY <1>7, OrderlyRows
  <2>3. Cardinality(rows) \in Nat /\ rows \subseteq Row
    BY <1>7, OrderlyRows, RowsListable DEF Listable
  <2> QED BY <1>7, <2>1, <2>2, <2>3 DEF Batch, OrderInv, StampInv
<1>8. ASSUME Orderly, NEW c \in B, k0 <= c.idx PROVE c \in A
  <2>1. \A d \in B : d.idx = c.idx => d = c
    BY <1>7, <1>8
  <2>2. \A d \in B : d.idx = c.idx => c.at <= d.at
    BY <1>3, <2>1
  <2> QED BY <1>2, <1>8, <2>2
<1>9. Due(r, p, N, k)
  <2>1. ASSUME Orderly
        PROVE  /\ N \subseteq Chunks(rows)
               /\ k <= Cardinality(rows) \/ k = k0
    <3>1. N \subseteq Chunks(rows)
      BY <1>4, <1>7, <2>1 DEF Chunks, Chunk
    <3>2. \A e \in N : e.idx \in Nat /\ e.idx < Cardinality(rows)
      BY <1>3, <1>4, <1>7, <2>1
    <3> QED BY <1>5, <1>7, <2>1, <3>1, <3>2
  <2>2. ASSUME Orderly, NEW c \in Chunks(rows), k0 <= c.idx, c.idx < k
        PROVE  c \in N
    <3>1. c \in rows /\ c.idx \in Nat /\ c \in Row
      BY <1>7, <2>2 DEF Chunks, Row
    <3>2. PICK e \in N : k = e.idx + 1
      BY <1>1, <1>5, <2>2, <3>1
    <3>3. e \in B /\ e.idx \in Nat
      BY <1>3, <1>4
    <3>4. c.idx <= e.idx
      BY <2>2, <3>1, <3>2, <3>3
    <3>5. c \in A
      BY <1>7, <1>8, <2>2, <3>1, <3>3, <3>4
    <3>6. \A d \in A : d.done => c.idx < d.idx
      <4>1. \A d \in A : d.done => e.idx < d.idx /\ d.idx \in Nat
        BY <1>2, <1>3
      <4> QED BY <3>1, <3>3, <3>4, <4>1
    <3> QED BY <1>2, <3>5, <3>6
  <2>3. N \subseteq pump[r][p].batch /\ k0 = reader[r].cursor
    BY <1>4
  <2> HIDE DEF B, k0
  <2> QED BY <1>6, <2>1, <2>2, <2>3 DEF Due
<1>10. ASSUME Orderly, NEW d \in A, d.done
       PROVE  /\ closedAt # 0
              /\ \A c \in After(Chunks(rows), reader[r].first) : c.at < closedAt => c.idx < k
  <2>1. d \in B /\ d \in rows /\ closedAt # 0
    BY <1>2, <1>7, <1>10
  <2>2. ASSUME NEW c \in Chunks(rows), c.at < closedAt PROVE c.idx < k
    <3>1. c \in rows /\ c \in Row /\ c.idx \in Nat /\ c.at \in Nat
      BY <1>7, <1>10 DEF Chunks, Row
    <3>2. CASE c.idx < k0
      BY <1>1, <1>6, <3>1, <3>2
    <3>3. CASE k0 <= c.idx
      <4>1. \A e \in A : e.done => c.idx < e.idx
        <5>1. \A e \in A : e \in rows /\ e.at \in Nat
          BY <1>2, <1>3, <1>7, <1>10
        <5>2. \A e \in A : e.done => c.at < e.at
          BY <1>7, <1>10, <2>2, <3>1, <5>1
        <5> QED BY <1>7, <1>10, <3>1, <5>1, <5>2
      <4>2. c.idx <= d.idx
        <5>1. c.idx < d.idx /\ d.idx \in Nat
          BY <1>3, <1>10, <2>1, <4>1
        <5> QED BY <3>1, <5>1
      <4>3. c \in A
        BY <1>7, <1>8, <1>10, <2>1, <3>1, <3>3, <4>2
      <4> QED BY <1>2, <1>6, <4>1, <4>3
    <3> QED BY <1>1, <3>1, <3>2, <3>3
  <2> QED BY <2>1, <2>2 DEF After
<1>11. Orderly /\ (\E d \in A : d.done) =>
         /\ closedAt # 0
         /\ \A c \in After(Chunks(rows), reader[r].first) : c.at < closedAt => c.idx < k
  BY <1>10
<1> QED BY <1>6, <1>9, <1>11 DEF A, B, N, k, k0

LEMMA DeliverStep ==
  ASSUME StreamInv, NEW r \in Reader, NEW p \in Pump, Deliver(r, p)
  PROVE  StreamInv'
<1> DEFINE B == pump[r][p].batch
           N == Fresh(B, reader[r].cursor)
           k == Past(N, reader[r].cursor)
           ends == \E d \in Ahead(B, reader[r].cursor) : d.done
           rd == Visit(reader[r], B)
<1>1. /\ reader[r].status = "open" /\ pump[r][p].stage = "deliver"
      /\ reader' = [reader EXCEPT ![r] = rd]
      /\ pump' = [pump EXCEPT ![r][p] = Asleep]
      /\ UNCHANGED <<world, store, overlap, issued, errors, writer, pager>>
  <2>1. [Asleep EXCEPT !.stage = "idle"] = Asleep
    BY DEF Asleep
  <2>2. reader' = [reader EXCEPT ![r] = rd]
    BY ReaderTyped DEF Deliver
  <2> QED BY <2>1, <2>2 DEF Deliver, At, Goto, OnlyReader
<1>2. /\ k \in Nat /\ Due(r, p, N, k)
      /\ Orderly /\ ends =>
           /\ closedAt # 0
           /\ \A c \in After(Chunks(rows), reader[r].first) : c.at < closedAt => c.idx < k
  BY FreshDue
<1>3. Stamps(N) \in Seq(Nat)
  <2>1. N \subseteq B
    BY <1>2 DEF Due
  <2> HIDE DEF N
  <2> QED BY <2>1, RowsListable, PartListable, Stamping
<1>4. reader[r] \in Readers
  BY ReaderTyped
<1>5. /\ rd.first = reader[r].first /\ rd.cursor = k
      /\ rd.got = reader[r].got \o Stamps(N)
      /\ rd.status = IF ends THEN "ended" ELSE "open"
      /\ rd.again = reader[r].again
      /\ rd = [status |-> rd.status, first |-> rd.first, cursor |-> rd.cursor,
               got |-> rd.got, again |-> rd.again]
  <2>1. rd = [reader[r] EXCEPT !.status = IF ends THEN "ended" ELSE reader[r].status,
                               !.cursor = k,
                               !.got = reader[r].got \o Stamps(N)]
    BY DEF Visit
  <2> HIDE DEF N, k, ends, rd
  <2> QED BY <1>1, <1>4, <2>1 DEF Readers
<1>6. reader[r].got \o Stamps(N) \in Seq(Nat)
  <2>1. reader[r].got \in Seq(Nat)
    BY <1>4 DEF Readers
  <2> HIDE DEF N
  <2> QED BY <1>3, <2>1, ConcatProperties
<1> HIDE DEF N, k, ends, rd
<1>7. rd \in Readers
  <2>1. rd.first \in Nat /\ rd.again \in BOOLEAN /\ rd.cursor \in Nat /\ rd.got \in Seq(Nat)
    BY <1>2, <1>4, <1>5, <1>6 DEF Readers
  <2>2. rd.status \in Statuses
    BY <1>5 DEF Statuses
  <2> QED BY <1>5, <2>1, <2>2 DEF Readers
<1>8. /\ reader' \in [Reader -> Readers] /\ reader'[r] = rd
      /\ \A x \in Reader : x # r => reader'[x] = reader[x]
  BY <1>1, <1>7, ReaderTyped
<1>9. Asleep \in Pumps /\ Asleep.batch = {} /\ Asleep.keys = {}
  BY DEF Asleep, Pumps, Stages
<1>10. /\ pump' \in [Reader -> [Pump -> Pumps]] /\ pump'[r][p] = Asleep
       /\ \A x \in Reader, y \in Pump : ~(x = r /\ y = p) => pump'[x][y] = pump[x][y]
  <2>1. /\ pump' \in [Reader -> [Pump -> Pumps]]
        /\ \A x \in Reader, y \in Pump :
             pump'[x][y] = IF x = r /\ y = p THEN Asleep ELSE pump[x][y]
    BY <1>1, <1>9, PumpTyped
  <2> QED BY <2>1
<1>11. rd.status \in {"open", "ended"} /\ (rd.status = "ended" => ends)
  BY <1>5
<1>12. HandsOver(r, p, N, k)
  BY <1>1, <1>5, <1>8, <1>9, <1>10, <1>11 DEF HandsOver
<1>13. pump[r][p].stage # "idle"
  BY <1>1
<1>14. reader'[r].status = "ended" /\ Orderly =>
         /\ closedAt # 0
         /\ \A c \in After(Chunks(rows), reader[r].first) : c.at < closedAt => c.idx < k
  BY <1>2, <1>8, <1>11
<1> QED BY <1>2, <1>12, <1>13, <1>14, HandedOver

LEMMA NoStamps == Stamps({}) = <<>>
<1>1. Listable({}) /\ Cardinality({}) = 0
  BY FS_EmptySet DEF Listable
<1>2. Stamps({}) \in Seq(Nat) /\ Len(Stamps({})) = 0
  BY <1>1, Stamping
<1> QED BY <1>2

(* A negative start index counts back from the tail, and stops at 0.       *)
LEMMA FirstCursorTyped ==
  ASSUME StreamInv, NEW s \in Start
  PROVE  FirstCursor(s) \in Nat
<1> DEFINE x == Cardinality(Chunks(rows)) + s
<1>1. s \in Int /\ Cardinality(Chunks(rows)) \in Nat
  BY StreamsAssumption, RowsListable, FS_CardinalityType DEF Listable
<1>2. x \in Int
  BY <1>1
<1> HIDE DEF x
<1>3. Max({0, x}) \in {0, x} /\ \A y \in {0, x} : Max({0, x}) >= y
  <2>1. \E m \in {0, x} : \A y \in {0, x} : m >= y
    BY <1>2
  <2> QED BY <2>1 DEF Max
<1>4. Max({0, x}) \in Nat
  BY <1>2, <1>3
<1> QED BY <1>1, <1>4 DEF FirstCursor, x

LEMMA OpenStep ==
  ASSUME StreamInv, NEW r \in Reader, NEW s \in Start, Open(r, s)
  PROVE  StreamInv'
<1> DEFINE k == FirstCursor(s)
<1>1. k \in Nat
  BY FirstCursorTyped
<1>2. /\ rows' = rows /\ done' = done /\ stamp' = stamp /\ closedAt' = closedAt
      /\ world' = world /\ overlap' = overlap /\ writer' = writer /\ pager' = pager
      /\ issued' = issued /\ errors' = errors /\ pump' = pump
      /\ reader[r].status = "new"
      /\ reader' = [reader EXCEPT ![r].status = "open", ![r].first = k, ![r].cursor = k]
  BY DEF Open, store
<1> HIDE DEF k
<1>3. /\ reader' \in [Reader -> Readers]
      /\ reader'[r].status = "open" /\ reader'[r].first = k /\ reader'[r].cursor = k
      /\ reader'[r].got = reader[r].got
      /\ \A x \in Reader : x # r => reader'[x] = reader[x]
  BY <1>1, <1>2, ReaderTyped DEF Readers, Statuses
<1>4. reader[r].got = <<>> /\ \A p \in Pump : pump[r][p] = Asleep
  BY <1>2 DEF StreamInv, HandedInv, Handed
<1>5. (Polled' <=> Polled) /\ (Orderly' <=> Orderly)
  BY <1>2 DEF Polled, Orderly
<1>6. Asleep.stage = "idle" /\ Asleep.keys = {} /\ Asleep.batch = {}
  BY DEF Asleep
<1>7. Typed' /\ WorldInv' /\ StampInv' /\ OrderInv' /\ PagerInv'
  <2>1. Typed' /\ StampInv'
    BY <1>2, <1>3 DEF StreamInv, Typed, StoreTyped, StampInv
  <2>2. WorldInv'
    BY <1>2, <1>5 DEF StreamInv, WorldInv
  <2>3. OrderInv' /\ PagerInv'
    BY <1>2, <1>5 DEF StreamInv, OrderInv, PagerInv
  <2> QED BY <2>1, <2>2, <2>3
<1>8. HandedInv'
  <2> SUFFICES ASSUME NEW x \in Reader PROVE Handed(x)'
    BY DEF HandedInv
  <2>1. Read(x)' = Read(x) /\ Handed(x)
    BY <1>2 DEF Read, StreamInv, HandedInv
  <2>2. CASE x # r
    BY <1>2, <1>3, <1>5, <2>1, <2>2 DEF Handed
  <2>3. CASE x = r
    BY <1>2, <1>3, <1>4, <1>5, <2>1, <2>3 DEF Handed
  <2> QED BY <2>2, <2>3
<1>9. ReaderInv'
  <2> SUFFICES ASSUME Orderly, NEW x \in Reader PROVE UpToCursor(x)'
    BY <1>5 DEF ReaderInv
  <2>1. CASE x # r
    <3>1. Window(x)' = Window(x)
      BY <1>2, <1>3, <2>1 DEF Window
    <3> QED BY <1>2, <1>3, <2>1, <3>1 DEF StreamInv, ReaderInv, UpToCursor
  <2>2. CASE x = r
    <3>1. Window(r)' = {c \in Chunks(rows) : k <= c.idx /\ c.idx < k}
      BY <1>2, <1>3 DEF Window
    <3>2. \A c \in Chunks(rows) : c.idx \in Nat
      BY RowsListable DEF Listable, Row
    <3>3. Window(r)' = {}
      BY <1>1, <3>1, <3>2
    <3>4. reader'[r].got = Stamps(Window(r)')
      BY <1>3, <1>4, <3>3, NoStamps
    <3>5. reader'[r].first <= reader'[r].cursor /\ reader'[r].cursor = reader'[r].first
      BY <1>1, <1>3
    <3> QED BY <1>3, <2>2, <3>4, <3>5 DEF UpToCursor
  <2> QED BY <2>1, <2>2
<1>10. BatchInv'
  <2> SUFFICES ASSUME Orderly, NEW x \in Reader, NEW p \in Pump PROVE Batch(x, p)'
    BY <1>5 DEF BatchInv
  <2>1. CASE x # r
    BY <1>2, <1>3, <2>1 DEF StreamInv, BatchInv, Batch
  <2>2. CASE x = r
    BY <1>2, <1>4, <1>6, <2>2 DEF Batch
  <2> QED BY <2>1, <2>2
<1>11. RangeInv'
  <2> SUFFICES ASSUME ~Polled, NEW x \in Reader, NEW p \in Pump PROVE OnePump(x, p)'
    BY <1>5 DEF RangeInv
  <2>1. CASE x # r
    <3>1. reader'[x] = reader[x] /\ OnePump(x, p)
      BY <1>3, <2>1 DEF StreamInv, RangeInv
    <3> QED BY <1>2, <3>1 DEF OnePump
  <2>2. CASE x = r
    BY <1>2, <1>4, <1>6, <2>2 DEF OnePump
  <2> QED BY <2>1, <2>2
<1> QED BY <1>7, <1>8, <1>9, <1>10, <1>11 DEF StreamInv

-----------------------------------------------------------------------------
(* Writers *)

(* The stamps and the close move on, the rows stay.                        *)
LEMMA SetDoneStep ==
  ASSUME StreamInv, NEW w \in Writer, SetDone(w)
  PROVE  StreamInv'
<1>1. /\ rows' = rows /\ done' = TRUE /\ stamp' = stamp + 1
      /\ closedAt' = IF closedAt = 0 THEN stamp + 1 ELSE closedAt
      /\ world' = world /\ overlap' = overlap /\ writer' = writer /\ pager' = pager
      /\ errors' = errors /\ reader' = reader /\ pump' = pump
      /\ issued' = issued + 1
      /\ ~Polled
  BY DEF SetDone, Budget
<1>2. stamp \in Nat /\ closedAt \in Nat /\ issued \in Nat /\ rows \subseteq Row
  BY DEF StreamInv, Typed, StoreTyped
<1>3. closedAt' \in Nat /\ closedAt' # 0 /\ closedAt' <= stamp' /\ stamp' \in Nat /\ issued' \in Nat
      /\ (closedAt # 0 => closedAt' = closedAt)
  BY <1>1, <1>2 DEF StreamInv, StampInv
<1>4. (Polled' <=> Polled) /\ (Orderly' <=> Orderly)
  BY <1>1 DEF Polled, Orderly
<1>5. Typed'
  BY <1>1, <1>3 DEF StreamInv, Typed, StoreTyped
<1>6. WorldInv'
  BY <1>1, <1>3, <1>4 DEF StreamInv, WorldInv
<1>7. StampInv'
  <2>1. \A c \in rows : c.at \in Nat /\ 1 <= c.at /\ c.at <= stamp /\ ~c.done
    BY <1>1, <1>2 DEF StreamInv, StampInv, WorldInv, Row
  <2>2. \A c \in rows : 1 <= c.at /\ c.at <= stamp'
    BY <1>1, <1>2, <2>1
  <2> QED BY <1>1, <1>3, <2>1, <2>2 DEF StreamInv, StampInv
<1>8. OrderInv'
  BY <1>1, <1>4 DEF StreamInv, OrderInv
<1>9. HandedInv'
  <2> SUFFICES ASSUME NEW r \in Reader PROVE Handed(r)'
    BY DEF HandedInv
  <2>1. Read(r)' = Read(r) /\ Handed(r)
    BY <1>1 DEF Read, StreamInv, HandedInv
  <2>2. \A c \in Read(r) : c.at <= stamp'
    <3>1. \A c \in Read(r) : c.at \in Nat
      <4>1. \A p \in Pump : pump[r][p].batch \subseteq Row
        BY RowsListable DEF Listable
      <4> QED BY <4>1 DEF Read, Row
    <3>2. \A c \in Read(r) : c.at <= stamp
      BY <2>1 DEF Handed
    <3> QED BY <1>1, <1>2, <3>1, <3>2
  <2>3. \A i \in DOMAIN reader[r].got : reader[r].got[i] <= stamp'
    <3>1. \A i \in DOMAIN reader[r].got : reader[r].got[i] \in Nat /\ reader[r].got[i] <= stamp
      BY <2>1, ReaderTyped DEF Handed, Readers
    <3> QED BY <1>1, <1>2, <3>1
  <2> QED BY <1>1, <1>4, <2>1, <2>2, <2>3 DEF Handed
<1>10. ReaderInv'
  <2> SUFFICES ASSUME Orderly, NEW r \in Reader PROVE UpToCursor(r)'
    BY <1>4 DEF ReaderInv
  <2>1. Window(r)' = Window(r) /\ UpToCursor(r)
    BY <1>1 DEF Window, StreamInv, ReaderInv
  <2> QED BY <1>1, <1>3, <2>1 DEF UpToCursor
<1>11. BatchInv'
  BY <1>1, <1>4 DEF StreamInv, BatchInv, Batch
<1>12. RangeInv'
  <2> SUFFICES ASSUME NEW r \in Reader, NEW p \in Pump PROVE OnePump(r, p)'
    BY DEF RangeInv
  <2>1. OnePump(r, p) /\ (done => closedAt # 0)
    BY <1>1 DEF StreamInv, RangeInv, WorldInv
  <2> QED BY <1>1, <1>3, <2>1 DEF OnePump
<1>13. PagerInv'
  BY <1>1, <1>4 DEF StreamInv, PagerInv
<1> QED BY <1>5, <1>6, <1>7, <1>8, <1>9, <1>10, <1>11, <1>12, <1>13 DEF StreamInv

(* The store stays as it is, and what a writer has under way changes.      *)
LEMMA WriterMoved ==
  ASSUME StreamInv, UNCHANGED <<world, store, reader, pump, pager>>,
         issued' \in Nat, errors' \in Nat, overlap' \in BOOLEAN, overlap => overlap',
         writer' \in [Writer -> {Idle} \union Writes],
         ~Polled => ~overlap' /\ \A w \in Writer : writer'[w] = Idle,
         ~overlap' => \A w \in Writer : writer'[w] # Idle =>
           /\ writer'[w].idx = Cardinality(rows)
           /\ \A v \in Writer : writer'[v] # Idle => v = w
  PROVE  StreamInv'
<1>1. /\ rows' = rows /\ done' = done /\ stamp' = stamp /\ closedAt' = closedAt
      /\ world' = world /\ reader' = reader /\ pump' = pump /\ pager' = pager
  BY DEF store
<1>2. (Polled' <=> Polled) /\ (Orderly' => Orderly)
  BY <1>1 DEF Polled, Orderly
<1>3. Typed' /\ StampInv'
  BY <1>1 DEF StreamInv, Typed, StoreTyped, StampInv
<1>4. WorldInv'
  BY <1>1, <1>2 DEF StreamInv, WorldInv
<1>5. OrderInv'
  BY <1>1, <1>2 DEF StreamInv, OrderInv, Orderly
<1>6. HandedInv'
  <2> SUFFICES ASSUME NEW r \in Reader PROVE Handed(r)'
    BY DEF HandedInv
  <2>1. Read(r)' = Read(r) /\ Handed(r)
    BY <1>1 DEF Read, StreamInv, HandedInv
  <2> QED BY <1>1, <1>2, <2>1 DEF Handed
<1>7. ReaderInv'
  <2> SUFFICES ASSUME Orderly, NEW r \in Reader PROVE UpToCursor(r)'
    BY <1>2 DEF ReaderInv
  <2>1. Window(r)' = Window(r) /\ UpToCursor(r)
    BY <1>1 DEF Window, StreamInv, ReaderInv
  <2> QED BY <1>1, <2>1 DEF UpToCursor
<1>8. BatchInv'
  BY <1>1, <1>2 DEF StreamInv, BatchInv, Batch
<1>9. RangeInv'
  BY <1>1, <1>2 DEF StreamInv, RangeInv, OnePump
<1>10. PagerInv'
  BY <1>1, <1>2 DEF StreamInv, PagerInv
<1> QED BY <1>3, <1>4, <1>5, <1>6, <1>7, <1>8, <1>9, <1>10 DEF StreamInv

LEMMA BeginStep ==
  ASSUME StreamInv, NEW w \in Writer, NEW n \in 1..MaxBatch, NEW last \in BOOLEAN,
         Begin(w, n, last)
  PROVE  StreamInv'
<1> DEFINE v == [stage |-> "put", idx |-> NextIdx, left |-> n, last |-> last]
<1>1. /\ Polled /\ writer[w] = Idle /\ writer' = [writer EXCEPT ![w] = v]
      /\ overlap' = (overlap \/ \E x \in Writer : writer[x] # Idle)
      /\ issued' = issued + n
      /\ UNCHANGED <<world, store, errors, reader, pump, pager>>
  BY DEF Begin, Budget
<1>2. /\ issued \in Nat /\ errors \in Nat /\ overlap \in BOOLEAN
      /\ writer \in [Writer -> {Idle} \union Writes]
      /\ MaxBatch \in Nat /\ n \in Nat
  BY StreamsAssumption DEF StreamInv, Typed, StoreTyped
<1>3. NextIdx \in Nat
  <2>1. CASE rows = {}
    BY <2>1 DEF NextIdx, Past
  <2>2. CASE rows # {}
    <3>1. PICK c \in rows : Past(rows, 0) = c.idx + 1
      BY <2>2, RowsListable, PastLast
    <3>2. c.idx \in Nat
      BY RowsListable DEF Listable, Row
    <3> QED BY <3>1, <3>2 DEF NextIdx
  <2> QED BY <2>1, <2>2
<1>4. v \in Writes /\ v.idx = NextIdx
  BY <1>3 DEF Writes
<1> HIDE DEF v
<1>5. /\ writer' \in [Writer -> {Idle} \union Writes]
      /\ writer'[w] = v /\ \A x \in Writer : x # w => writer'[x] = writer[x]
  BY <1>1, <1>2, <1>4
<1>6. ASSUME ~overlap', NEW x \in Writer, writer'[x] # Idle
      PROVE  /\ writer'[x].idx = Cardinality(rows)
             /\ \A y \in Writer : writer'[y] # Idle => y = x
  <2>1. Orderly /\ \A y \in Writer : writer[y] = Idle
    BY <1>1, <1>6 DEF Orderly
  <2>2. x = w /\ \A y \in Writer : writer'[y] # Idle => y = w
    BY <1>5, <1>6, <2>1
  <2>3. NextIdx = Cardinality(rows)
    BY <2>1, OrderlyRows
  <2> QED BY <1>4, <1>5, <2>2, <2>3
<1>7. issued' \in Nat /\ errors' \in Nat /\ overlap' \in BOOLEAN /\ (overlap => overlap')
  BY <1>1, <1>2
<1>8. UNCHANGED <<world, store, reader, pump, pager>>
  BY <1>1
<1> QED BY <1>1, <1>5, <1>6, <1>7, <1>8, WriterMoved

LEMMA WriterStopsStep ==
  ASSUME StreamInv, NEW w \in Writer, WriterStops(w)
  PROVE  StreamInv'
<1>1. /\ writer[w] # Idle /\ writer' = [writer EXCEPT ![w] = Idle]
      /\ errors' = errors + 1
      /\ UNCHANGED <<world, store, overlap, issued, reader, pump, pager>>
  BY DEF WriterStops
<1>2. /\ issued \in Nat /\ errors \in Nat /\ overlap \in BOOLEAN
      /\ writer \in [Writer -> {Idle} \union Writes]
  BY DEF StreamInv, Typed, StoreTyped
<1>3. /\ writer' \in [Writer -> {Idle} \union Writes]
      /\ writer'[w] = Idle /\ \A x \in Writer : x # w => writer'[x] = writer[x]
  BY <1>1, <1>2
<1>4. Polled
  BY <1>1 DEF StreamInv, WorldInv
<1>5. ~overlap' => \A x \in Writer : writer'[x] # Idle =>
        /\ writer'[x].idx = Cardinality(rows)
        /\ \A y \in Writer : writer'[y] # Idle => y = x
  BY <1>1, <1>3 DEF StreamInv, OrderInv, Orderly
<1>6. /\ issued' \in Nat /\ errors' \in Nat /\ overlap' \in BOOLEAN /\ (overlap => overlap')
      /\ UNCHANGED <<world, store, reader, pump, pager>>
  BY <1>1, <1>2
<1> QED BY <1>3, <1>4, <1>5, <1>6, WriterMoved

(* The rows of one store: n of them, stored one after the other.           *)
LEMMA NewRowsAre ==
  ASSUME StreamInv, NEW idx \in Nat, NEW n \in Nat, NEW last \in BOOLEAN
  PROVE  LET new == NewRows(idx, n, last) IN
           /\ new \subseteq Row /\ IsFiniteSet(new) /\ Cardinality(new) = n
           /\ \A c \in new : /\ idx <= c.idx /\ c.idx < idx + n
                             /\ stamp < c.at /\ c.at <= stamp + n
                             /\ c.idx + stamp + 1 = c.at + idx
                             /\ c.done = last
<1> DEFINE new == NewRows(idx, n, last)
           f == [i \in 1..n |-> [idx |-> idx + i - 1, at |-> stamp + i, done |-> last]]
<1>1. stamp \in Nat
  BY DEF StreamInv, Typed, StoreTyped
<1>2. \A c \in new : \E i \in 1..n : c = [idx |-> idx + i - 1, at |-> stamp + i, done |-> last]
  BY DEF NewRows
<1>3. new \subseteq Row
  <2> SUFFICES ASSUME NEW c \in new PROVE c \in Row
    OBVIOUS
  <2>1. PICK i \in 1..n : c = [idx |-> idx + i - 1, at |-> stamp + i, done |-> last]
    BY <1>2
  <2>2. idx + i - 1 \in Nat /\ stamp + i \in Nat
    BY <1>1
  <2> QED BY <2>1, <2>2 DEF Row
<1>4. \A c \in new : /\ idx <= c.idx /\ c.idx < idx + n
                     /\ stamp < c.at /\ c.at <= stamp + n
                     /\ c.idx + stamp + 1 = c.at + idx
                     /\ c.done = last
  <2> TAKE c \in new
  <2>1. PICK i \in 1..n : c = [idx |-> idx + i - 1, at |-> stamp + i, done |-> last]
    BY <1>2
  <2>2. c.idx = idx + i - 1 /\ c.at = stamp + i /\ c.done = last
    BY <2>1
  <2> QED BY <1>1, <2>2
<1>5. IsFiniteSet(new) /\ Cardinality(new) = n
  <2>1. \A i \in 1..n : f[i].at = stamp + i /\ f[i] \in new
    BY DEF NewRows
  <2>2. f \in [1..n -> new]
    BY <2>1
  <2>3. \A c \in new : \E i \in 1..n : f[i] = c
    BY <1>2
  <2>4. \A i, j \in 1..n : f[i] = f[j] => i = j
    <3> HIDE DEF f
    <3>1. \A i, j \in 1..n : stamp + i = stamp + j => i = j
      BY <1>1
    <3> QED BY <2>1, <3>1
  <2> HIDE DEF f, new
  <2>5. f \in Bijection(1..n, new)
    BY <2>2, <2>3, <2>4 DEF Bijection, Injection, Surjection, IsInjective
  <2>6. ExistsBijection(1..n, new)
    BY <2>5 DEF ExistsBijection
  <2>7. IsFiniteSet(1..n) /\ Cardinality(1..n) = n
    BY FS_Interval
  <2> QED BY <2>6, <2>7, FS_Bijection
<1> QED BY <1>3, <1>4, <1>5

(* What a store of n rows from index idx does to the rows.                 *)
Stores(idx, n, last) ==
  /\ Store(idx, n, last)
  /\ UNCHANGED <<world, done, overlap, reader, pump, pager>>
  /\ issued' \in Nat /\ errors' \in Nat
  /\ writer' \in [Writer -> {Idle} \union Writes]
  /\ ~Polled => ~last /\ writer' = writer
  /\ Orderly =>
       /\ idx = Cardinality(rows)
       /\ \A w \in Writer : writer'[w] # Idle =>
            /\ writer'[w].idx = idx + n
            /\ \A v \in Writer : writer'[v] # Idle => v = w

LEMMA RowsAfter ==
  ASSUME StreamInv, NEW idx \in Nat, NEW n \in Nat, n # 0, NEW last \in BOOLEAN,
         Stores(idx, n, last)
  PROVE  LET new == NewRows(idx, n, last) IN
           /\ rows' \subseteq rows \union new /\ IsFiniteSet(rows') /\ rows' \subseteq Row
           /\ Orderly => /\ rows' = rows \union new
                         /\ Cardinality(rows') = Cardinality(rows) + n
                         /\ \A c \in rows, d \in new : c.idx < d.idx
<1> DEFINE new == NewRows(idx, n, last)
<1>1. /\ new \subseteq Row /\ IsFiniteSet(new) /\ Cardinality(new) = n
      /\ \A c \in new : idx <= c.idx
  BY NewRowsAre
<1>2. rows' = {c \in rows : world = "kv" => \A d \in new : d.idx # c.idx} \union new
  BY DEF Stores, Store, Stored
<1>3. IsFiniteSet(rows) /\ rows \subseteq Row
  BY RowsListable DEF Listable
<1> HIDE DEF new
<1>4. rows' \subseteq rows \union new /\ rows' \subseteq Row
  BY <1>1, <1>2, <1>3
<1>5. IsFiniteSet(rows')
  <2> DEFINE U == rows'
  <2>1. U \in SUBSET (rows \union new)
    BY <1>4
  <2> HIDE DEF U
  <2>2. IsFiniteSet(U)
    BY <1>1, <1>3, <2>1, FS_Union, FS_Subset
  <2> QED BY <2>2 DEF U
<1>6. ASSUME Orderly
      PROVE  /\ rows' = rows \union new
             /\ Cardinality(rows') = Cardinality(rows) + n
             /\ \A c \in rows, d \in new : c.idx < d.idx
  <2>1. /\ Cardinality(rows) \in Nat /\ idx = Cardinality(rows)
        /\ \A c \in rows : c.idx < Cardinality(rows)
    BY <1>6, OrderlyRows DEF Stores, StreamInv, OrderInv
  <2>2. \A c \in rows, d \in new : c.idx < d.idx
    <3> TAKE c \in rows, d \in new
    <3>1. c.idx \in Nat /\ d.idx \in Nat
      BY <1>1, <1>3 DEF Row
    <3> QED BY <1>1, <2>1, <3>1
  <2>3. \A c \in rows, d \in new : c.idx # d.idx
    <3> TAKE c \in rows, d \in new
    <3>1. c.idx \in Nat /\ d.idx \in Nat /\ c.idx < d.idx
      BY <1>1, <1>3, <2>2 DEF Row
    <3> QED BY <3>1
  <2>4. rows' = rows \union new /\ rows \cap new = {}
    BY <1>2, <2>3
  <2>5. Cardinality(rows \union new) = Cardinality(rows) + n
    <3>1. Cardinality(rows \union new) =
            Cardinality(rows) + Cardinality(new) - Cardinality(rows \cap new)
      BY <1>1, <1>3, FS_Union
    <3>2. Cardinality(rows \cap new) = 0
      BY <2>4, FS_EmptySet
    <3> QED BY <1>1, <2>1, <3>1, <3>2
  <2> QED BY <2>2, <2>4, <2>5
<1> QED BY <1>4, <1>5, <1>6 DEF new

LEMMA StoreStamps ==
  ASSUME StreamInv, NEW idx \in Nat, NEW n \in Nat, n # 0, NEW last \in BOOLEAN,
         Stores(idx, n, last)
  PROVE  /\ StampInv' /\ stamp' = stamp + n /\ stamp' \in Nat /\ closedAt' \in Nat
         /\ closedAt # 0 => closedAt' = closedAt
         /\ ~last => closedAt' = closedAt
<1> DEFINE new == NewRows(idx, n, last)
<1>1. /\ stamp \in Nat /\ closedAt \in Nat /\ StampInv /\ rows \subseteq Row
  BY DEF StreamInv, Typed, StoreTyped
<1>2. stamp' = stamp + n /\ closedAt' = IF last /\ closedAt = 0 THEN stamp + 1 ELSE closedAt
  BY DEF Stores, Store
<1>3. closedAt <= stamp /\ closedAt' <= stamp' /\ closedAt' \in Nat /\ stamp' \in Nat
  BY <1>1, <1>2 DEF StampInv
<1>4. /\ new \subseteq Row
      /\ \A c \in new : /\ stamp < c.at /\ c.at <= stamp + n
                        /\ c.idx + stamp + 1 = c.at + idx
                        /\ c.done = last
  BY NewRowsAre
<1>5. rows' \subseteq rows \union new
  BY RowsAfter
<1> HIDE DEF new
<1>6. \A c \in rows \union new : 1 <= c.at /\ c.at <= stamp'
  <2>1. \A c \in rows : c.at \in Nat /\ 1 <= c.at /\ c.at <= stamp
    BY <1>1 DEF StampInv, Row
  <2>2. \A c \in new : c.at \in Nat /\ stamp < c.at /\ c.at <= stamp + n
    BY <1>4 DEF Row
  <2>3. \A c \in rows : 1 <= c.at /\ c.at <= stamp'
    BY <1>1, <1>2, <2>1
  <2>4. \A c \in new : 1 <= c.at /\ c.at <= stamp'
    BY <1>1, <1>2, <2>2
  <2> QED BY <2>3, <2>4
<1>7. \A c, d \in rows \union new : c.at = d.at => c = d
  <2>1. \A c, d \in rows : c.at = d.at => c = d
    BY <1>1 DEF StampInv
  <2>2. \A c \in rows, d \in new : c.at # d.at
    <3>1. \A c \in rows : c.at \in Nat /\ c.at <= stamp
      BY <1>1 DEF StampInv, Row
    <3>2. \A d \in new : d.at \in Nat /\ stamp < d.at
      BY <1>4 DEF Row
    <3> TAKE c \in rows, d \in new
    <3>3. c.at < d.at /\ c.at \in Nat /\ d.at \in Nat
      BY <1>1, <3>1, <3>2
    <3> QED BY <3>3
  <2>3. ASSUME NEW c \in new, NEW d \in new, c.at = d.at PROVE c = d
    <3>1. /\ c.idx \in Nat /\ d.idx \in Nat /\ c.at \in Nat /\ d.at \in Nat
          /\ c = [idx |-> c.idx, at |-> c.at, done |-> c.done]
          /\ d = [idx |-> d.idx, at |-> d.at, done |-> d.done]
      BY <1>4 DEF Row
    <3>2. c.idx + stamp + 1 = c.at + idx /\ d.idx + stamp + 1 = d.at + idx
      BY <1>4
    <3>3. c.idx = d.idx
      BY <1>1, <2>3, <3>1, <3>2
    <3>4. c.done = d.done
      BY <1>4
    <3> QED BY <2>3, <3>1, <3>3, <3>4
  <2> QED BY <2>1, <2>2, <2>3
<1>8. \A c \in rows \union new : c.done => closedAt' # 0 /\ closedAt' <= c.at
  <2>1. \A c \in rows : c.done => closedAt # 0 /\ closedAt <= c.at
    BY <1>1 DEF StampInv
  <2>2. \A c \in new : c.at \in Nat /\ stamp < c.at /\ c.done = last
    BY <1>4 DEF Row
  <2>3. ASSUME NEW c \in new, c.done PROVE closedAt' # 0 /\ closedAt' <= c.at
    <3>1. last /\ c.at \in Nat /\ stamp < c.at
      BY <2>2, <2>3
    <3> QED BY <1>1, <1>2, <1>3, <3>1
  <2> QED BY <1>2, <2>1, <2>3
<1>9. StampInv'
  BY <1>3, <1>5, <1>6, <1>7, <1>8 DEF StampInv
<1> QED BY <1>2, <1>3, <1>9

LEMMA StoreHanded ==
  ASSUME StreamInv, NEW idx \in Nat, NEW n \in Nat, n # 0, NEW last \in BOOLEAN,
         Stores(idx, n, last)
  PROVE  HandedInv'
<1> DEFINE new == NewRows(idx, n, last)
<1>1. /\ stamp' = stamp + n /\ stamp \in Nat /\ stamp' \in Nat /\ StampInv'
      /\ reader' = reader /\ pump' = pump /\ world' = world
  BY StoreStamps DEF Stores, StreamInv, Typed, StoreTyped
<1>2. /\ rows' \subseteq rows \union new
      /\ new \subseteq Row /\ \A c \in new : stamp < c.at
  BY RowsAfter, NewRowsAre
<1> HIDE DEF new
<1> SUFFICES ASSUME NEW r \in Reader PROVE Handed(r)'
  BY DEF HandedInv
<1>3. Read(r)' = Read(r) /\ Handed(r) /\ (Polled' <=> Polled)
  BY <1>1 DEF Read, StreamInv, HandedInv, Polled
<1>4. \A c \in Read(r) : c.at \in Nat /\ c.at <= stamp /\ c.at <= stamp'
  <2>1. \A c \in Read(r) : c.at \in Nat
    <3>1. \A p \in Pump : pump[r][p].batch \subseteq Row
      BY RowsListable DEF Listable
    <3> QED BY <3>1 DEF Read, Row
  <2>2. \A c \in Read(r) : c.at <= stamp
    BY <1>3 DEF Handed
  <2> QED BY <1>1, <2>1, <2>2
<1>5. \A i \in DOMAIN reader[r].got :
        reader[r].got[i] \in Nat /\ reader[r].got[i] <= stamp /\ reader[r].got[i] <= stamp'
  <2>1. \A i \in DOMAIN reader[r].got : reader[r].got[i] \in Nat /\ reader[r].got[i] <= stamp
    BY <1>3, ReaderTyped DEF Handed, Readers
  <2> QED BY <1>1, <2>1
<1>6. ASSUME NEW c \in rows' \union Read(r), NEW d \in rows' \union Read(r), c.at = d.at
      PROVE  c = d
  <2>1. CASE c \in rows' /\ d \in rows'
    BY <1>1, <1>6, <2>1 DEF StampInv
  <2>2. CASE c \in rows \union Read(r) /\ d \in rows \union Read(r)
    BY <1>3, <1>6, <2>2 DEF Handed
  <2>3. \A x \in new, y \in Read(r) : x.at # y.at
    <3> TAKE x \in new, y \in Read(r)
    <3>1. x.at \in Nat /\ y.at \in Nat /\ stamp < x.at /\ y.at <= stamp
      BY <1>2, <1>4 DEF Row
    <3> QED BY <1>1, <3>1
  <2> QED BY <1>2, <1>6, <2>1, <2>2, <2>3
<1>7. ASSUME Polled, NEW c \in rows' \union Read(r), c.idx >= reader[r].cursor,
             NEW i \in DOMAIN reader[r].got
      PROVE  reader[r].got[i] # c.at
  <2>1. CASE c \in rows \union Read(r)
    BY <1>3, <1>7, <2>1 DEF Handed
  <2>2. CASE c \in new
    <3>1. c.at \in Nat /\ stamp < c.at
      BY <1>2, <2>2 DEF Row
    <3> QED BY <1>1, <1>5, <3>1
  <2> QED BY <1>2, <1>7, <2>1, <2>2
<1> QED BY <1>1, <1>3, <1>4, <1>5, <1>6, <1>7 DEF Handed

LEMMA StoreStep ==
  ASSUME StreamInv, NEW idx \in Nat, NEW n \in Nat, n # 0, NEW last \in BOOLEAN,
         Stores(idx, n, last)
  PROVE  StreamInv'
<1> DEFINE new == NewRows(idx, n, last)
<1>1. /\ world' = world /\ done' = done /\ overlap' = overlap
      /\ reader' = reader /\ pump' = pump /\ pager' = pager
      /\ issued' \in Nat /\ errors' \in Nat
      /\ writer' \in [Writer -> {Idle} \union Writes]
      /\ ~Polled => ~last /\ writer' = writer
      /\ Orderly =>
           /\ idx = Cardinality(rows)
           /\ \A w \in Writer : writer'[w] # Idle =>
                /\ writer'[w].idx = idx + n
                /\ \A v \in Writer : writer'[v] # Idle => v = w
  BY DEF Stores
<1>2. /\ rows' \subseteq rows \union new /\ IsFiniteSet(rows') /\ rows' \subseteq Row
      /\ Orderly => /\ rows' = rows \union new
                    /\ Cardinality(rows') = Cardinality(rows) + n
                    /\ \A c \in rows, d \in new : c.idx < d.idx
  BY RowsAfter
<1>3. /\ StampInv' /\ stamp' = stamp + n /\ stamp' \in Nat /\ closedAt' \in Nat
      /\ stamp \in Nat /\ closedAt \in Nat /\ closedAt <= stamp
      /\ closedAt # 0 => closedAt' = closedAt
      /\ ~last => closedAt' = closedAt
  BY StoreStamps DEF StreamInv, Typed, StoreTyped, StampInv
<1>4. /\ new \subseteq Row
      /\ \A c \in new : /\ idx <= c.idx /\ c.idx < idx + n
                        /\ stamp < c.at /\ c.at <= stamp + n
                        /\ c.idx + stamp + 1 = c.at + idx
                        /\ c.done = last
  BY NewRowsAre
<1>5. (Polled' <=> Polled) /\ (Orderly' <=> Orderly)
  BY <1>1 DEF Polled, Orderly
<1> HIDE DEF new
<1>6. Typed'
  BY <1>1, <1>2, <1>3 DEF StreamInv, Typed, StoreTyped
<1>7. WorldInv'
  BY <1>1, <1>2, <1>3, <1>4, <1>5 DEF StreamInv, WorldInv
<1>8. HandedInv'
  BY StoreHanded
(* In order: what is stored comes after what there is.                     *)
<1>9. ASSUME Orderly
      PROVE  /\ Cardinality(rows) \in Nat /\ idx = Cardinality(rows)
             /\ \A c \in rows : c.idx \in Nat /\ c.at \in Nat /\ c.at <= stamp
             /\ \A c \in new : c.idx \in Nat /\ c.at \in Nat
             /\ \A c \in rows : c.idx < Cardinality(rows)
             /\ \A c, d \in rows : c.idx < d.idx <=> c.at < d.at
             /\ rows' = rows \union new /\ Cardinality(rows') = Cardinality(rows) + n
             /\ \A c \in rows, d \in new : c.idx < d.idx
  BY <1>1, <1>2, <1>4, <1>9, OrderlyRows, RowsListable
     DEF StreamInv, OrderInv, StampInv, Listable, Row
<1>10. OrderInv'
  <2> SUFFICES ASSUME Orderly
               PROVE  /\ \A c, d \in rows' : c.idx < d.idx <=> c.at < d.at
                      /\ \A c \in rows' : c.idx < Cardinality(rows')
                      /\ \A w \in Writer : writer'[w] # Idle =>
                           /\ writer'[w].idx = Cardinality(rows')
                           /\ \A v \in Writer : writer'[v] # Idle => v = w
    BY <1>5 DEF OrderInv
  <2>1. \A c \in rows, d \in new : /\ c.idx < d.idx /\ c.at < d.at
                                   /\ ~(d.idx < c.idx) /\ ~(d.at < c.at)
    <3> TAKE c \in rows, d \in new
    <3>1. c.at < d.at
      BY <1>3, <1>4, <1>9
    <3> QED BY <1>9, <3>1
  <2>2. \A c, d \in new : c.idx < d.idx <=> c.at < d.at
    BY <1>3, <1>4, <1>9
  <2>3. \A c, d \in rows' : c.idx < d.idx <=> c.at < d.at
    BY <1>9, <2>1, <2>2
  <2>4. \A c \in rows' : c.idx < Cardinality(rows')
    <3>1. \A c \in rows : c.idx < Cardinality(rows) + n
      BY <1>9
    <3>2. \A c \in new : c.idx < Cardinality(rows) + n
      BY <1>4, <1>9
    <3> QED BY <1>9, <3>1, <3>2
  <2> QED BY <1>1, <1>9, <2>3, <2>4
<1>11. ReaderInv'
  <2> SUFFICES ASSUME Orderly, NEW r \in Reader PROVE UpToCursor(r)'
    BY <1>5 DEF ReaderInv
  <2>1. UpToCursor(r) /\ reader[r].first \in Nat /\ reader[r].cursor \in Nat
    BY ReaderTyped DEF StreamInv, ReaderInv, Readers
  <2>2. \A c \in new : ~(reader[r].first <= c.idx /\ c.idx < reader[r].cursor)
    <3> TAKE c \in new
    <3>1. c.idx \in Nat /\ Cardinality(rows) <= c.idx
      BY <1>4, <1>9
    <3>2. reader[r].cursor <= Cardinality(rows) \/ reader[r].cursor = reader[r].first
      BY <2>1 DEF UpToCursor
    <3> QED BY <1>9, <2>1, <3>1, <3>2
  <2>3. Window(r)' = Window(r)
    BY <1>1, <1>9, <2>2 DEF Window, Chunks
  <2>4. reader[r].cursor <= Cardinality(rows') \/ reader[r].cursor = reader[r].first
    BY <1>9, <2>1 DEF UpToCursor
  <2>5. ASSUME reader[r].status = "ended"
        PROVE  /\ closedAt' # 0
               /\ \A c \in After(Chunks(rows'), reader[r].first) :
                    c.at < closedAt' => c.idx < reader[r].cursor
    <3>1. closedAt # 0 /\ closedAt' = closedAt
      BY <1>3, <2>1, <2>5 DEF UpToCursor
    <3>2. \A c \in After(Chunks(rows), reader[r].first) :
            c.at < closedAt => c.idx < reader[r].cursor
      BY <2>1, <2>5 DEF UpToCursor
    <3>3. \A c \in new : ~(c.at < closedAt)
      BY <1>3, <1>4, <1>9
    <3> QED BY <1>9, <3>1, <3>2, <3>3 DEF After, Chunks
  <2> QED BY <1>1, <2>1, <2>3, <2>4, <2>5 DEF UpToCursor
<1>12. BatchInv'
  <2> SUFFICES ASSUME Orderly, NEW r \in Reader, NEW p \in Pump PROVE Batch(r, p)'
    BY <1>5 DEF BatchInv
  <2>1. Batch(r, p) /\ pump[r][p] \in Pumps
    BY ReaderTyped DEF StreamInv, BatchInv
  <2>2. \A c \in pump[r][p].batch, d \in new : ~(d.idx <= c.idx)
    <3> TAKE c \in pump[r][p].batch, d \in new
    <3>1. c \in rows
      BY <2>1 DEF Batch
    <3> QED BY <1>9, <3>1
  <2>3. \A k \in pump[r][p].keys : k < Cardinality(rows') /\ \A d \in new : ~(d.idx <= k)
    <3> TAKE k \in pump[r][p].keys
    <3>1. k \in Nat /\ k < Cardinality(rows)
      BY <2>1 DEF Batch, Pumps
    <3> QED BY <1>4, <1>9, <3>1
  <2> QED BY <1>1, <1>9, <2>1, <2>2, <2>3 DEF Batch
<1>13. RangeInv'
  <2> SUFFICES ASSUME ~Polled, NEW r \in Reader, NEW p \in Pump PROVE OnePump(r, p)'
    BY <1>5 DEF RangeInv
  <2>1. OnePump(r, p) /\ Orderly /\ (done => closedAt # 0)
    BY DEF StreamInv, RangeInv, WorldInv, Orderly
  <2>2. closedAt' = closedAt
    BY <1>1, <1>3
  <2>3. \A c \in new : ~(c.at < closedAt)
    BY <1>3, <1>4, <1>9, <2>1
  <2> QED BY <1>1, <1>2, <2>1, <2>2, <2>3 DEF OnePump
<1>14. PagerInv'
  <2> SUFFICES ASSUME Orderly
               PROVE  /\ IsPrefix(pager.got, Stamps(Chunks(rows')))
                      /\ Polled /\ pager.done /\ ~pager.more =>
                           /\ closedAt' # 0
                           /\ \A c \in Chunks(rows') : c.at < closedAt'
                                => \E k \in DOMAIN pager.got : pager.got[k] = c.at
    BY <1>1, <1>5 DEF PagerInv
  <2>1. Chunks(rows') = Chunks(rows) \union Chunks(new)
    BY <1>9 DEF Chunks
  <2>2. Listable(Chunks(rows) \union Chunks(new))
    <3> DEFINE U == rows'
    <3>1. Listable(U)
      BY <1>2, <1>3 DEF StampInv, Listable
    <3>2. Chunks(rows) \union Chunks(new) \subseteq U
      BY <1>9 DEF Chunks
    <3> HIDE DEF U
    <3> QED BY <3>1, <3>2, PartListable
  <2>3. \A c \in Chunks(rows), d \in Chunks(new) : c.idx < d.idx
    BY <1>9 DEF Chunks
  <2>4. Stamps(Chunks(rows) \union Chunks(new)) = Stamps(Chunks(rows)) \o Stamps(Chunks(new))
    BY <2>2, <2>3, StampsConcat
  <2>5. /\ Stamps(Chunks(rows)) \in Seq(Nat) /\ Stamps(Chunks(new)) \in Seq(Nat)
        /\ pager.got \in Seq(Nat)
    <3>1. Listable(Chunks(rows)) /\ Listable(Chunks(new))
      BY <2>2, PartListable
    <3> QED BY <3>1, Stamping DEF StreamInv, Typed, Pagers
  <2>6. IsPrefix(pager.got, Stamps(Chunks(rows)))
    BY DEF StreamInv, PagerInv
  <2>7. IsPrefix(pager.got, Stamps(Chunks(rows)) \o Stamps(Chunks(new)))
    <3> DEFINE s == Stamps(Chunks(rows))
               t == Stamps(Chunks(new))
    <3>1. s \in Seq(Nat) /\ t \in Seq(Nat) /\ IsPrefix(pager.got, s)
      BY <2>5, <2>6
    <3> HIDE DEF s, t
    <3>2. IsPrefix(s, s \o t) /\ s \o t \in Seq(Nat)
      BY <3>1, PrefixConcat, ConcatProperties
    <3>3. IsPrefix(pager.got, s \o t)
      BY <2>5, <3>1, <3>2, PrefixTrans
    <3> QED BY <3>3 DEF s, t
  <2>8. ASSUME Polled, pager.done, ~pager.more
        PROVE  /\ closedAt' # 0
               /\ \A c \in Chunks(rows') : c.at < closedAt'
                    => \E k \in DOMAIN pager.got : pager.got[k] = c.at
    <3>1. /\ closedAt # 0 /\ closedAt' = closedAt
          /\ \A c \in Chunks(rows) : c.at < closedAt
               => \E k \in DOMAIN pager.got : pager.got[k] = c.at
      BY <1>3, <2>8 DEF StreamInv, PagerInv
    <3>2. \A c \in Chunks(new) : ~(c.at < closedAt)
      BY <1>3, <1>4, <1>9 DEF Chunks
    <3> QED BY <2>1, <3>1, <3>2
  <2> QED BY <2>1, <2>4, <2>7, <2>8
<1> QED BY <1>3, <1>6, <1>7, <1>8, <1>10, <1>11, <1>12, <1>13, <1>14 DEF StreamInv

LEMMA PushStep ==
  ASSUME StreamInv, NEW w \in Writer, NEW n \in 1..MaxBatch, Push(w, n)
  PROVE  StreamInv'
<1>1. /\ ~Polled /\ issued' = issued + n /\ Store(NextIdx, n, FALSE)
      /\ UNCHANGED <<world, done, overlap, errors, writer, reader, pump, pager>>
  BY DEF Push, Budget
<1>2. /\ Orderly /\ n \in Nat /\ n # 0 /\ issued \in Nat /\ errors \in Nat
      /\ writer \in [Writer -> {Idle} \union Writes] /\ \A x \in Writer : writer[x] = Idle
  BY <1>1, StreamsAssumption DEF StreamInv, WorldInv, Typed, StoreTyped, Orderly
<1>3. NextIdx = Cardinality(rows) /\ NextIdx \in Nat
  BY <1>2, OrderlyRows
<1>4. Stores(NextIdx, n, FALSE)
  <2>1. issued' \in Nat /\ errors' \in Nat
    BY <1>1, <1>2
  <2>2. /\ UNCHANGED <<world, done, overlap, reader, pump, pager>>
        /\ writer' = writer
    BY <1>1
  <2> QED BY <1>1, <1>2, <1>3, <2>1, <2>2 DEF Stores
<1> QED BY <1>2, <1>3, <1>4, StoreStep

(* What is left of a write after some of its rows were put.                *)
LEMMA Advanced ==
  ASSUME NEW r \in Writes, NEW i, NEW l
  PROVE  LET q == [r EXCEPT !.idx = i, !.left = l] IN
           /\ q.idx = i /\ q.left = l
           /\ i \in Nat /\ l \in 1..MaxBatch => q \in Writes
BY DEF Writes

(* A write puts one row (KV) or all of them (Sheets) and goes on.          *)
LEMMA PutStep ==
  ASSUME StreamInv, NEW w \in Writer, Put(w)
  PROVE  StreamInv'
<1> DEFINE n == IF world = "kv" THEN 1 ELSE writer[w].left
           i == writer[w].idx
           l == writer[w].left
           z == writer[w].last
           more == [writer[w] EXCEPT !.idx = writer[w].idx + n, !.left = writer[w].left - n]
           v == IF l = n THEN Idle ELSE more
<1>1. writer \in [Writer -> {Idle} \union Writes] /\ writer[w].stage = "put"
  BY DEF StreamInv, Typed, Put
<1>2. writer[w] \in Writes /\ writer[w] # Idle
  BY <1>1 DEF Idle, Writes
<1>3. /\ i \in Nat /\ z \in BOOLEAN /\ l \in 1..MaxBatch /\ MaxBatch \in Nat
  BY <1>2, StreamsAssumption DEF Writes
<1>4. /\ Store(i, n, z)
      /\ UNCHANGED <<world, done, overlap, issued, errors, reader, pump, pager>>
  BY DEF Put
<1>5. writer' = [writer EXCEPT ![w] =
                   LET rest == [writer[w] EXCEPT !.idx = @ + n, !.left = @ - n]
                   IN  IF rest.left = 0 THEN Idle ELSE rest]
  BY DEF Put
<1>6. n \in Nat /\ n # 0 /\ n <= l
  BY <1>3
<1> HIDE DEF n, i, l, z
<1>7. /\ more.idx = i + n /\ more.left = l - n
      /\ i + n \in Nat /\ l - n \in 1..MaxBatch => more \in Writes
  BY <1>2, Advanced DEF i, l
<1>8. writer' = [writer EXCEPT ![w] = v]
  <2>1. more.left = 0 <=> l = n
    BY <1>3, <1>6, <1>7
  <2>2. writer' = [writer EXCEPT ![w] = IF more.left = 0 THEN Idle ELSE more]
    BY <1>5
  <2> HIDE DEF more
  <2> QED BY <2>1, <2>2
<1> HIDE DEF more
<1>9. v \in {Idle} \union Writes /\ (v # Idle => v.idx = i + n)
  <2>1. CASE l = n
    BY <2>1
  <2>2. CASE l # n
    <3>1. i + n \in Nat /\ l - n \in 1..MaxBatch /\ z \in BOOLEAN
      BY <1>3, <1>6, <2>2
    <3>2. more \in Writes /\ more.idx = i + n
      BY <1>7, <3>1
    <3> QED BY <2>2, <3>2
  <2> QED BY <2>1, <2>2
<1> HIDE DEF v
<1>10. /\ writer' \in [Writer -> {Idle} \union Writes]
       /\ writer'[w] = v /\ \A x \in Writer : x # w => writer'[x] = writer[x]
  BY <1>1, <1>8, <1>9
<1>11. issued \in Nat /\ errors \in Nat /\ Polled
  BY <1>2 DEF StreamInv, Typed, StoreTyped, WorldInv
<1>12. Orderly =>
        /\ i = Cardinality(rows)
        /\ \A x \in Writer : writer'[x] # Idle =>
             /\ writer'[x].idx = i + n
             /\ \A y \in Writer : writer'[y] # Idle => y = x
  <2> SUFFICES ASSUME Orderly
               PROVE  /\ i = Cardinality(rows)
                      /\ \A x \in Writer : writer'[x] # Idle =>
                           /\ writer'[x].idx = i + n
                           /\ \A y \in Writer : writer'[y] # Idle => y = x
    OBVIOUS
  <2>1. i = Cardinality(rows) /\ \A x \in Writer : writer[x] # Idle => x = w
    BY <1>2 DEF StreamInv, OrderInv, i
  <2>2. \A x \in Writer : writer'[x] # Idle => x = w
    BY <1>10, <2>1
  <2> QED BY <1>9, <1>10, <2>1, <2>2
<1>13. Stores(i, n, z)
  BY <1>4, <1>10, <1>11, <1>12 DEF Stores
<1>14. i \in Nat /\ z \in BOOLEAN
  BY <1>3
<1> QED BY <1>6, <1>13, <1>14, StoreStep

-----------------------------------------------------------------------------
(* The pages *)

(* Only the pager moves, to another that suits.                            *)
Turns(v) ==
  /\ pager' = v
  /\ UNCHANGED <<world, store, overlap, issued, errors, writer, reader, pump>>
  /\ v \in Pagers /\ (Polled => v.stage = "idle")
  /\ Orderly =>
       /\ IsPrefix(v.got, Stamps(Chunks(rows)))
       /\ Polled /\ v.done /\ ~v.more =>
            /\ closedAt # 0
            /\ \A c \in Chunks(rows) : c.at < closedAt
                 => \E k \in DOMAIN v.got : v.got[k] = c.at

LEMMA PagerMoved ==
  ASSUME StreamInv, NEW v, Turns(v)
  PROVE  StreamInv'
<1>1. /\ world' = world /\ rows' = rows /\ done' = done /\ stamp' = stamp
      /\ closedAt' = closedAt /\ overlap' = overlap /\ issued' = issued
      /\ errors' = errors /\ writer' = writer /\ reader' = reader /\ pump' = pump
      /\ pager' = v
  BY DEF Turns, store
<1>2. (Polled' <=> Polled) /\ (Orderly' <=> Orderly)
  BY <1>1 DEF Polled, Orderly
<1>3. Typed'
  BY <1>1 DEF StreamInv, Typed, StoreTyped, Turns
<1>4. WorldInv'
  BY <1>1, <1>2 DEF StreamInv, WorldInv, Turns
<1>5. StampInv' /\ OrderInv'
  BY <1>1, <1>2 DEF StreamInv, StampInv, OrderInv
<1>6. HandedInv'
  BY <1>1, <1>2 DEF StreamInv, HandedInv, Handed, Read
<1>7. ReaderInv'
  BY <1>1, <1>2 DEF StreamInv, ReaderInv, UpToCursor, Window
<1>8. BatchInv' /\ RangeInv'
  BY <1>1, <1>2 DEF StreamInv, BatchInv, Batch, RangeInv, OnePump
<1>9. PagerInv'
  BY <1>1, <1>2 DEF PagerInv, Turns
<1> QED BY <1>3, <1>4, <1>5, <1>6, <1>7, <1>8, <1>9 DEF StreamInv

(* A page goes on where the pages before it ended.                         *)
LEMMA PageGoesOn ==
  ASSUME StreamInv
  PROVE  LET got == pager.got \o Slice(rows) IN
           /\ got \in Seq(Nat) /\ Len(got) \in Nat
           /\ Orderly => IsPrefix(got, Stamps(Chunks(rows)))
<1> DEFINE s == pager.got
           t == Stamps(Chunks(rows))
           m == Cardinality(Chunks(rows))
           n == Min({Len(s) + PageLimit, m})
<1>1. s \in Seq(Nat) /\ (Orderly => IsPrefix(s, t))
  BY DEF StreamInv, Typed, Pagers, PagerInv
<1>2. t \in Seq(Nat) /\ Len(t) = m
  BY RowsListable, Stamping
<1>3. Slice(rows) = SubSeq(t, Len(s) + 1, n)
  BY DEF Slice
<1>4. n \in Nat /\ n <= Len(t)
  <2>1. Len(s) + PageLimit \in Nat /\ m \in Nat
    BY <1>1, <1>2, StreamsAssumption
  <2> HIDE DEF s, m
  <2>2. \E x \in {Len(s) + PageLimit, m} : \A y \in {Len(s) + PageLimit, m} : x <= y
    BY <2>1
  <2>3. n \in {Len(s) + PageLimit, m} /\ \A y \in {Len(s) + PageLimit, m} : n <= y
    BY <2>2 DEF Min
  <2> HIDE DEF n
  <2> QED BY <1>2, <2>1, <2>3
<1> HIDE DEF s, t, n, m
<1>5. SubSeq(t, Len(s) + 1, n) \in Seq(Nat)
  <2>1. \A k \in (Len(s) + 1)..n : t[k] \in Nat
    BY <1>1, <1>2, <1>4
  <2> QED BY <1>1, <1>4, <2>1, SubSeqProperties
<1>6. s \o SubSeq(t, Len(s) + 1, n) \in Seq(Nat)
  BY <1>1, <1>5, ConcatProperties
<1>7. Orderly => IsPrefix(s \o SubSeq(t, Len(s) + 1, n), t)
  BY <1>1, <1>2, <1>4, PrefixExtend
<1> QED BY <1>3, <1>6, <1>7 DEF s, t

LEMMA PageStep ==
  ASSUME StreamInv, PageLength \/ PageRange \/ PageFlag
  PROVE  StreamInv'
<1>1. /\ pager \in Pagers /\ done \in BOOLEAN /\ Cardinality(rows) \in Nat
      /\ Orderly => IsPrefix(pager.got, Stamps(Chunks(rows)))
      /\ Polled => pager.stage = "idle"
  BY RowsListable, FS_CardinalityType
     DEF StreamInv, Typed, StoreTyped, PagerInv, WorldInv, Listable
<1>2. ~Polled
  BY <1>1 DEF PageLength, PageRange, PageFlag
<1>3. CASE PageLength
  <2> DEFINE v == [pager EXCEPT !.stage = "range", !.total = Cardinality(rows)]
  <2>1. v \in Pagers /\ v.got = pager.got
    BY <1>1 DEF Pagers
  <2>2. pager' = v /\ OnlyPager
    BY <1>3 DEF PageLength
  <2> HIDE DEF v
  <2>3. Turns(v)
    BY <1>1, <1>2, <2>1, <2>2 DEF Turns, OnlyPager
  <2> QED BY <2>3, PagerMoved
<1>4. CASE PageRange
  <2> DEFINE got == pager.got \o Slice(rows)
             more == HasMore(Len(got), pager.total)
             v == [pager EXCEPT !.stage = "flag", !.got = got, !.more = more]
  <2>1. got \in Seq(Nat) /\ more \in BOOLEAN
        /\ (Orderly => IsPrefix(got, Stamps(Chunks(rows))))
    BY PageGoesOn DEF HasMore
  <2>2. pager' = v /\ OnlyPager
    BY <1>4 DEF PageRange
  <2> HIDE DEF got, more
  <2>3. v \in Pagers /\ v.got = got
    BY <1>1, <2>1 DEF Pagers
  <2> HIDE DEF v
  <2>4. Turns(v)
    BY <1>2, <2>1, <2>2, <2>3 DEF Turns, OnlyPager
  <2> QED BY <2>4, PagerMoved
<1>5. CASE PageFlag
  <2> DEFINE v == [pager EXCEPT !.stage = "idle", !.done = done]
  <2>1. v \in Pagers /\ v.got = pager.got
    BY <1>1 DEF Pagers
  <2>2. pager' = v /\ OnlyPager
    BY <1>5 DEF PageFlag
  <2> HIDE DEF v
  <2>3. Turns(v)
    BY <1>1, <1>2, <2>1, <2>2 DEF Turns, OnlyPager
  <2> QED BY <2>3, PagerMoved
<1> QED BY <1>3, <1>4, <1>5

(* A last page has everything there is; a done row is there only after the *)
(* close.                                                                  *)
LEMMA PageLoadStep ==
  ASSUME StreamInv, PageLoad
  PROVE  StreamInv'
<1> DEFINE got == pager.got \o Slice(rows)
           more == HasMore(Len(got), Cardinality(Chunks(rows)))
           end == \E c \in rows : c.done
           v == [pager EXCEPT !.got = got, !.more = more, !.done = end]
<1>1. /\ got \in Seq(Nat) /\ Len(got) \in Nat /\ more \in BOOLEAN /\ end \in BOOLEAN
      /\ (Orderly => IsPrefix(got, Stamps(Chunks(rows))))
  BY PageGoesOn DEF HasMore
<1>2. pager \in Pagers /\ pager.stage = "idle" /\ pager' = v /\ OnlyPager
  BY DEF PageLoad, StreamInv, Typed
<1>3. end => closedAt # 0
  BY DEF StreamInv, StampInv
<1>4. Orderly /\ ~more => \A c \in Chunks(rows) : \E k \in DOMAIN got : got[k] = c.at
  <2> SUFFICES ASSUME Orderly, ~more, NEW c \in Chunks(rows)
               PROVE  \E k \in DOMAIN got : got[k] = c.at
    OBVIOUS
  <2>1. /\ Stamps(Chunks(rows)) \in Seq(Nat)
        /\ Len(Stamps(Chunks(rows))) = Cardinality(Chunks(rows))
        /\ \E k \in 1..Cardinality(Chunks(rows)) : Stamps(Chunks(rows))[k] = c.at
    BY RowsListable, Stamping
  <2>2. Cardinality(Chunks(rows)) <= Len(got)
    <3>1. Cardinality(Chunks(rows)) \in Nat
      BY <2>1
    <3> HIDE DEF got
    <3> QED BY <1>1, <3>1 DEF HasMore
  <2> HIDE DEF got, more
  <2>3. got = Stamps(Chunks(rows))
    BY <1>1, <2>1, <2>2, PrefixFull
  <2> QED BY <1>1, <2>1, <2>3
<1> HIDE DEF got, more, end
<1>5. /\ v \in Pagers /\ v.got = got /\ v.stage = "idle"
      /\ (v.more <=> more) /\ (v.done <=> end)
  BY <1>1, <1>2 DEF Pagers
<1> HIDE DEF v
<1>6. Turns(v)
  BY <1>1, <1>2, <1>3, <1>4, <1>5 DEF Turns, OnlyPager
<1> QED BY <1>6, PagerMoved

-----------------------------------------------------------------------------
(* The invariant holds *)

LEMMA StartSuits ==
  ASSUME Init
  PROVE  StreamInv
<1>1. /\ rows = {} /\ Chunks(rows) = {} /\ IsFiniteSet({}) /\ Cardinality({}) = 0
      /\ done = FALSE /\ stamp = 0 /\ closedAt = 0
  BY FS_EmptySet DEF Init, Chunks
<1>2. /\ \A r \in Reader : /\ reader[r].status = "new" /\ reader[r].got = <<>>
                           /\ reader[r].first = 0 /\ reader[r].cursor = 0
      /\ \A r \in Reader, p \in Pump : pump[r][p] = Asleep
      /\ \A w \in Writer : writer[w] = Idle
      /\ pager.got = <<>> /\ pager.stage = "idle" /\ pager.more = TRUE
  BY DEF Init
<1>3. \A r \in Reader, p \in Pump : /\ pump[r][p].stage = "idle"
                                    /\ pump[r][p].keys = {} /\ pump[r][p].batch = {}
  BY <1>2 DEF Asleep
<1>4. Typed
  <2>1. StoreTyped
    <3>1. world \in World /\ overlap = FALSE /\ issued = 0 /\ errors = 0
      BY DEF Init
    <3>2. world \in {"redirect", "kv", "sheets"}
      BY <3>1, StreamsAssumption
    <3> QED BY <1>1, <3>1, <3>2 DEF StoreTyped
  <2>2. writer \in [Writer -> {Idle} \union Writes] /\ pager \in Pagers
    BY DEF Init, Pagers
  <2>3. reader \in [Reader -> Readers]
    <3>1. [status |-> "new", first |-> 0, cursor |-> 0, got |-> <<>>, again |-> FALSE]
            \in Readers
      BY DEF Readers, Statuses
    <3> QED BY <3>1 DEF Init
  <2>4. pump \in [Reader -> [Pump -> Pumps]]
    BY DEF Init, Pumps, Asleep, Stages
  <2> QED BY <2>1, <2>2, <2>3, <2>4 DEF Typed
<1>5. WorldInv
  BY <1>1, <1>2, <1>3 DEF Init, WorldInv
<1>6. StampInv /\ OrderInv
  BY <1>1, <1>2 DEF StampInv, OrderInv
<1>7. HandedInv
  <2>1. DOMAIN <<>> = {} /\ IsInjective(<<>>)
    BY DEF IsInjective
  <2>2. \A r \in Reader : Read(r) = {}
    BY <1>3 DEF Read
  <2> QED BY <1>1, <1>2, <1>3, <2>1, <2>2 DEF HandedInv, Handed
<1>8. ReaderInv
  <2>1. \A r \in Reader : Window(r) = {}
    BY <1>1 DEF Window
  <2>2. \A r \in Reader : /\ reader[r].got = Stamps(Window(r))
                          /\ reader[r].status # "ended"
    BY <1>2, <2>1, NoStamps
  <2>3. \A r \in Reader : /\ reader[r].first <= reader[r].cursor
                          /\ reader[r].cursor = reader[r].first
    BY <1>2
  <2> QED BY <2>2, <2>3 DEF ReaderInv, UpToCursor
<1>9. BatchInv /\ RangeInv
  BY <1>1, <1>2, <1>3 DEF BatchInv, Batch, RangeInv, OnePump
<1>10. PagerInv
  <2>1. <<>> \in Seq(Nat) /\ Len(<<>>) = 0
    OBVIOUS
  <2>2. IsPrefix(<<>>, <<>>)
    BY <2>1 DEF IsPrefix
  <2>3. Stamps(Chunks(rows)) = <<>>
    BY <1>1, NoStamps
  <2> QED BY <1>2, <2>2, <2>3 DEF PagerInv
<1> QED BY <1>4, <1>5, <1>6, <1>7, <1>8, <1>9, <1>10 DEF StreamInv

(* A step that changes nothing.                                            *)
LEMMA Standing ==
  ASSUME StreamInv, UNCHANGED vars
  PROVE  StreamInv'
<1>1. pager \in Pagers /\ (Polled => pager.stage = "idle")
  BY DEF StreamInv, Typed, WorldInv
<1>2. Turns(pager)
  BY <1>1 DEF Turns, vars, StreamInv, PagerInv
<1> QED BY <1>2, PagerMoved

LEMMA WriterSteps ==
  ASSUME StreamInv, NEW w \in Writer, WriterStep(w)
  PROVE  StreamInv'
<1>1. CASE \E n \in 1..MaxBatch : Push(w, n) \/ Begin(w, n, FALSE)
  BY <1>1, PushStep, BeginStep
<1>2. CASE Begin(w, 1, TRUE)
  <2>1. 1 \in 1..MaxBatch
    BY StreamsAssumption
  <2> QED BY <1>2, <2>1, BeginStep
<1>3. CASE SetDone(w) \/ Put(w) \/ WriterStops(w)
  BY <1>3, SetDoneStep, PutStep, WriterStopsStep
<1> QED BY <1>1, <1>2, <1>3 DEF WriterStep

LEMMA PumpSteps ==
  ASSUME StreamInv, NEW r \in Reader, NEW p \in Pump, PumpStep(r, p)
  PROVE  StreamInv'
<1>1. CASE ReadRange(r, p) \/ ReadTail(r, p)
  BY <1>1, RangeStep
<1>2. CASE Enqueue(r, p) \/ Drain(r, p)
  BY <1>2, EnqueueStep
<1>3. CASE ListKeys(r, p) \/ Fetch(r, p) \/ LoadRows(r, p)
  BY <1>3, LoadStep
<1>4. CASE ReadFlag(r, p)
  BY <1>4, ReadFlagStep
<1>5. CASE Deliver(r, p)
  BY <1>5, DeliverStep
<1>6. CASE PumpStops(r, p)
  BY <1>6, PumpStopsStep
<1> QED BY <1>1, <1>2, <1>3, <1>4, <1>5, <1>6 DEF PumpStep

LEMMA ReaderSteps ==
  ASSUME StreamInv, NEW r \in Reader, ReaderStep(r)
  PROVE  StreamInv'
<1>1. CASE \E s \in Start : Open(r, s)
  BY <1>1, OpenStep
<1>2. CASE TickAgain(r) \/ Cancel(r)
  BY <1>2, TickAgainStep, CancelStep
<1>3. CASE \E p \in Pump : Tick(r, p) \/ PumpStep(r, p) \/ PumpFails(r, p)
  BY <1>3, TickStep, PumpSteps, PumpFailsStep
<1> QED BY <1>1, <1>2, <1>3 DEF ReaderStep

(* Every state the stream can be in satisfies the inductive invariant: the *)
(* order of the rows, what each reader was handed, what its pumps carry    *)
(* and the pages.                                                          *)
THEOREM Invariant == Spec => []StreamInv
<1>1. Init => StreamInv
  BY StartSuits
<1>2. StreamInv /\ [Next]_vars => StreamInv'
  <2> SUFFICES ASSUME StreamInv, [Next]_vars PROVE StreamInv'
    OBVIOUS
  <2>1. CASE \E w \in Writer : WriterStep(w)
    BY <2>1, WriterSteps
  <2>2. CASE \E r \in Reader : ReaderStep(r)
    BY <2>2, ReaderSteps
  <2>3. CASE PagerStep
    BY <2>3, PageStep, PageLoadStep DEF PagerStep
  <2>4. CASE UNCHANGED vars
    BY <2>4, Standing
  <2> QED BY <2>1, <2>2, <2>3, <2>4 DEF Next
<1> QED BY <1>1, <1>2, PTL DEF Spec

-----------------------------------------------------------------------------
(* What follows from it *)

(* Every variable has its type, whatever the bounds.                       *)
THEOREM TypeCorrect == Spec => []TypeOK
<1>1. StreamInv => TypeOK
  <2> SUFFICES ASSUME StreamInv PROVE TypeOK
    OBVIOUS
  <2>1. Typed /\ StoreTyped
    BY DEF StreamInv, Typed
  <2>2. \A w \in Writer : writer[w] = Idle \/ writer[w] \in
          [stage : {"put"}, idx : Nat, left : 1..MaxBatch, last : BOOLEAN]
    BY <2>1 DEF Typed, Writes
  <2>3. \A r \in Reader :
          /\ reader[r].status \in {"new", "open", "ended", "errored", "cancelled"}
          /\ {reader[r].first, reader[r].cursor} \subseteq Nat
          /\ reader[r].got \in Seq(Nat)
    BY <2>1 DEF Typed, Readers, Statuses
  <2>4. \A r \in Reader, p \in Pump : pump[r][p].batch \subseteq Row
    BY <2>1 DEF Typed, Pumps
  <2>5. pager.stage \in {"idle", "range", "flag"} /\ pager.got \in Seq(Nat)
    BY <2>1 DEF Typed, Pagers
  <2> QED BY <2>1, <2>2, <2>3, <2>4, <2>5 DEF TypeOK, StoreTyped
<1> QED BY <1>1, Invariant, PTL

(* A live reader is handed the chunks from its start index in the order of *)
(* the stream, without a gap, and none of them twice (Delivery), with any  *)
(* number of pumps under way.                                              *)
THEOREM ReadersInOrder == Spec => []Delivery
<1>1. StreamInv => Delivery
  <2> SUFFICES ASSUME StreamInv, NEW r \in Reader
               PROVE  /\ IsInjective(reader[r].got)
                      /\ Orderly => IsPrefix(reader[r].got,
                                             Stamps(After(Chunks(rows), reader[r].first)))
    BY DEF Delivery
  <2> DEFINE A == Window(r)
             Z == {c \in Chunks(rows) : /\ reader[r].first <= c.idx
                                        /\ ~(c.idx < reader[r].cursor)}
  <2>1. CASE ~Orderly
    <3>1. Polled
      BY <2>1 DEF StreamInv, WorldInv, Orderly
    <3> QED BY <2>1, <3>1 DEF StreamInv, HandedInv, Handed
  <2>2. CASE Orderly
    <3>1. reader[r].got = Stamps(A)
      BY <2>2 DEF StreamInv, ReaderInv, UpToCursor
    <3>2. /\ A \union Z = After(Chunks(rows), reader[r].first)
          /\ A \union Z \subseteq Chunks(rows) /\ A \subseteq Chunks(rows)
          /\ Z \subseteq Chunks(rows)
      <4>1. /\ reader[r].first \in Nat /\ reader[r].cursor \in Nat
            /\ \A c \in Chunks(rows) : c.idx \in Nat
        BY ReaderTyped, RowsListable DEF Readers, Listable, Row
      <4> QED BY <4>1 DEF After, Window
    <3>3. Listable(A \union Z) /\ Listable(A) /\ Listable(Z)
      BY <3>2, RowsListable, PartListable
    <3>4. \A a \in A, z \in Z : a.idx < z.idx
      <4>1. /\ reader[r].cursor \in Nat /\ \A c \in Chunks(rows) : c.idx \in Nat
        BY ReaderTyped, RowsListable DEF Readers, Listable, Row
      <4> QED BY <4>1 DEF Window
    <3> HIDE DEF A, Z
    <3>5. /\ Stamps(A \union Z) = Stamps(A) \o Stamps(Z)
          /\ Stamps(A) \in Seq(Nat) /\ Stamps(Z) \in Seq(Nat) /\ IsInjective(Stamps(A))
      BY <3>3, <3>4, StampsConcat, Stamping
    <3>6. IsPrefix(Stamps(A), Stamps(A \union Z))
      BY <3>5, PrefixConcat
    <3> QED BY <3>1, <3>2, <3>5, <3>6
  <2> QED BY <2>1, <2>2
<1> QED BY <1>1, Invariant, PTL

(* A reader that was told the stream has ended had every chunk stored      *)
(* before the close (EndedComplete).                                       *)
THEOREM EndComplete == Spec => []EndedComplete
<1>1. StreamInv => EndedComplete
  <2> SUFFICES ASSUME StreamInv, NEW r \in Reader, Orderly, reader[r].status = "ended"
               PROVE  /\ closedAt # 0
                      /\ \A c \in After(Chunks(rows), reader[r].first) : c.at < closedAt
                           => \E k \in DOMAIN reader[r].got : reader[r].got[k] = c.at
    BY DEF EndedComplete
  <2>1. /\ reader[r].got = Stamps(Window(r)) /\ closedAt # 0
        /\ \A c \in After(Chunks(rows), reader[r].first) :
             c.at < closedAt => c.idx < reader[r].cursor
    BY DEF StreamInv, ReaderInv, UpToCursor
  <2>2. ASSUME NEW c \in After(Chunks(rows), reader[r].first), c.at < closedAt
        PROVE  \E k \in DOMAIN reader[r].got : reader[r].got[k] = c.at
    <3>1. c \in Window(r)
      <4>1. /\ reader[r].first \in Nat /\ c \in Chunks(rows) /\ c.idx \in Nat
            /\ c.idx >= reader[r].first
        BY ReaderTyped, RowsListable DEF Readers, Listable, Row, After
      <4> QED BY <2>1, <2>2, <4>1 DEF Window
    <3>2. Listable(Window(r))
      <4>1. Window(r) \subseteq Chunks(rows)
        BY DEF Window
      <4> QED BY <4>1, RowsListable, PartListable
    <3>3. /\ DOMAIN Stamps(Window(r)) = 1..Cardinality(Window(r))
          /\ \E k \in 1..Cardinality(Window(r)) : Stamps(Window(r))[k] = c.at
      BY <3>1, <3>2, Stamping
    <3> QED BY <2>1, <3>3
  <2> QED BY <2>1, <2>2
<1> QED BY <1>1, Invariant, PTL

(* The pages of getChunks, laid end to end, are the beginning of the       *)
(* stream, however much it grows between them (PagesContiguous).           *)
THEOREM PagesInOrder == Spec => []PagesContiguous
<1>1. StreamInv => PagesContiguous
  BY DEF StreamInv, PagerInv, PagesContiguous
<1> QED BY <1>1, Invariant, PTL

(* In the polled worlds a last page that says done completes the stream as *)
(* it was at the close (LastPageComplete).                                 *)
THEOREM LastPage == Spec => []LastPageComplete
<1>1. StreamInv => LastPageComplete
  BY DEF StreamInv, PagerInv, LastPageComplete
<1> QED BY <1>1, Invariant, PTL
=============================================================================
