--------------------------- MODULE SheetRowsProofs ---------------------------
(***************************************************************************)
(* What writing and deleting the rows of a sheet by number does to them.   *)
(***************************************************************************)
EXTENDS SheetRows, TLAPS, FiniteSetTheorems, SequenceTheorems

\* What an update leaves of the rows: all but the one it hits, where they were.
LEMMA Updated ==
  ASSUME NEW S, NEW rows \in Seq(S), NEW n \in Nat \ {0}, NEW row \in S, NEW blank \in S
  PROVE  LET r == updateRow(rows, n, row, blank) IN
         /\ r \in Seq(S) /\ n \in DOMAIN r /\ r[n] = row
         /\ DOMAIN rows \subseteq DOMAIN r
         /\ \A k \in DOMAIN rows : k # n => r[k] = rows[k]
         /\ \A k \in DOMAIN r : k # n /\ k \notin DOMAIN rows => r[k] = blank
         /\ n \in DOMAIN rows => DOMAIN r = DOMAIN rows
<1> DEFINE r == updateRow(rows, n, row, blank)
           L == IF n > Len(rows) THEN n ELSE Len(rows)
<1>1. Len(rows) \in Nat /\ DOMAIN rows = 1..Len(rows) /\ L \in Nat
  OBVIOUS
<1>2. r = [k \in 1..L |-> IF k = n THEN row ELSE IF k <= Len(rows) THEN rows[k] ELSE blank]
  BY DEF updateRow
<1>3. n \in 1..L /\ \A k \in 1..Len(rows) : k \in 1..L
  BY <1>1
<1>4. \A k \in 1..L : r[k] = IF k = n THEN row ELSE IF k <= Len(rows) THEN rows[k] ELSE blank
  BY <1>2
<1>5. \A k \in 1..L : r[k] \in S
  <2>1. \A k \in 1..L : k <= Len(rows) => rows[k] \in S
    BY <1>1, ElementOfSeq
  <2> QED BY <1>4, <2>1
<1>6. r \in Seq(S) /\ DOMAIN r = 1..L
  <2>1. r \in [1..L -> S]
    BY <1>2, <1>5
  <2> QED BY <1>1, <2>1
<1>7. ASSUME n \in DOMAIN rows PROVE DOMAIN r = DOMAIN rows
  <2>1. n \in 1..Len(rows)
    BY <1>1, <1>7
  <2>2. ~(n > Len(rows))
    BY <1>1, <2>1
  <2> QED BY <1>1, <1>6, <2>2
<1>8. DOMAIN rows \subseteq DOMAIN r
  BY <1>1, <1>6
<1> HIDE DEF L, r
<1>9. n \in DOMAIN r /\ r[n] = row
  BY <1>3, <1>4, <1>6
<1>10. \A k \in DOMAIN rows : k # n => r[k] = rows[k]
  BY <1>1, <1>3, <1>4
<1>11. \A k \in DOMAIN r : k # n /\ k \notin DOMAIN rows => r[k] = blank
  <2> SUFFICES ASSUME NEW k \in 1..L, k # n, k \notin 1..Len(rows) PROVE r[k] = blank
    BY <1>1, <1>6
  <2>1. ~(k <= Len(rows))
    BY <1>1
  <2> QED BY <1>4, <2>1
<1> QED BY <1>6, <1>7, <1>8, <1>9, <1>10, <1>11 DEF r

\* Where row k goes when row n is deleted, and where row i comes from.
To(n, k) == IF k < n THEN k ELSE k - 1
From(n, i) == IF i < n THEN i ELSE i + 1

LEMMA Removed ==
  ASSUME NEW S, NEW rows \in Seq(S), NEW n \in DOMAIN rows
  PROVE  /\ RemoveAt(rows, n) \in Seq(S) /\ Len(RemoveAt(rows, n)) = Len(rows) - 1
         /\ \A i \in 1..Len(rows) - 1 : RemoveAt(rows, n)[i] = rows[From(n, i)]
<1> DEFINE a == SubSeq(rows, 1, n - 1)
           b == SubSeq(rows, n + 1, Len(rows))
<1>1. Len(rows) \in Nat /\ n \in 1..Len(rows)
  OBVIOUS
<1>2. a \in Seq(S) /\ Len(a) = n - 1 /\ \A i \in 1..n - 1 : a[i] = rows[i]
  BY <1>1
<1>3. /\ b \in Seq(S) /\ Len(b) = Len(rows) - n
      /\ \A i \in 1..Len(rows) - n : b[i] = rows[n + i]
  <2>1. PICK k \in Int, L \in Int : k = n + 1 /\ L = Len(rows)
    BY <1>1
  <2>2. /\ \A i \in k..L : rows[i] \in S
        /\ (IF k <= L THEN L - k + 1 ELSE 0) = L - n
        /\ \A i \in 1..L - n : i \in 1..L - k + 1 /\ k + i - 1 = n + i
    BY <1>1, <2>1
  <2>3. /\ SubSeq(rows, k, L) \in Seq(S)
        /\ Len(SubSeq(rows, k, L)) = IF k <= L THEN L - k + 1 ELSE 0
        /\ \A i \in 1..L - k + 1 : SubSeq(rows, k, L)[i] = rows[k + i - 1]
    BY <2>2, SubSeqProperties, SMTT(20)
  <2>4. b = SubSeq(rows, k, L)
    BY <2>1
  <2> HIDE DEF b
  <2>5. ASSUME NEW i \in 1..L - n PROVE b[i] = rows[n + i]
    BY <2>2, <2>3, <2>4, ZenonT(20)
  <2>6. b \in Seq(S) /\ Len(b) = L - n
    BY <2>2, <2>3, <2>4, ZenonT(20)
  <2> QED BY <2>1, <2>5, <2>6
<1> HIDE DEF a, b
<1>4. /\ a \o b \in Seq(S) /\ Len(a \o b) = Len(rows) - 1
      /\ \A i \in 1..Len(rows) - 1 : (a \o b)[i] = IF i <= n - 1 THEN a[i] ELSE b[i - (n - 1)]
  <2>1. a \in Seq(S) /\ b \in Seq(S) /\ Len(a) + Len(b) = Len(rows) - 1
    BY <1>1, <1>2, <1>3
  <2>2. /\ a \o b \in Seq(S) /\ Len(a \o b) = Len(a) + Len(b)
        /\ \A i \in 1..Len(a) + Len(b) : (a \o b)[i] = IF i <= Len(a) THEN a[i] ELSE b[i - Len(a)]
    BY <2>1
  <2> QED BY <1>2, <2>1, <2>2, SMTT(20)
<1>5. ASSUME NEW i \in 1..Len(rows) - 1 PROVE (a \o b)[i] = rows[From(n, i)]
  <2>1. CASE i < n
    BY <1>1, <1>2, <1>4, <2>1 DEF From
  <2>2. CASE ~(i < n)
    <3>1. i - (n - 1) \in 1..Len(rows) - n /\ n + (i - (n - 1)) = i + 1 /\ ~(i <= n - 1)
      BY <1>1, <2>2
    <3>2. (a \o b)[i] = b[i - (n - 1)] /\ b[i - (n - 1)] = rows[i + 1]
      BY <1>3, <1>4, <3>1
    <3> QED BY <2>2, <3>2 DEF From
  <2> QED BY <2>1, <2>2
<1>6. RemoveAt(rows, n) = a \o b
  BY DEF RemoveAt, a, b
<1> QED BY <1>4, <1>5, <1>6

LEMMA UpTo ==
  ASSUME NEW N \in Nat
  PROVE  IsFiniteSet(1..N) /\ Cardinality(1..N) = N
<1>1. 1 \in Int /\ N \in Int /\ (1 > N => N = 0) /\ N - 1 + 1 = N
  OBVIOUS
<1> QED BY <1>1, FS_Interval

\* Of the rows but the deleted one, those that are not blank stay, in order.
LEMMA Deleted ==
  ASSUME NEW S, NEW rows \in Seq(S), NEW n \in DOMAIN rows, NEW blank \in S,
         NEW r, r = deleteRow(rows, n, blank)
  PROVE  /\ r \in Seq(S)
         /\ \A i \in DOMAIN r : From(n, i) \in DOMAIN rows \ {n} /\ r[i] = rows[From(n, i)]
         /\ \A k \in DOMAIN rows : k # n /\ rows[k] # blank =>
              To(n, k) \in DOMAIN r /\ r[To(n, k)] = rows[k]
<1> DEFINE left == RemoveAt(rows, n)
           kept == {i \in DOMAIN left : \E k \in i..Len(left) : left[k] # blank}
           L == Cardinality(kept)
<1>1. /\ left \in Seq(S) /\ Len(left) = Len(rows) - 1 /\ Len(rows) \in Nat
      /\ DOMAIN left = 1..Len(left) /\ DOMAIN rows = 1..Len(rows)
      /\ \A i \in 1..Len(rows) - 1 : left[i] = rows[From(n, i)]
  BY Removed
<1>2. r = SubSeq(left, 1, L)
  <2>1. ~(n > Len(rows))
    BY <1>1
  <2> QED BY <2>1 DEF deleteRow
<1> HIDE DEF left
<1>3. Len(left) \in Nat
  BY <1>1
<1>4. IsFiniteSet(kept) /\ L \in Nat /\ L <= Len(left)
  <2>1. IsFiniteSet(1..Len(left)) /\ Cardinality(1..Len(left)) = Len(left)
    BY <1>3, UpTo
  <2>2. kept \subseteq 1..Len(left)
    BY <1>1
  <2> HIDE DEF kept
  <2> QED BY <2>1, <2>2, FS_Subset, FS_CardinalityType
<1>5. ASSUME NEW k \in 1..Len(left), left[k] # blank PROVE k <= L
  <2>1. 1..k \subseteq kept
    BY <1>1, <1>3, <1>5
  <2>2. IsFiniteSet(1..k) /\ Cardinality(1..k) = k
    BY <1>3, UpTo
  <2> HIDE DEF kept
  <2> QED BY <1>4, <2>1, <2>2, FS_Subset
<1> HIDE DEF kept, L
<1>6. r \in Seq(S) /\ DOMAIN r = 1..L /\ \A i \in 1..L : r[i] = left[i]
  BY <1>1, <1>2, <1>3, <1>4
<1>7. \A i \in 1..L : From(n, i) \in DOMAIN rows \ {n} /\ r[i] = rows[From(n, i)]
  BY <1>1, <1>4, <1>6 DEF From
<1>8. ASSUME NEW k \in DOMAIN rows, k # n, rows[k] # blank
      PROVE  To(n, k) \in DOMAIN r /\ r[To(n, k)] = rows[k]
  <2>1. To(n, k) \in 1..Len(left) /\ From(n, To(n, k)) = k
    BY <1>1, <1>8 DEF From, To
  <2>2. left[To(n, k)] = rows[k]
    BY <1>1, <2>1
  <2> QED BY <1>4, <1>5, <1>6, <1>8, <2>1, <2>2
<1> QED BY <1>6, <1>7, <1>8
=============================================================================
