--------------------------- MODULE OverlayProofs ----------------------------
(***************************************************************************)
(* What the encoder reads is the corner marks of the boxes of one          *)
(* inference, and the rows written back are the rows they touch, for every *)
(* frame size, scale, number of boxes, arm, stroke and set of boxes.       *)
(***************************************************************************)
EXTENDS Overlay, ListLemmas, FiniteSetTheorems, TLAPS

-----------------------------------------------------------------------------
(* Counting and choosing                                                   *)

\* A set of positions that holds all positions before each of its own is an interval, and
\* its size says where it ends: what a `while` loop over a list has passed.
LEMMA PrefixCount ==
    ASSUME NEW n \in Nat, NEW P, P \subseteq 1 .. n,
           \A k \in P : \A m \in 1 .. k : m \in P
    PROVE  /\ Cardinality(P) \in 0 .. n
           /\ P = 1 .. Cardinality(P)
  <1>1. /\ IsFiniteSet(1 .. n) /\ Cardinality(1 .. n) = n
        /\ IsFiniteSet(P) /\ Cardinality(P) <= n
    <2>1. IsFiniteSet(1 .. n) /\ Cardinality(1 .. n) = n
      BY FS_Interval
    <2>2. P \in SUBSET (1 .. n)
      OBVIOUS
    <2>3. IsFiniteSet(P) /\ Cardinality(P) <= Cardinality(1 .. n)
      BY ONLY <2>1, <2>2, FS_Subset
    <2> QED
      BY <2>1, <2>3
  <1>2. Cardinality(P) \in Nat
    BY <1>1, FS_CardinalityType
  <1>3. P \subseteq 1 .. Cardinality(P)
    <2> SUFFICES ASSUME NEW k \in P PROVE k <= Cardinality(P)
      BY <1>2
    <2>1. 1 .. k \subseteq P
      OBVIOUS
    <2>2. Cardinality(1 .. k) <= Cardinality(P)
      BY <1>1, <2>1, FS_Subset
    <2>3. Cardinality(1 .. k) = k
      BY FS_Interval
    <2> QED
      BY <2>2, <2>3
  <1>4. /\ IsFiniteSet(1 .. Cardinality(P))
        /\ Cardinality(1 .. Cardinality(P)) = Cardinality(P)
    BY <1>2, FS_Interval
  <1>5. P = 1 .. Cardinality(P)
    BY <1>3, <1>4, FS_Subset
  <1> QED
    BY <1>1, <1>2, <1>5

\* A member that no other exceeds is the maximum...
LEMMA MaxIs ==
    ASSUME NEW S, S \subseteq Int, NEW m \in S, \A x \in S : x <= m
    PROVE  Max(S) = m
  <1>1. \E x \in S : \A y \in S : x >= y
    OBVIOUS
  <1>2. Max(S) \in S /\ \A y \in S : Max(S) >= y
    BY <1>1 DEF Max
  <1>3. Max(S) \in Int /\ m \in Int /\ (Max(S) <= m /\ m <= Max(S))
    BY <1>2
  <1> QED
    BY <1>3

\* ...and one that exceeds no other is the minimum.
LEMMA MinIs ==
    ASSUME NEW S, S \subseteq Int, NEW m \in S, \A x \in S : m <= x
    PROVE  Min(S) = m
  <1>1. \E x \in S : \A y \in S : x <= y
    OBVIOUS
  <1>2. Min(S) \in S /\ \A y \in S : Min(S) <= y
    BY <1>1 DEF Min
  <1>3. Min(S) \in Int /\ m \in Int /\ (Min(S) <= m /\ m <= Min(S))
    BY <1>2
  <1> QED
    BY <1>3

-----------------------------------------------------------------------------
(* The list of dirty rows                                                  *)

RowRange == [first : Nat, last : Nat]

\* The ranges are in order and apart.
Apart(d) ==
    /\ \A k \in 1 .. Len(d) : d[k].first <= d[k].last
    /\ \A k, m \in 1 .. Len(d) : k < m => d[k].last + 1 < d[m].first

RowsOf(d) == UNION {d[k].first .. d[k].last : k \in 1 .. Len(d)}

\* Before() passes the ranges that end before the new one, and stops at one that does not.
LEMMA BeforeIs ==
    ASSUME NEW d \in Seq(RowRange), NEW first \in Nat
    PROVE  LET i == Before(d, first) IN
           /\ i \in 0 .. Len(d)
           /\ \A k \in 1 .. i : d[k].last + 1 < first
           /\ i < Len(d) => d[i + 1].last + 1 >= first
  <1> DEFINE P == {k \in DOMAIN d : \A m \in 1 .. k : d[m].last + 1 < first}
             i == Cardinality(P)
  <1>1. DOMAIN d = 1 .. Len(d) /\ Len(d) \in Nat
    OBVIOUS
  <1>2. P \subseteq 1 .. Len(d) /\ \A k \in P : \A m \in 1 .. k : m \in P
    BY <1>1
  <1>3. i \in 0 .. Len(d) /\ P = 1 .. i
    <2> HIDE DEF P
    <2> QED
      BY <1>1, <1>2, PrefixCount
  <1>4. Before(d, first) = i
    BY DEF Before
  <1>5. \A k \in 1 .. i : d[k].last + 1 < first
    BY <1>3
  <1>6. ASSUME i < Len(d) PROVE d[i + 1].last + 1 >= first
    <2>1. i + 1 \in DOMAIN d /\ i + 1 \notin P
      <3> HIDE DEF P
      <3> QED
        BY <1>1, <1>3, <1>6
    <2>2. PICK m \in 1 .. i + 1 : ~(d[m].last + 1 < first)
      BY <2>1
    <2>3. m = i + 1
      BY <1>3, <1>5, <2>2
    <2>4. d[i + 1].last \in Nat
      <3>1. d[i + 1] \in RowRange
        BY <1>1, <2>1
      <3> QED
        BY <3>1 DEF RowRange
    <2> QED
      BY <2>2, <2>3, <2>4
  <1> QED
    BY <1>3, <1>4, <1>5, <1>6

\* Where the merged range ends: with the last of the ranges it takes in, or by itself.
LEMMA ReachIs ==
    ASSUME NEW d \in Seq(RowRange), Apart(d), NEW i \in 0 .. Len(d), NEW n \in 0 .. Len(d) - i,
           NEW end \in Nat
    PROVE  Reach(d, i, n, end) = IF n = 0 THEN end ELSE Greater(end, d[i + n].last)
  <1> DEFINE S == {end} \cup {d[i + k].last : k \in 1 .. n}
  <1>1. \A k \in 1 .. n : i + k \in 1 .. Len(d) /\ d[i + k].last \in Nat
    <2> SUFFICES ASSUME NEW k \in 1 .. n
                 PROVE  i + k \in 1 .. Len(d) /\ d[i + k].last \in Nat
      OBVIOUS
    <2>1. i + k \in 1 .. Len(d)
      OBVIOUS
    <2>2. d[i + k] \in RowRange
      BY <2>1
    <2> QED
      BY <2>1, <2>2 DEF RowRange
  <1>2. Reach(d, i, n, end) = Max(S) /\ S \subseteq Int
    <2>1. {d[i + k].last : k \in 1 .. n} \subseteq Nat
      BY <1>1
    <2>2. S \subseteq Int
      BY <2>1
    <2> QED
      BY <2>2 DEF Reach
  <1>3. CASE n = 0
    <2>1. end \in S /\ \A x \in S : x <= end
      BY <1>3
    <2> HIDE DEF S
    <2>2. Max(S) = end
      BY <1>2, <2>1, MaxIs
    <2> QED
      BY <1>2, <1>3, <2>2
  <1>4. CASE n # 0
    <2> DEFINE g == Greater(end, d[i + n].last)
    <2>1. n \in 1 .. n /\ d[i + n].last \in Nat
      BY <1>1, <1>4
    <2>2. \A k \in 1 .. n : d[i + k].last <= d[i + n].last
      <3> SUFFICES ASSUME NEW k \in 1 .. n PROVE d[i + k].last <= d[i + n].last
        OBVIOUS
      <3>0. CASE k = n
        <4>1. d[i + k].last = d[i + n].last
          BY <3>0
        <4> QED
          BY <2>1, <4>1
      <3> SUFFICES ASSUME k # n PROVE d[i + k].last <= d[i + n].last
        BY <3>0
      <3>1. /\ i + k \in 1 .. Len(d) /\ i + n \in 1 .. Len(d) /\ i + k < i + n
            /\ d[i + k].last \in Nat /\ d[i + n].last \in Nat
        BY <1>1, <2>1
      <3>2. d[i + k].last + 1 < d[i + n].first /\ d[i + n].first <= d[i + n].last
        BY <3>1 DEF Apart
      <3>3. d[i + n].first \in Nat
        <4>1. d[i + n] \in RowRange
          BY <3>1
        <4> QED
          BY <4>1 DEF RowRange
      <3> QED
        BY <3>1, <3>2, <3>3
    <2>3. g \in S /\ g \in Nat /\ end <= g /\ d[i + n].last <= g
      <3>1. d[i + n].last \in S
        BY <2>1
      <3> HIDE DEF S
      <3>2. end \in S
        BY DEF S
      <3> QED
        BY <2>1, <3>1, <3>2 DEF Greater
    <2>4. \A x \in S : x <= g
      <3> SUFFICES ASSUME NEW x \in S PROVE x <= g
        OBVIOUS
      <3>1. CASE x = end
        BY <2>3, <3>1
      <3>2. CASE x \in {d[i + k].last : k \in 1 .. n}
        <4> HIDE DEF g
        <4>1. PICK k \in 1 .. n : x = d[i + k].last
          BY <3>2
        <4>2. d[i + k].last \in Nat /\ d[i + k].last <= d[i + n].last
          BY <1>1, <2>2
        <4> QED
          BY <2>1, <2>3, <4>1, <4>2
      <3> QED
        BY <3>1, <3>2
    <2> HIDE DEF S, g
    <2>5. Max(S) = g
      BY <1>2, <2>3, <2>4, MaxIs
    <2> QED
      BY <1>2, <1>4, <2>5 DEF g
  <1> QED
    BY <1>3, <1>4

\* It takes in the ranges that begin no later than the row after it, and no other.
LEMMA AbsorbedIs ==
    ASSUME NEW d \in Seq(RowRange), Apart(d), NEW i \in 0 .. Len(d), NEW end \in Nat
    PROVE  LET n == Absorbed(d, i, end) IN
           /\ n \in 0 .. Len(d) - i
           /\ \A k \in 1 .. n : d[i + k].first <= end + 1
           /\ i + n < Len(d) => d[i + n + 1].first > end + 1
  <1> DEFINE L == Len(d) - i
             Took(k) == d[i + k].first <= Reach(d, i, k - 1, end) + 1
             P == {n \in 1 .. L : \A k \in 1 .. n : Took(k)}
             n == Cardinality(P)
  <1>1. L \in Nat /\ Absorbed(d, i, end) = n
    BY DEF Absorbed
  <1>2. ASSUME NEW k \in 1 .. L
        PROVE  /\ d[i + k].first \in Nat
               /\ Took(k) <=> d[i + k].first <= end + 1
    <2>1. i + k \in 1 .. Len(d) /\ k - 1 \in 0 .. L /\ i + (k - 1) = i + k - 1
      OBVIOUS
    <2>2. d[i + k].first \in Nat
      <3>1. d[i + k] \in RowRange
        BY <2>1
      <3> QED
        BY <3>1 DEF RowRange
    <2>3. Reach(d, i, k - 1, end) = IF k - 1 = 0 THEN end ELSE Greater(end, d[i + (k - 1)].last)
      BY <2>1, ReachIs
    <2>4. CASE k = 1
      BY <2>2, <2>3, <2>4
    <2>5. CASE k # 1
      <3>1. i + (k - 1) \in 1 .. Len(d) /\ i + (k - 1) < i + k
        BY <2>1, <2>5
      <3>2. d[i + (k - 1)].last \in Nat
        <4>1. d[i + (k - 1)] \in RowRange
          BY <3>1
        <4> QED
          BY <4>1 DEF RowRange
      <3>3. d[i + (k - 1)].last + 1 < d[i + k].first
        BY <2>1, <3>1 DEF Apart
      <3>4. Reach(d, i, k - 1, end) = Greater(end, d[i + (k - 1)].last)
        BY <2>3, <2>5
      <3> QED
        BY <2>2, <3>2, <3>3, <3>4 DEF Greater
    <2> QED
      BY <2>2, <2>4, <2>5
  <1> HIDE DEF Took
  <1>3. P \subseteq 1 .. L /\ \A k \in P : \A m \in 1 .. k : m \in P
    <2> SUFFICES ASSUME NEW k \in P, NEW m \in 1 .. k PROVE m \in P
      OBVIOUS
    <2>1. m \in 1 .. L /\ 1 .. m \subseteq 1 .. k
      BY <1>1
    <2> QED
      BY <2>1
  <1>4. n \in 0 .. L /\ P = 1 .. n
    <2> HIDE DEF P
    <2> QED
      BY <1>1, <1>3, PrefixCount
  <1>5. \A k \in 1 .. n : k \in 1 .. L /\ Took(k)
    <2> SUFFICES ASSUME NEW k \in 1 .. n PROVE k \in 1 .. L /\ Took(k)
      OBVIOUS
    <2>1. k \in P
      BY <1>4
    <2>2. k \in 1 .. k
      BY <2>1
    <2> QED
      BY <2>1, <2>2
  <1>6. ASSUME i + n < Len(d) PROVE d[i + n + 1].first > end + 1
    <2>1. n + 1 \in 1 .. L /\ n + 1 \notin P
      <3> HIDE DEF P
      <3> QED
        BY <1>1, <1>4, <1>6
    <2>2. PICK k \in 1 .. n + 1 : ~Took(k)
      BY <2>1
    <2>3. k = n + 1
      <3> HIDE DEF P
      <3> QED
        BY <1>4, <1>5, <2>2
    <2>4. ~(d[i + (n + 1)].first <= end + 1) /\ d[i + (n + 1)].first \in Nat
      <3> HIDE DEF P
      <3> QED
        BY <1>2, <2>1, <2>2, <2>3
    <2>5. i + (n + 1) = i + n + 1
      <3> HIDE DEF P
      <3> QED
        BY <1>4
    <2> QED
      BY <2>4, <2>5
  <1> HIDE DEF P
  <1> QED
    BY <1>1, <1>2, <1>4, <1>5, <1>6

\* Where the merged range begins: with the first of the ranges it takes in, or by itself.
LEMMA TopIs ==
    ASSUME NEW d \in Seq(RowRange), Apart(d), NEW i \in 0 .. Len(d), NEW n \in 0 .. Len(d) - i,
           NEW begin \in Nat
    PROVE  Min({begin} \cup {d[i + k].first : k \in 1 .. n})
               = IF n = 0 THEN begin ELSE Lesser(begin, d[i + 1].first)
  <1> DEFINE S == {begin} \cup {d[i + k].first : k \in 1 .. n}
  <1>1. \A k \in 1 .. n : i + k \in 1 .. Len(d) /\ d[i + k].first \in Nat
    <2> SUFFICES ASSUME NEW k \in 1 .. n
                 PROVE  i + k \in 1 .. Len(d) /\ d[i + k].first \in Nat
      OBVIOUS
    <2>1. i + k \in 1 .. Len(d)
      OBVIOUS
    <2>2. d[i + k] \in RowRange
      BY <2>1
    <2> QED
      BY <2>1, <2>2 DEF RowRange
  <1>2. S \subseteq Int
    <2>1. {d[i + k].first : k \in 1 .. n} \subseteq Nat
      BY <1>1
    <2> QED
      BY <2>1
  <1>3. CASE n = 0
    <2>1. begin \in S /\ \A x \in S : begin <= x
      BY <1>3
    <2> HIDE DEF S
    <2>2. Min(S) = begin
      BY <1>2, <2>1, MinIs
    <2> QED
      BY <1>3, <2>2 DEF S
  <1>4. CASE n # 0
    <2> DEFINE g == Lesser(begin, d[i + 1].first)
    <2>1. 1 \in 1 .. n /\ d[i + 1].first \in Nat
      BY <1>1, <1>4
    <2>2. \A k \in 1 .. n : d[i + 1].first <= d[i + k].first
      <3> SUFFICES ASSUME NEW k \in 1 .. n PROVE d[i + 1].first <= d[i + k].first
        OBVIOUS
      <3>0. CASE k = 1
        <4>1. d[i + k].first = d[i + 1].first
          BY <3>0
        <4> QED
          BY <2>1, <4>1
      <3> SUFFICES ASSUME k # 1 PROVE d[i + 1].first <= d[i + k].first
        BY <3>0
      <3>1. /\ i + k \in 1 .. Len(d) /\ i + 1 \in 1 .. Len(d) /\ i + 1 < i + k
            /\ d[i + k].first \in Nat /\ d[i + 1].first \in Nat
        BY <1>1, <2>1
      <3>2. d[i + 1].last + 1 < d[i + k].first /\ d[i + 1].first <= d[i + 1].last
        BY <3>1 DEF Apart
      <3>3. d[i + 1].last \in Nat
        <4>1. d[i + 1] \in RowRange
          BY <3>1
        <4> QED
          BY <4>1 DEF RowRange
      <3> DEFINE p == d[i + 1].first
                 q == d[i + 1].last
                 r == d[i + k].first
      <3>4. p \in Nat /\ q \in Nat /\ r \in Nat /\ p <= q /\ q + 1 < r
        BY <3>1, <3>2, <3>3
      <3> HIDE DEF p, q, r
      <3>5. p <= r
        BY ONLY <3>4
      <3> QED
        BY <3>5 DEF p, r
    <2>3. g \in S /\ g \in Nat /\ g <= begin /\ g <= d[i + 1].first
      <3>1. d[i + 1].first \in S
        BY <2>1
      <3> HIDE DEF S
      <3>2. begin \in S
        BY DEF S
      <3> QED
        BY <2>1, <3>1, <3>2 DEF Lesser
    <2>4. \A x \in S : g <= x
      <3> SUFFICES ASSUME NEW x \in S PROVE g <= x
        OBVIOUS
      <3>1. CASE x = begin
        BY <2>3, <3>1
      <3>2. CASE x \in {d[i + k].first : k \in 1 .. n}
        <4> HIDE DEF g
        <4>1. PICK k \in 1 .. n : x = d[i + k].first
          BY <3>2
        <4>2. d[i + k].first \in Nat /\ d[i + 1].first <= d[i + k].first
          BY <1>1, <2>2
        <4> QED
          BY <2>1, <2>3, <4>1, <4>2
      <3> QED
        BY <3>1, <3>2
    <2> HIDE DEF S, g
    <2>5. Min(S) = g
      BY <1>2, <2>3, <2>4, MinIs
    <2> QED
      BY <1>4, <2>5 DEF g, S
  <1> QED
    BY <1>3, <1>4

\* A list whose n elements behind the first i are replaced by one.
Splice(d, i, n, r) == SubSeq(d, 1, i) \o <<r>> \o SubSeq(d, i + n + 1, Len(d))

\* The range r covers the n ranges behind the first i and the rows in fresh, and no other
\* row, and is apart from the other ranges.
Covers(d, i, n, r, fresh) ==
    /\ i \in Nat /\ n \in Nat /\ i + n <= Len(d)
    /\ r \in RowRange /\ r.first <= r.last
    /\ \A k \in 1 .. i : d[k].last + 1 < r.first
    /\ \A k \in i + n + 1 .. Len(d) : r.last + 1 < d[k].first
    /\ \A k \in i + 1 .. i + n : r.first <= d[k].first /\ d[k].last <= r.last
    /\ fresh \subseteq r.first .. r.last
    /\ \A y \in r.first .. r.last :
           y \in fresh \/ \E k \in i + 1 .. i + n : y \in d[k].first .. d[k].last

\* When such a range takes their place the list stays in order and apart, and its rows are
\* those from before and the fresh ones.
LEMMA ReplacedRows ==
    ASSUME NEW d \in Seq(RowRange), Apart(d), NEW i, NEW n, NEW r, NEW fresh,
           Covers(d, i, n, r, fresh)
    PROVE  LET e == Splice(d, i, n, r) IN
           /\ e \in Seq(RowRange) /\ Apart(e)
           /\ Len(e) <= Len(d) + 1
           /\ RowsOf(e) = RowsOf(d) \cup fresh
  <1> DEFINE e == Splice(d, i, n, r)
  <1> SUFFICES ASSUME i \in Nat, n \in Nat, i + n <= Len(d), r \in RowRange, r.first <= r.last,
                      \A k \in 1 .. i : d[k].last + 1 < r.first,
                      \A k \in i + n + 1 .. Len(d) : r.last + 1 < d[k].first,
                      \A k \in i + 1 .. i + n : r.first <= d[k].first /\ d[k].last <= r.last,
                      fresh \subseteq r.first .. r.last,
                      \A y \in r.first .. r.last :
                          y \in fresh \/ \E k \in i + 1 .. i + n : y \in d[k].first .. d[k].last
               PROVE  e \in Seq(RowRange) /\ Apart(e) /\ Len(e) <= Len(d) + 1
                      /\ RowsOf(e) = RowsOf(d) \cup fresh
    BY DEF Covers
  <1> DEFINE L == Len(d)
             a == SubSeq(d, 1, i)
             b == <<r>>
             c == SubSeq(d, i + n + 1, L)
  <1>0. L \in Nat /\ i + n <= L /\ \A k \in 1 .. L : d[k] \in RowRange
    OBVIOUS
  <1>l. /\ \A k \in 1 .. L : d[k].first \in Nat /\ d[k].last \in Nat
        /\ r.first \in Nat /\ r.last \in Nat
    BY <1>0 DEF RowRange
  <1>d. /\ \A k \in 1 .. L : d[k].first <= d[k].last
        /\ \A k, m \in 1 .. L : k < m => d[k].last + 1 < d[m].first
    BY DEF Apart
  <1>n. /\ \A k \in i + n + 1 .. L : r.last + 1 < d[k].first
        /\ Len(d) = L
    OBVIOUS
  <1> HIDE DEF L
  <1>1. a \in Seq(RowRange) /\ Len(a) = i /\ \A k \in 1 .. i : a[k] = d[k]
    <2>1. \A k \in 1 .. i : d[k] \in RowRange
      BY <1>0
    <2>2. /\ a \in Seq(RowRange)
          /\ Len(a) = IF 1 <= i THEN i - 1 + 1 ELSE 0
          /\ \A k \in 1 .. i - 1 + 1 : a[k] = d[1 + k - 1]
      BY <2>1, SubSeqProperties
    <2> HIDE DEF a
    <2>3. i - 1 + 1 = i /\ \A k \in 1 .. i : 1 + k - 1 = k
      OBVIOUS
    <2> QED
      BY <2>2, <2>3
  <1>2. /\ c \in Seq(RowRange) /\ Len(c) = L - i - n
        /\ \A k \in 1 .. L - i - n : c[k] = d[i + n + k]
    <2>1. /\ \A k \in i + n + 1 .. L : d[k] \in RowRange
          /\ i + n + 1 \in Int /\ L \in Int
      BY <1>0
    <2>2. /\ c \in Seq(RowRange)
          /\ Len(c) = IF i + n + 1 <= L THEN L - (i + n + 1) + 1 ELSE 0
          /\ \A k \in 1 .. L - (i + n + 1) + 1 : c[k] = d[i + n + 1 + k - 1]
      BY <2>1, SubSeqProperties
    <2> HIDE DEF c
    <2>3. /\ L - (i + n + 1) + 1 = L - i - n
          /\ \A k \in 1 .. L - i - n : i + n + 1 + k - 1 = i + n + k
      BY <1>0
    <2> QED
      BY <1>0, <2>2, <2>3
  <1>3. b \in Seq(RowRange) /\ Len(b) = 1 /\ b[1] = r
    OBVIOUS
  <1>e. e = (a \o b) \o c
    BY DEF Splice, L
  <1> HIDE DEF a, b, c, e
  <1>4. /\ a \o b \in Seq(RowRange) /\ Len(a \o b) = i + 1
        /\ \A k \in 1 .. i + 1 : (a \o b)[k] = IF k <= i THEN a[k] ELSE b[k - i]
    <2>1. /\ a \o b \in Seq(RowRange)
          /\ Len(a \o b) = Len(a) + Len(b)
          /\ \A k \in 1 .. Len(a) + Len(b) :
                 (a \o b)[k] = IF k <= Len(a) THEN a[k] ELSE b[k - Len(a)]
      BY <1>1, <1>3, ConcatProperties
    <2> QED
      BY <1>1, <1>3, <2>1
  <1> DEFINE ab == a \o b
  <1> HIDE DEF ab
  <1>5. /\ ab \in Seq(RowRange) /\ Len(ab) = i + 1
        /\ \A k \in 1 .. i + 1 : ab[k] = IF k <= i THEN a[k] ELSE b[k - i]
    BY <1>4 DEF ab
  <1>6. /\ ab \o c \in Seq(RowRange)
        /\ Len(ab \o c) = Len(ab) + Len(c)
        /\ \A k \in 1 .. Len(ab) + Len(c) :
               (ab \o c)[k] = IF k <= Len(ab) THEN ab[k] ELSE c[k - Len(ab)]
    BY <1>2, <1>5, ConcatProperties
  <1>7. (i + 1) + (L - i - n) = L - n + 1
    BY <1>0
  <1>8. /\ e \in Seq(RowRange)
        /\ Len(e) = L - n + 1
        /\ \A k \in 1 .. L - n + 1 : e[k] = IF k <= i + 1 THEN ab[k] ELSE c[k - (i + 1)]
    BY <1>2, <1>5, <1>6, <1>7, <1>e DEF ab
  <1>9. ASSUME NEW k \in 1 .. i PROVE e[k] = d[k]
    <2>1. k \in 1 .. L - n + 1 /\ k \in 1 .. i + 1 /\ k <= i /\ k <= i + 1
      BY <1>0
    <2> QED
      BY <1>1, <1>5, <1>8, <2>1
  <1>10. e[i + 1] = r
    <2> SUFFICES ASSUME NEW k, k = i + 1 PROVE e[k] = r
      OBVIOUS
    <2>1. k \in 1 .. L - n + 1 /\ k \in 1 .. i + 1 /\ ~(k <= i) /\ k <= i + 1 /\ k - i = 1
      BY <1>0
    <2> QED
      BY <1>3, <1>5, <1>8, <2>1
  <1>11. ASSUME NEW k \in i + 2 .. L - n + 1 PROVE e[k] = d[k + n - 1]
    <2>1. /\ k \in 1 .. L - n + 1 /\ ~(k <= i + 1) /\ k - (i + 1) \in 1 .. L - i - n
          /\ i + n + (k - (i + 1)) = k + n - 1
      BY <1>0
    <2> QED
      BY <1>2, <1>8, <2>1
  <1> DEFINE Src(k) == IF k <= i THEN k ELSE k + n - 1
  <1>12. ASSUME NEW k \in 1 .. L - n + 1, k # i + 1
         PROVE  /\ Src(k) \in 1 .. L /\ e[k] = d[Src(k)]
                /\ Src(k) \in 1 .. i \/ Src(k) \in i + n + 1 .. L
    <2>1. CASE k <= i
      BY <1>0, <1>9, <2>1
    <2>2. CASE ~(k <= i)
      <3>1. k \in i + 2 .. L - n + 1 /\ k + n - 1 \in i + n + 1 .. L /\ k + n - 1 \in 1 .. L
        BY <1>0, <1>12, <2>2
      <3> QED
        BY <1>11, <2>2, <3>1
    <2> QED
      BY <2>1, <2>2
  <1>13. ASSUME NEW k \in 1 .. L - n + 1
         PROVE  e[k].first \in Nat /\ e[k].last \in Nat /\ e[k].first <= e[k].last
    <2>1. CASE k = i + 1
      <3>1. e[k] = r
        BY <1>10, <2>1
      <3> QED
        BY <1>l, <3>1
    <2>2. CASE k # i + 1
      <3>1. Src(k) \in 1 .. L /\ e[k] = d[Src(k)]
        BY <1>12, <2>2
      <3> HIDE DEF Src
      <3> QED
        BY <1>l, <1>d, <3>1
    <2> QED
      BY <2>1, <2>2
  <1>14. ASSUME NEW k \in 1 .. L - n + 1, NEW m \in 1 .. L - n + 1, k < m
         PROVE  e[k].last + 1 < e[m].first
    <2>1. CASE k = i + 1
      <3>1. e[k] = r /\ m # i + 1 /\ ~(m <= i)
        BY <1>10, <1>14, <2>1
      <3>2. Src(m) \in i + n + 1 .. L /\ e[m] = d[Src(m)]
        BY <1>12, <3>1
      <3> HIDE DEF Src
      <3> QED
        BY <1>n, <3>1, <3>2
    <2>2. CASE m = i + 1
      <3>1. e[m] = r /\ k # i + 1 /\ k \in 1 .. i
        BY <1>10, <1>14, <2>2
      <3> QED
        BY <1>9, <3>1
    <2>3. CASE k # i + 1 /\ m # i + 1
      <3>1. /\ Src(k) \in 1 .. L /\ e[k] = d[Src(k)]
            /\ Src(m) \in 1 .. L /\ e[m] = d[Src(m)]
        BY <1>12, <2>3
      <3>2. Src(k) < Src(m)
        <4>1. k \in Int /\ m \in Int /\ k < m /\ k # i + 1 /\ m # i + 1
          BY <1>0, <1>14, <2>3
        <4> QED
          BY <4>1
      <3> HIDE DEF Src
      <3> QED
        BY <1>d, <3>1, <3>2
    <2> QED
      BY <2>1, <2>2, <2>3
  <1>15. Apart(e)
    BY <1>8, <1>13, <1>14 DEF Apart
  <1>16. ASSUME NEW y \in RowsOf(e) PROVE y \in RowsOf(d) \cup fresh
    <2>1. PICK k \in 1 .. L - n + 1 : y \in e[k].first .. e[k].last
      BY <1>8 DEF RowsOf
    <2>2. CASE k = i + 1
      <3>1. y \in r.first .. r.last
        BY <1>10, <2>1, <2>2
      <3>2. CASE y \in fresh
        BY <3>2
      <3>3. CASE \E m \in i + 1 .. i + n : y \in d[m].first .. d[m].last
        <4>1. PICK m \in i + 1 .. i + n : y \in d[m].first .. d[m].last
          BY <3>3
        <4>2. m \in 1 .. L
          BY <1>0
        <4> QED
          BY <1>n, <4>1, <4>2 DEF RowsOf
      <3> QED
        BY <3>1, <3>2, <3>3
    <2>3. CASE k # i + 1
      <3>1. Src(k) \in 1 .. L /\ e[k] = d[Src(k)]
        BY <1>12, <2>3
      <3> HIDE DEF Src
      <3> QED
        BY <1>n, <2>1, <3>1 DEF RowsOf
    <2> QED
      BY <2>2, <2>3
  <1>17. ASSUME NEW k \in 1 .. L, NEW y \in d[k].first .. d[k].last PROVE y \in RowsOf(e)
    <2>1. CASE k \in 1 .. i
      <3>1. k \in 1 .. L - n + 1 /\ e[k] = d[k]
        BY <1>0, <1>9, <2>1
      <3> QED
        BY <1>8, <3>1 DEF RowsOf
    <2>2. CASE k \in i + 1 .. i + n
      <3>1. y \in r.first .. r.last
        BY <1>l, <2>2
      <3>2. i + 1 \in 1 .. L - n + 1
        BY <1>0
      <3> QED
        BY <1>8, <1>10, <3>1, <3>2 DEF RowsOf
    <2>3. CASE k \in i + n + 1 .. L
      <3> DEFINE m == k - n + 1
      <3>1. m \in i + 2 .. L - n + 1 /\ m + n - 1 = k /\ m \in 1 .. L - n + 1
        BY <1>0, <2>3
      <3> HIDE DEF m
      <3>2. e[m] = d[k]
        BY <1>11, <3>1
      <3> QED
        BY <1>8, <3>1, <3>2 DEF RowsOf
    <2> QED
      BY <1>0, <2>1, <2>2, <2>3
  <1>18. fresh \subseteq RowsOf(e)
    <2>1. i + 1 \in 1 .. L - n + 1
      BY <1>0
    <2>2. e[i + 1].first .. e[i + 1].last \subseteq RowsOf(e)
      BY <1>8, <2>1 DEF RowsOf
    <2> QED
      BY <1>10, <2>2
  <1>19. RowsOf(d) \subseteq RowsOf(e)
    BY <1>17, <1>n DEF RowsOf
  <1>20. Len(e) <= Len(d) + 1
    BY <1>0, <1>8, <1>n
  <1>21. RowsOf(e) = RowsOf(d) \cup fresh
    BY <1>16, <1>18, <1>19
  <1> QED
    BY <1>8, <1>15, <1>20, <1>21

\* dirty_add() on a list with room keeps the ranges in order and apart, adds the rows of
\* the new range and no other, and takes at most one place more.
LEMMA DirtyAddMerges ==
    ASSUME NEW d \in Seq(RowRange), Apart(d), Len(d) < OSD_MAX_DIRTY_RANGES,
           NEW first \in Nat, NEW end \in Nat, first <= end
    PROVE  LET e == DirtyAdd(d, first, end) IN
           /\ e \in Seq(RowRange) /\ Apart(e)
           /\ Len(e) <= Len(d) + 1
           /\ RowsOf(e) = RowsOf(d) \cup (first .. end)
  <1> DEFINE L == Len(d)
             i == Before(d, first)
             n == Absorbed(d, i, end)
             top == Min({first} \cup {d[i + k].first : k \in 1 .. n})
             bot == Reach(d, i, n, end)
             r == Rows(top, bot)
             e == SubSeq(d, 1, i) \o <<r>> \o SubSeq(d, i + n + 1, L)
  <1>0. L \in Nat /\ \A k \in 1 .. L : d[k] \in RowRange /\ d[k].first \in Nat /\ d[k].last \in Nat
    <2>1. L \in Nat /\ \A k \in 1 .. L : d[k] \in RowRange
      OBVIOUS
    <2> QED
      BY <2>1 DEF RowRange
  <1>1. /\ i \in 0 .. L
        /\ \A k \in 1 .. i : d[k].last + 1 < first
        /\ i < L => d[i + 1].last + 1 >= first
    BY BeforeIs
  <1> HIDE DEF i
  <1>2. /\ n \in 0 .. L - i
        /\ \A k \in 1 .. n : d[i + k].first <= end + 1
        /\ i + n < L => d[i + n + 1].first > end + 1
    BY <1>1, AbsorbedIs
  <1> HIDE DEF n
  <1>3. bot = IF n = 0 THEN end ELSE Greater(end, d[i + n].last)
    BY <1>1, <1>2, ReachIs
  <1>4. top = IF n = 0 THEN first ELSE Lesser(first, d[i + 1].first)
    BY <1>1, <1>2, TopIs
  <1>5. DirtyAdd(d, first, end) = e
    <2>1. ~(Len(d) >= OSD_MAX_DIRTY_RANGES)
      BY <1>0, FrameAssumption DEF OSD_MAX_DIRTY_RANGES
    <2> QED
      BY <2>1 DEF DirtyAdd, i, n
  <1> HIDE DEF top, bot
  <1>6. /\ top \in Nat /\ bot \in Nat /\ top <= first /\ end <= bot /\ top <= bot
        /\ n # 0 => /\ i + 1 \in 1 .. L /\ i + n \in 1 .. L
                    /\ top <= d[i + 1].first /\ d[i + n].last <= bot
                    /\ top \in {first, d[i + 1].first} /\ bot \in {end, d[i + n].last}
        /\ n = 0 => top = first /\ bot = end
    <2>1. CASE n = 0
      BY <1>3, <1>4, <2>1
    <2>2. CASE n # 0
      <3>1. i + 1 \in 1 .. L /\ i + n \in 1 .. L
        BY <1>0, <1>1, <1>2, <2>2
      <3>2. d[i + 1].first \in Nat /\ d[i + n].last \in Nat
        BY <1>0, <3>1
      <3> QED
        BY <1>3, <1>4, <2>2, <3>1, <3>2 DEF Lesser, Greater
    <2> QED
      BY <2>1, <2>2
  <1>7. /\ r \in RowRange /\ r.first = top /\ r.last = bot
        /\ i \in Nat /\ n \in Nat /\ i + n <= L /\ L \in Nat /\ L = Len(d)
    <2>1. r \in RowRange /\ r.first = top /\ r.last = bot
      BY <1>6 DEF RowRange, Rows
    <2> QED
      BY <1>0, <1>1, <1>2, <2>1
  <1>e. e = Splice(d, i, n, r)
    BY DEF Splice
  <1> HIDE DEF e, r
  <1>8. \A k, m \in 1 .. L : k < m => d[k].last + 1 < d[m].first
    BY DEF Apart
  <1>9. \A k \in 1 .. L : d[k].first <= d[k].last
    BY DEF Apart
  <1>10. ASSUME NEW k \in 1 .. i PROVE d[k].last + 1 < r.first
    <2>1. k \in 1 .. L /\ d[k].last + 1 < first
      BY <1>1, <1>7
    <2>2. n # 0 => d[k].last + 1 < d[i + 1].first
      BY <1>6, <1>7, <1>8, <2>1
    <2> QED
      BY <1>6, <1>7, <2>1, <2>2
  <1>11. ASSUME NEW k \in i + n + 1 .. L PROVE r.last + 1 < d[k].first
    <2>1. k \in 1 .. L /\ d[k].first \in Nat
      BY <1>0, <1>7
    <2>2. end + 1 < d[k].first
      <3>1. i + n < L /\ i + n + 1 \in 1 .. L
        BY <1>7
      <3>2. end + 1 < d[i + n + 1].first
        BY <1>0, <1>2, <3>1
      <3>3. CASE k = i + n + 1
        BY <3>2, <3>3
      <3>4. CASE k # i + n + 1
        <4>1. i + n + 1 < k
          BY <1>7, <3>4
        <4>2. /\ d[i + n + 1].first <= d[i + n + 1].last
              /\ d[i + n + 1].last + 1 < d[k].first
          BY <1>8, <1>9, <2>1, <3>1, <4>1
        <4>3. d[i + n + 1].first \in Nat /\ d[i + n + 1].last \in Nat
          BY <1>0, <3>1
        <4> QED
          BY <2>1, <3>2, <4>2, <4>3
      <3> QED
        BY <3>3, <3>4
    <2>3. n # 0 => d[i + n].last + 1 < d[k].first
      <3> SUFFICES ASSUME n # 0 PROVE d[i + n].last + 1 < d[k].first
        OBVIOUS
      <3>1. i + n \in 1 .. L /\ i + n < k
        BY <1>6, <1>7
      <3> QED
        BY <1>8, <2>1, <3>1
    <2> QED
      BY <1>6, <1>7, <2>2, <2>3
  <1>12. ASSUME NEW k \in i + 1 .. i + n
         PROVE  r.first <= d[k].first /\ d[k].last <= r.last
    <2>1. /\ n # 0 /\ i + 1 \in 1 .. L /\ i + n \in 1 .. L /\ k \in 1 .. L
          /\ d[k].first \in Nat /\ d[k].last \in Nat /\ d[k].first <= d[k].last
          /\ d[i + 1].first \in Nat /\ d[i + 1].last \in Nat
          /\ d[i + 1].first <= d[i + 1].last
          /\ d[i + n].first \in Nat /\ d[i + n].last \in Nat
          /\ d[i + n].first <= d[i + n].last
      BY <1>0, <1>6, <1>7, <1>9
    <2>2. d[i + 1].first <= d[k].first
      <3>1. CASE k = i + 1
        BY <2>1, <3>1
      <3>2. CASE k # i + 1
        <4>1. i + 1 < k
          BY <1>7, <3>2
        <4>2. d[i + 1].last + 1 < d[k].first
          BY <1>8, <2>1, <4>1
        <4> QED
          BY <2>1, <4>2
      <3> QED
        BY <3>1, <3>2
    <2>3. d[k].last <= d[i + n].last
      <3>1. CASE k = i + n
        BY <2>1, <3>1
      <3>2. CASE k # i + n
        <4>1. k < i + n
          BY <1>7, <3>2
        <4>2. d[k].last + 1 < d[i + n].first
          BY <1>8, <2>1, <4>1
        <4> QED
          BY <2>1, <4>2
      <3> QED
        BY <3>1, <3>2
    <2> QED
      BY <1>6, <1>7, <2>1, <2>2, <2>3
  <1>13. first .. end \subseteq r.first .. r.last
    BY <1>6, <1>7
  <1>14. ASSUME NEW y \in r.first .. r.last
         PROVE  y \in first .. end \/ \E k \in i + 1 .. i + n : y \in d[k].first .. d[k].last
    <2>1. y \in top .. bot /\ y \in Int
      BY <1>6, <1>7
    <2>2. CASE n = 0
      BY <1>6, <2>1, <2>2
    <2>3. CASE n # 0
      <3>1. i + 1 \in i + 1 .. i + n /\ i + n \in i + 1 .. i + n /\ i + 1 \in 1 .. L /\ i + n \in 1 .. L
        BY <1>6, <1>7, <2>3
      <3>2. /\ d[i + 1].first \in Nat /\ d[i + 1].last \in Nat
            /\ d[i + n].first \in Nat /\ d[i + n].last \in Nat
        BY <1>0, <3>1
      <3>3. CASE y < first
        <4>1. d[i + 1].last + 1 >= first /\ top = d[i + 1].first
          BY <1>1, <1>6, <1>7, <2>1, <2>3, <3>1, <3>3
        <4>2. y \in d[i + 1].first .. d[i + 1].last
          BY <1>6, <2>1, <3>2, <3>3, <4>1
        <4> QED
          BY <3>1, <4>2
      <3>4. CASE y > end
        <4>1. n \in 1 .. n
          BY <1>7, <2>3
        <4>2. d[i + n].first <= end + 1 /\ bot = d[i + n].last
          BY <1>2, <1>6, <2>1, <2>3, <3>4, <4>1
        <4>3. y \in d[i + n].first .. d[i + n].last
          BY <1>6, <2>1, <3>2, <3>4, <4>2
        <4> QED
          BY <3>1, <4>3
      <3> QED
        BY <2>1, <3>3, <3>4
    <2> QED
      BY <2>2, <2>3
  <1>15. r.first <= r.last
    BY <1>6, <1>7
  <1> DEFINE fresh == first .. end
  <1> HIDE DEF fresh
  <1>16. Covers(d, i, n, r, fresh)
    BY <1>7, <1>10, <1>11, <1>12, <1>13, <1>14, <1>15 DEF fresh, Covers
  <1>17. e \in Seq(RowRange) /\ Apart(e)
    BY <1>e, <1>16, ReplacedRows
  <1>18. Len(e) <= Len(d) + 1
    BY <1>e, <1>16, ReplacedRows
  <1>19. RowsOf(e) = RowsOf(d) \cup fresh
    BY <1>e, <1>16, ReplacedRows
  <1> QED
    BY <1>5, <1>17, <1>18, <1>19 DEF fresh

-----------------------------------------------------------------------------
(* The marks                                                               *)

\* Where the whole pairs of a run from an even place begin...
Pairs(start, x2) == {x \in start .. x2 - 1 : (x - start) % 2 = 0}

\* ...and how many they are: one for every two pixels.
LEMMA PairsCounted ==
    ASSUME NEW start \in Nat, NEW x2 \in Int, x2 >= start - 1
    PROVE  Cardinality(Pairs(start, x2)) = (x2 - start + 1) \div 2
  <1> DEFINE G == Pairs(start, x2)
             g == (x2 - start + 1) \div 2
             f == [j \in 1 .. g |-> start + 2 * (j - 1)]
  <1>1. g \in Nat /\ 2 * g <= x2 - start + 1 /\ x2 - start <= 2 * g
    OBVIOUS
  <1>2. ASSUME NEW j \in 1 .. g PROVE start + 2 * (j - 1) \in G
    <2>1. start + 2 * (j - 1) \in start .. x2 - 1
      BY <1>1
    <2>2. (start + 2 * (j - 1) - start) % 2 = 0
      OBVIOUS
    <2> QED
      BY <2>1, <2>2 DEF Pairs
  <1>3. ASSUME NEW x \in G PROVE \E j \in 1 .. g : start + 2 * (j - 1) = x
    <2> DEFINE j == (x - start) \div 2 + 1
    <2>1. x \in Int /\ start <= x /\ x <= x2 - 1 /\ (x - start) % 2 = 0
      BY DEF Pairs
    <2>2. j \in Int /\ j >= 1 /\ start + 2 * (j - 1) = x
      BY <2>1
    <2>3. j <= g
      BY <1>1, <2>1, <2>2
    <2>4. g \in Nat
      BY <1>1
    <2> HIDE DEF j, g
    <2>5. j \in 1 .. g
      BY <2>2, <2>3, <2>4
    <2> WITNESS j \in 1 .. g
    <2> QED
      BY <2>2
  <1> HIDE DEF G, g
  <1>4. f \in Bijection(1 .. g, G)
    <2>1. f \in [1 .. g -> G]
      BY <1>2
    <2>2. \A j, k \in 1 .. g : f[j] = f[k] => j = k
      BY <1>1
    <2>3. \A x \in G : \E j \in 1 .. g : f[j] = x
      BY <1>3
    <2> QED
      BY <2>1, <2>2, <2>3 DEF Bijection, Injection, Surjection, IsInjective
  <1>5. IsFiniteSet(1 .. g) /\ Cardinality(1 .. g) = g
    BY <1>1, FS_Interval
  <1>6. Cardinality(G) = Cardinality(1 .. g)
    BY <1>4, <1>5, FS_Bijection DEF ExistsBijection
  <1> QED
    BY <1>5, <1>6 DEF G, g

\* draw_hrun() writes its run, whole and no more, from odd or even places.
LEMMA HRunIs ==
    ASSUME NEW y, NEW x1 \in Nat, NEW x2 \in Nat, x1 <= x2
    PROVE  HRun(y, x1, x2) = (x1 .. x2) \X {y}
  <1> DEFINE start == x1 + (x1 % 2)
             groups == Pairs(start, x2)
             stop == start + 2 * Cardinality(groups)
             leading == IF x1 # start THEN {x1} ELSE {}
             trailing == IF stop = x2 THEN {x2} ELSE {}
             run == leading \cup groups \cup {x + 1 : x \in groups} \cup trailing
  <1>1. start \in Nat /\ start \in {x1, x1 + 1} /\ x2 >= start - 1
    OBVIOUS
  <1> HIDE DEF start
  <1>2. Cardinality(groups) = (x2 - start + 1) \div 2
    BY <1>1, PairsCounted
  <1>3. stop = x2 <=> start <= x2 /\ (x2 - start) % 2 = 0
    BY <1>1, <1>2
  <1> HIDE DEF stop
  <1>4. run \subseteq x1 .. x2
    BY <1>1 DEF Pairs
  <1>5. ASSUME NEW x \in x1 .. x2 PROVE x \in run
    <2>1. CASE x < start
      BY <1>1, <2>1
    <2>2. CASE x >= start /\ (x - start) % 2 = 0 /\ x <= x2 - 1
      <3>1. x \in groups
        BY <1>1, <2>2 DEF Pairs
      <3> QED
        BY <3>1 DEF Pairs
    <2>3. CASE x >= start /\ (x - start) % 2 = 0 /\ x = x2
      BY <1>1, <1>3, <2>3
    <2>4. CASE x >= start /\ (x - start) % 2 # 0
      <3>1. x - 1 \in start .. x2 - 1 /\ (x - 1 - start) % 2 = 0
        BY <1>1, <2>4
      <3>2. x - 1 \in groups /\ x = (x - 1) + 1
        BY <3>1 DEF Pairs
      <3> QED
        BY <3>2
    <2> QED
      BY <1>1, <2>1, <2>2, <2>3, <2>4
  <1>6. run = x1 .. x2
    BY <1>4, <1>5
  <1>7. HRun(y, x1, x2) = run \X {y}
    BY DEF HRun, Pairs, start, stop
  <1> QED
    BY <1>6, <1>7

\* A box in frame coordinates: its corner is on the frame's side of the top left edges.
ClipBox == [x1 : Nat, y1 : Nat, x2 : Int, y2 : Int]

\* Clipping brings a box to the frame, or turns it over when it is off the frame.
LEMMA ClippedIs ==
    ASSUME NEW b \in Found
    PROVE  /\ Clipped(b) \in ClipBox
           /\ Clipped(b).x2 <= Width - 1 /\ Clipped(b).y2 <= Height - 1
  <1>1. /\ b.x1 \in Int /\ b.y1 \in Int /\ b.x2 \in Int /\ b.y2 \in Int
        /\ Scale \in Int /\ Width \in Int /\ Height \in Int
    BY FoundAssumption, FrameAssumption
  <1> DEFINE Low(a, d) == Greater(0, Scale * Lesser(a, d))
             High(w, a, d) == Lesser(w - 1, Scale * Greater(a, d))
  <1>2. ASSUME NEW a \in Int, NEW d \in Int, NEW w \in Int
        PROVE  /\ Low(a, d) \in Nat
               /\ High(w, a, d) \in Int /\ High(w, a, d) <= w - 1
    <2>1. Lesser(a, d) \in Int /\ Greater(a, d) \in Int
      BY DEF Lesser, Greater
    <2>2. Scale * Lesser(a, d) \in Int /\ Scale * Greater(a, d) \in Int
      BY <1>1, <2>1
    <2> QED
      BY <2>2 DEF Lesser, Greater
  <1>3. /\ Clipped(b).x1 = Low(b.x1, b.x2) /\ Clipped(b).y1 = Low(b.y1, b.y2)
        /\ Clipped(b).x2 = High(Width, b.x1, b.x2) /\ Clipped(b).y2 = High(Height, b.y1, b.y2)
    BY DEF Clipped
  <1> HIDE DEF Low, High
  <1>4. /\ Clipped(b).x1 \in Nat /\ Clipped(b).y1 \in Nat
        /\ Clipped(b).x2 \in Int /\ Clipped(b).x2 <= Width - 1
        /\ Clipped(b).y2 \in Int /\ Clipped(b).y2 <= Height - 1
    <2>1. Low(b.x1, b.x2) \in Nat /\ Low(b.y1, b.y2) \in Nat
      BY <1>1, <1>2
    <2>2. High(Width, b.x1, b.x2) \in Int /\ High(Width, b.x1, b.x2) <= Width - 1
      BY <1>1, <1>2
    <2>3. High(Height, b.y1, b.y2) \in Int /\ High(Height, b.y1, b.y2) <= Height - 1
      BY <1>1, <1>2
    <2> QED
      BY <1>3, <2>1, <2>2, <2>3
  <1>5. Clipped(b) = [x1 |-> Clipped(b).x1, y1 |-> Clipped(b).y1,
                      x2 |-> Clipped(b).x2, y2 |-> Clipped(b).y2]
    BY DEF Clipped
  <1> QED
    BY <1>4, <1>5 DEF ClipBox

\* The arms of a visible box are at most half its sides, its strokes at most its arms.
LEMMA ArmIs ==
    ASSUME NEW c \in ClipBox, Visible(c)
    PROVE  /\ c.x1 \in Nat /\ c.y1 \in Nat /\ c.x2 \in Nat /\ c.y2 \in Nat
           /\ Arm(c) \in Nat /\ Arm(c) >= 1
           /\ 2 * Arm(c) <= c.x2 - c.x1 /\ 2 * Arm(c) <= c.y2 - c.y1
           /\ Thick(c) \in 1 .. Arm(c)
  <1>1. c.x1 \in Nat /\ c.y1 \in Nat /\ c.x2 \in Int /\ c.y2 \in Int
    BY DEF ClipBox
  <1>2. c.x1 <= c.x2 /\ c.y1 <= c.y2 /\ Arm(c) >= 1
    BY DEF Visible
  <1>3. CornerLen \in Nat /\ Thickness \in Nat /\ Thickness >= 1
    BY FrameAssumption
  <1>4. /\ Arm(c) \in Int
        /\ Arm(c) <= (c.x2 - c.x1) \div 2 /\ Arm(c) <= (c.y2 - c.y1) \div 2
    BY <1>1, <1>2, <1>3 DEF Arm, Lesser
  <1>5. 2 * Arm(c) <= c.x2 - c.x1 /\ 2 * Arm(c) <= c.y2 - c.y1
    BY <1>1, <1>2, <1>4
  <1>6. Thick(c) \in 1 .. Arm(c)
    BY <1>2, <1>3, <1>4 DEF Thick, Lesser
  <1> QED
    BY <1>1, <1>2, <1>4, <1>5, <1>6

\* A pixel is in a corner mark: within an arm of a corner, within the stroke of an edge.
LEMMA MarkIs ==
    ASSUME NEW c, NEW x, NEW y
    PROVE  <<x, y>> \in CornerMarks(c) <=>
               LET dx == Lesser(x - c.x1, c.x2 - x)
                   dy == Lesser(y - c.y1, c.y2 - y) IN
               /\ x \in c.x1 .. c.x2 /\ y \in c.y1 .. c.y2
               /\ dx <= Arm(c) /\ dy <= Arm(c)
               /\ dx < Thick(c) \/ dy < Thick(c)
  BY DEF CornerMarks

\* The eight runs that draw_corners() draws at a distance t from the edges.
Strokes(c, t) ==
    LET arm == Arm(c) IN
    LET top == c.y1 + t  bot == c.y2 - t  lft == c.x1 + t  rgt == c.x2 - t IN
    UNION {HRun(top, c.x1, c.x1 + arm), HRun(top, c.x2 - arm, c.x2),
           HRun(bot, c.x1, c.x1 + arm), HRun(bot, c.x2 - arm, c.x2),
           VRun(lft, c.y1, c.y1 + arm), VRun(lft, c.y2 - arm, c.y2),
           VRun(rgt, c.y1, c.y1 + arm), VRun(rgt, c.y2 - arm, c.y2)}

LEMMA StrokesAre ==
    ASSUME NEW c \in ClipBox, Visible(c), NEW t \in 0 .. Thick(c) - 1
    PROVE  /\ Strokes(c, t) \subseteq Int \X Int
           /\ \A x, y \in Int : <<x, y>> \in Strokes(c, t) <=>
                  \/ /\ y = c.y1 + t \/ y = c.y2 - t
                     /\ x \in c.x1 .. c.x1 + Arm(c) \/ x \in c.x2 - Arm(c) .. c.x2
                  \/ /\ x = c.x1 + t \/ x = c.x2 - t
                     /\ y \in c.y1 .. c.y1 + Arm(c) \/ y \in c.y2 - Arm(c) .. c.y2
  <1> DEFINE arm == Arm(c)
             left == c.x1 .. c.x1 + arm
             right == c.x2 - arm .. c.x2
             upper == c.y1 .. c.y1 + arm
             lower == c.y2 - arm .. c.y2
  <1>1. /\ c.x1 \in Nat /\ c.y1 \in Nat /\ c.x2 \in Nat /\ c.y2 \in Nat
        /\ arm \in Nat /\ arm >= 1 /\ 2 * arm <= c.x2 - c.x1 /\ 2 * arm <= c.y2 - c.y1
        /\ Thick(c) \in 1 .. arm
    BY ArmIs
  <1>2. /\ c.x1 + arm \in Nat /\ c.x1 <= c.x1 + arm
        /\ c.x2 - arm \in Nat /\ c.x2 - arm <= c.x2
    BY <1>1
  <1> HIDE DEF arm
  <1>3. \A y : HRun(y, c.x1, c.x1 + arm) = left \X {y} /\ HRun(y, c.x2 - arm, c.x2) = right \X {y}
    BY <1>1, <1>2, HRunIs
  <1> HIDE DEF left, right, upper, lower
  <1>4. Strokes(c, t) =
            UNION {left \X {c.y1 + t}, right \X {c.y1 + t},
                   left \X {c.y2 - t}, right \X {c.y2 - t},
                   {c.x1 + t} \X upper, {c.x1 + t} \X lower,
                   {c.x2 - t} \X upper, {c.x2 - t} \X lower}
    BY <1>3 DEF Strokes, VRun, upper, lower, arm
  <1>5. /\ left \subseteq Int /\ right \subseteq Int /\ upper \subseteq Int /\ lower \subseteq Int
        /\ {c.y1 + t, c.y2 - t, c.x1 + t, c.x2 - t} \subseteq Int
    BY <1>1 DEF left, right, upper, lower
  <1>6. Strokes(c, t) \subseteq Int \X Int
    <2>1. /\ left \X {c.y1 + t} \subseteq Int \X Int /\ right \X {c.y1 + t} \subseteq Int \X Int
          /\ left \X {c.y2 - t} \subseteq Int \X Int /\ right \X {c.y2 - t} \subseteq Int \X Int
          /\ {c.x1 + t} \X upper \subseteq Int \X Int /\ {c.x1 + t} \X lower \subseteq Int \X Int
          /\ {c.x2 - t} \X upper \subseteq Int \X Int /\ {c.x2 - t} \X lower \subseteq Int \X Int
      BY <1>5
    <2> QED
      BY <1>4, <2>1
  <1>7. \A x, y \in Int : <<x, y>> \in Strokes(c, t) <=>
            \/ (y = c.y1 + t \/ y = c.y2 - t) /\ (x \in left \/ x \in right)
            \/ (x = c.x1 + t \/ x = c.x2 - t) /\ (y \in upper \/ y \in lower)
    BY <1>4
  <1> QED
    BY <1>6, <1>7 DEF left, right, upper, lower, arm

\* The runs of draw_corners() are the corner marks of the box, pixel by pixel.
LEMMA CornersAreMarks ==
    ASSUME NEW c \in ClipBox, Visible(c)
    PROVE  Corners(c) = CornerMarks(c)
  <1> DEFINE arm == Arm(c)
             thick == Thick(c)
  <1>1. /\ c.x1 \in Nat /\ c.y1 \in Nat /\ c.x2 \in Nat /\ c.y2 \in Nat
        /\ arm \in Nat /\ 2 * arm <= c.x2 - c.x1 /\ 2 * arm <= c.y2 - c.y1
        /\ thick \in 1 .. arm
    BY ArmIs
  <1>2. Corners(c) = UNION {Strokes(c, t) : t \in 0 .. thick - 1}
    BY DEF Corners, Strokes
  <1>3. Corners(c) \subseteq Int \X Int
    <2>1. \A t \in 0 .. thick - 1 : Strokes(c, t) \subseteq Int \X Int
      BY StrokesAre
    <2> HIDE DEF thick
    <2> QED
      BY <1>2, <2>1
  <1>4. CornerMarks(c) \subseteq Int \X Int
    BY <1>1 DEF CornerMarks
  <1>5. ASSUME NEW x \in Int, NEW y \in Int, NEW t \in 0 .. thick - 1
        PROVE  <<x, y>> \in Strokes(c, t) <=>
                  \/ /\ y = c.y1 + t \/ y = c.y2 - t
                     /\ x \in c.x1 .. c.x1 + arm \/ x \in c.x2 - arm .. c.x2
                  \/ /\ x = c.x1 + t \/ x = c.x2 - t
                     /\ y \in c.y1 .. c.y1 + arm \/ y \in c.y2 - arm .. c.y2
    BY <1>5, StrokesAre
  <1>6. ASSUME NEW x \in Int, NEW y \in Int
        PROVE  <<x, y>> \in CornerMarks(c) <=>
                  /\ x \in c.x1 .. c.x2 /\ y \in c.y1 .. c.y2
                  /\ x - c.x1 <= arm \/ c.x2 - x <= arm
                  /\ y - c.y1 <= arm \/ c.y2 - y <= arm
                  /\ \/ x - c.x1 < thick \/ c.x2 - x < thick
                     \/ y - c.y1 < thick \/ c.y2 - y < thick
    <2>1. \A n \in Int : /\ Lesser(x - c.x1, c.x2 - x) <= n <=> x - c.x1 <= n \/ c.x2 - x <= n
                         /\ Lesser(x - c.x1, c.x2 - x) < n <=> x - c.x1 < n \/ c.x2 - x < n
                         /\ Lesser(y - c.y1, c.y2 - y) <= n <=> y - c.y1 <= n \/ c.y2 - y <= n
                         /\ Lesser(y - c.y1, c.y2 - y) < n <=> y - c.y1 < n \/ c.y2 - y < n
      BY <1>1 DEF Lesser
    <2>2. arm \in Int /\ thick \in Int
      BY <1>1
    <2> QED
      BY <2>1, <2>2, MarkIs
  <1> HIDE DEF arm, thick
  <1>7. ASSUME NEW x \in Int, NEW y \in Int, <<x, y>> \in Corners(c)
        PROVE  <<x, y>> \in CornerMarks(c)
    <2>1. PICK t \in 0 .. thick - 1 : <<x, y>> \in Strokes(c, t)
      BY <1>2, <1>7
    <2> SUFFICES /\ x \in c.x1 .. c.x2 /\ y \in c.y1 .. c.y2
                 /\ x - c.x1 <= arm \/ c.x2 - x <= arm
                 /\ y - c.y1 <= arm \/ c.y2 - y <= arm
                 /\ \/ x - c.x1 < thick \/ c.x2 - x < thick
                    \/ y - c.y1 < thick \/ c.y2 - y < thick
      BY <1>6
    <2>2. /\ t \in Nat /\ t < thick /\ t < arm
      BY <1>1
    <2>3. CASE /\ y = c.y1 + t \/ y = c.y2 - t
               /\ x \in c.x1 .. c.x1 + arm \/ x \in c.x2 - arm .. c.x2
      BY <1>1, <2>2, <2>3
    <2>4. CASE /\ x = c.x1 + t \/ x = c.x2 - t
               /\ y \in c.y1 .. c.y1 + arm \/ y \in c.y2 - arm .. c.y2
      BY <1>1, <2>2, <2>4
    <2> QED
      BY <1>5, <2>1, <2>3, <2>4
  <1>8. ASSUME NEW x \in Int, NEW y \in Int, <<x, y>> \in CornerMarks(c)
        PROVE  <<x, y>> \in Corners(c)
    <2>1. /\ x \in c.x1 .. c.x2 /\ y \in c.y1 .. c.y2
          /\ x - c.x1 <= arm \/ c.x2 - x <= arm
          /\ y - c.y1 <= arm \/ c.y2 - y <= arm
          /\ \/ x - c.x1 < thick \/ c.x2 - x < thick
             \/ y - c.y1 < thick \/ c.y2 - y < thick
      BY <1>6, <1>8
    <2>2. ASSUME NEW t \in 0 .. thick - 1,
                 \/ /\ y = c.y1 + t \/ y = c.y2 - t
                    /\ x \in c.x1 .. c.x1 + arm \/ x \in c.x2 - arm .. c.x2
                 \/ /\ x = c.x1 + t \/ x = c.x2 - t
                    /\ y \in c.y1 .. c.y1 + arm \/ y \in c.y2 - arm .. c.y2
          PROVE  <<x, y>> \in Corners(c)
      <3>1. <<x, y>> \in Strokes(c, t)
        BY <1>5, <2>2
      <3> QED
        BY <1>2, <3>1
    <2>3. x \in c.x1 .. c.x1 + arm \/ x \in c.x2 - arm .. c.x2
      BY <1>1, <2>1
    <2>4. y \in c.y1 .. c.y1 + arm \/ y \in c.y2 - arm .. c.y2
      BY <1>1, <2>1
    <2>5. CASE x - c.x1 < thick
      <3>1. x - c.x1 \in 0 .. thick - 1 /\ x = c.x1 + (x - c.x1)
        BY <1>1, <2>1, <2>5
      <3> QED
        BY <2>2, <2>4, <3>1
    <2>6. CASE c.x2 - x < thick
      <3>1. c.x2 - x \in 0 .. thick - 1 /\ x = c.x2 - (c.x2 - x)
        BY <1>1, <2>1, <2>6
      <3> QED
        BY <2>2, <2>4, <3>1
    <2>7. CASE y - c.y1 < thick
      <3>1. y - c.y1 \in 0 .. thick - 1 /\ y = c.y1 + (y - c.y1)
        BY <1>1, <2>1, <2>7
      <3> QED
        BY <2>2, <2>3, <3>1
    <2>8. CASE c.y2 - y < thick
      <3>1. c.y2 - y \in 0 .. thick - 1 /\ y = c.y2 - (c.y2 - y)
        BY <1>1, <2>1, <2>8
      <3> QED
        BY <2>2, <2>3, <3>1
    <2> QED
      BY <2>1, <2>5, <2>6, <2>7, <2>8
  <1> QED
    BY <1>3, <1>4, <1>7, <1>8

\* A box that draw_corners() returns early for has no marks.
LEMMA NoMarks ==
    ASSUME NEW c \in ClipBox, ~Visible(c)
    PROVE  CornerMarks(c) = {}
  <1> SUFFICES ASSUME NEW p \in CornerMarks(c) PROVE FALSE
    OBVIOUS
  <1>1. c.x1 \in Nat /\ c.y1 \in Nat /\ c.x2 \in Int /\ c.y2 \in Int
    BY DEF ClipBox
  <1>2. PICK x \in c.x1 .. c.x2, y \in c.y1 .. c.y2 : p = <<x, y>>
    BY DEF CornerMarks
  <1>3. LET dx == Lesser(x - c.x1, c.x2 - x)
            dy == Lesser(y - c.y1, c.y2 - y) IN
        dx < Thick(c) \/ dy < Thick(c)
    BY <1>2, MarkIs
  <1>4. c.x1 <= c.x2 /\ c.y1 <= c.y2 /\ x \in Int /\ y \in Int
    BY <1>1, <1>2
  <1>5. Lesser(x - c.x1, c.x2 - x) >= 0 /\ Lesser(y - c.y1, c.y2 - y) >= 0
    BY <1>1, <1>2 DEF Lesser
  <1>6. CornerLen \in Nat /\ Thickness \in Nat
    BY FrameAssumption
  <1>7. Arm(c) \in Int /\ ~(Arm(c) >= 1)
    BY <1>1, <1>4, <1>6 DEF Visible, Arm, Lesser
  <1>8. Thick(c) \in Int /\ Thick(c) <= 0
    BY <1>6, <1>7 DEF Thick, Lesser
  <1>9. Lesser(x - c.x1, c.x2 - x) \in Int /\ Lesser(y - c.y1, c.y2 - y) \in Int
    BY <1>1, <1>4 DEF Lesser
  <1> QED
    BY <1>3, <1>5, <1>8, <1>9

\* The marks of a visible box touch exactly its two bands of rows.
LEMMA MarkedRows ==
    ASSUME NEW c \in ClipBox, Visible(c)
    PROVE  {p[2] : p \in CornerMarks(c)} = (c.y1 .. c.y1 + Arm(c)) \cup (c.y2 - Arm(c) .. c.y2)
  <1> DEFINE arm == Arm(c)
             bands == (c.y1 .. c.y1 + arm) \cup (c.y2 - arm .. c.y2)
  <1>1. /\ c.x1 \in Nat /\ c.y1 \in Nat /\ c.x2 \in Nat /\ c.y2 \in Nat
        /\ arm \in Nat /\ 2 * arm <= c.x2 - c.x1 /\ 2 * arm <= c.y2 - c.y1
        /\ Thick(c) \in 1 .. arm
    BY ArmIs
  <1> HIDE DEF arm
  <1>2. ASSUME NEW p \in CornerMarks(c) PROVE p[2] \in bands
    <2>1. PICK x \in c.x1 .. c.x2, y \in c.y1 .. c.y2 : p = <<x, y>>
      BY DEF CornerMarks
    <2>2. Lesser(y - c.y1, c.y2 - y) <= arm
      BY <2>1, MarkIs DEF arm
    <2>3. y \in bands
      BY <1>1, <2>1, <2>2 DEF Lesser
    <2> QED
      BY <2>1, <2>3
  <1>3. ASSUME NEW y \in bands PROVE \E p \in CornerMarks(c) : p[2] = y
    <2>1. c.x1 \in c.x1 .. c.x2 /\ y \in c.y1 .. c.y2
      BY <1>1
    <2>2. Lesser(c.x1 - c.x1, c.x2 - c.x1) = 0
      BY <1>1 DEF Lesser
    <2>3. Lesser(y - c.y1, c.y2 - y) <= arm
      BY <1>1, <2>1 DEF Lesser
    <2>4. <<c.x1, y>> \in CornerMarks(c)
      BY <1>1, <2>1, <2>2, <2>3, MarkIs DEF arm
    <2> QED
      BY <2>4
  <1> QED
    BY <1>2, <1>3 DEF arm

\* The bands of a visible box add the rows of its marks to the list, in two places at most.
LEMMA BandsAdded ==
    ASSUME NEW d \in Seq(RowRange), Apart(d), Len(d) + 1 < OSD_MAX_DIRTY_RANGES,
           NEW c \in ClipBox, Visible(c)
    PROVE  /\ AddBands(d, c) \in Seq(RowRange) /\ Apart(AddBands(d, c))
           /\ Len(AddBands(d, c)) <= Len(d) + 2
           /\ RowsOf(AddBands(d, c)) = RowsOf(d) \cup {p[2] : p \in CornerMarks(c)}
  <1> DEFINE a == c.y1 + Arm(c)
             b == c.y2 - Arm(c)
             d1 == DirtyAdd(d, c.y1, a)
             d2 == DirtyAdd(d1, b, c.y2)
  <1>1. /\ c.y1 \in Nat /\ c.y2 \in Nat /\ a \in Nat /\ b \in Nat
        /\ c.y1 <= a /\ b <= c.y2
    BY ArmIs
  <1>2. Len(d) \in Nat /\ Len(d) < OSD_MAX_DIRTY_RANGES /\ OSD_MAX_DIRTY_RANGES \in Int
    BY FrameAssumption DEF OSD_MAX_DIRTY_RANGES
  <1> HIDE DEF a, b
  <1>3. d1 \in Seq(RowRange) /\ Apart(d1) /\ Len(d1) <= Len(d) + 1
    BY <1>1, <1>2, DirtyAddMerges
  <1>4. RowsOf(d1) = RowsOf(d) \cup (c.y1 .. a)
    BY <1>1, <1>2, DirtyAddMerges
  <1> HIDE DEF d1
  <1>5. Len(d1) \in Nat /\ Len(d1) < OSD_MAX_DIRTY_RANGES
    BY <1>2, <1>3
  <1>6. d2 \in Seq(RowRange) /\ Apart(d2) /\ Len(d2) <= Len(d1) + 1
    BY <1>1, <1>3, <1>5, DirtyAddMerges
  <1>7. RowsOf(d2) = RowsOf(d1) \cup (b .. c.y2)
    BY <1>1, <1>3, <1>5, DirtyAddMerges
  <1>8. {p[2] : p \in CornerMarks(c)} = (c.y1 .. a) \cup (b .. c.y2)
    BY MarkedRows DEF a, b
  <1>9. AddBands(d, c) = d2
    BY DEF AddBands, d1, a, b
  <1> HIDE DEF d2
  <1>10. Len(d2) <= Len(d) + 2
    <2>1. Len(d2) \in Nat
      BY <1>6
    <2> QED
      BY <1>2, <1>3, <1>5, <1>6, <2>1
  <1> QED
    BY <1>4, <1>6, <1>7, <1>8, <1>9, <1>10

-----------------------------------------------------------------------------
(* The inductive invariant                                                 *)

Typed ==
    /\ box_mutex \in {"none", "free", "detect", "encode"}
    /\ s_boxes \in Seq(Found) /\ Len(s_boxes) <= MaxBox /\ s_box_count \in 0 .. Len(s_boxes)
    /\ results \in Seq(Found \cup {Short}) /\ stored \in 0 .. Len(s_boxes)
    /\ encPc \in {"receive", "copy", "draw", "encode"}
    /\ boxes \in Seq(Found) /\ Len(boxes) <= MaxBox /\ latest \in Seq(Found)
    /\ drawnBoxes \in 0 .. Len(boxes)

\* The copy is made under the mutex, from the array as far as it has come; and the array
\* holds what the last whole inference stored, except while the next one is stored.
Copying ==
    /\ encPc = "copy" <=> box_mutex = "encode"
    /\ encPc = "copy" =>
          /\ Len(boxes) <= s_box_count
          /\ \A k \in 1 .. Len(boxes) : boxes[k] = s_boxes[k]
    /\ box_mutex # "detect" =>
          /\ Len(latest) = s_box_count
          /\ \A k \in 1 .. s_box_count : latest[k] = s_boxes[k]

\* The dirty rows are the rows drawn on, in at most two ranges per box; those are published,
\* as far as the write-back does not fail, and no other.
Drawing ==
    /\ encPc \in {"receive", "copy"} => drawnBoxes = 0
    /\ dirty \in Seq(RowRange) /\ Apart(dirty) /\ Len(dirty) <= 2 * drawnBoxes
    /\ RowsOf(dirty) = DrawnRows
    /\ published \cup unpublished = IF encPc = "encode" THEN RowsOf(dirty) ELSE {}

OverlayInv == Typed /\ Copying /\ DrawnAreCorners /\ Drawing

\* OverlayInv holds at boot.
LEMMA InitOverlay == Init => OverlayInv
  <1> SUFFICES ASSUME Init PROVE OverlayInv
    OBVIOUS
  <1>0. MaxBox \in Nat
    BY FrameAssumption
  <1>1. /\ s_boxes = <<>> /\ results = <<>> /\ boxes = <<>> /\ latest = <<>> /\ dirty = <<>>
        /\ s_box_count = 0 /\ stored = 0 /\ drawnBoxes = 0 /\ drawn = {} /\ published = {}
        /\ unpublished = {}
        /\ box_mutex \in {"none", "free"} /\ encPc = "receive"
    BY DEF Init
  <1>2. Typed
    BY <1>0, <1>1 DEF Typed
  <1>3. Copying
    BY <1>1 DEF Copying
  <1>4. DrawnAreCorners
    BY <1>1 DEF DrawnAreCorners
  <1>5. Drawing
    <2>1. RowsOf(dirty) = {} /\ DrawnRows = {}
      BY <1>1 DEF RowsOf, DrawnRows
    <2>2. dirty \in Seq(RowRange) /\ Apart(dirty) /\ Len(dirty) <= 2 * drawnBoxes
      BY <1>1 DEF Apart
    <2> QED
      BY <1>1, <2>1, <2>2 DEF Drawing
  <1> QED
    BY <1>2, <1>3, <1>4, <1>5 DEF OverlayInv

\* The drawing is undisturbed by a step that leaves it alone.
LEMMA DrawingKept ==
    ASSUME OverlayInv, UNCHANGED <<boxes, frame>>,
           encPc' \in {"receive", "copy"} => drawnBoxes = 0,
           encPc' = "encode" <=> encPc = "encode"
    PROVE  DrawnAreCorners' /\ Drawing'
  <1>1. UNCHANGED <<boxes, drawnBoxes, dirty, drawn, published, unpublished>>
    BY DEF frame
  <1>2. DrawnAreCorners'
    BY <1>1 DEF OverlayInv, DrawnAreCorners
  <1>3. DrawnRows' = DrawnRows
    BY <1>1 DEF DrawnRows
  <1> QED
    BY <1>1, <1>2, <1>3 DEF OverlayInv, Drawing

\* The detect task keeps OverlayInv.
LEMMA DetectKeeps ==
    ASSUME OverlayInv, Detect
    PROVE  OverlayInv'
  <1>0. Typed /\ Copying /\ Drawing
    BY DEF OverlayInv
  <1>1. CASE DetTake
    <2>1. /\ box_mutex = "free" /\ box_mutex' = "detect"
          /\ UNCHANGED <<s_boxes, s_box_count, stored, latest, encPc, boxes, frame>>
      BY <1>1 DEF DetTake
    <2>2. results' \in Seq(Found \cup {Short})
      <3>1. PICK n \in 0 .. MaxBox + 1 : results' \in [1 .. n -> Found \cup {Short}]
        BY <1>1 DEF DetTake
      <3>2. n \in Nat
        BY FrameAssumption
      <3> QED
        BY <3>1, <3>2
    <2>3. Typed'
      BY <1>0, <2>1, <2>2 DEF Typed, frame
    <2>4. Copying'
      BY <1>0, <2>1 DEF Copying
    <2>5. DrawnAreCorners' /\ Drawing'
      BY <1>0, <2>1, DrawingKept DEF Drawing
    <2> QED
      BY <2>3, <2>4, <2>5 DEF OverlayInv
  <1>2. CASE DetStoreBox
    <2>1. /\ box_mutex = "detect" /\ results # <<>> /\ stored < MaxBox
          /\ results' = Tail(results)
          /\ UNCHANGED <<box_mutex, s_box_count, latest, encPc, boxes, frame>>
      BY <1>2 DEF DetStoreBox
    <2>2. results' \in Seq(Found \cup {Short}) /\ Head(results) \in Found \cup {Short}
      BY <1>0, <2>1, HeadTailProperties DEF Typed
    <2>3. /\ s_boxes' \in Seq(Found) /\ Len(s_boxes') <= MaxBox /\ s_box_count' \in 0 .. Len(s_boxes')
          /\ stored' \in 0 .. Len(s_boxes')
      <3>0. /\ s_boxes \in Seq(Found) /\ Len(s_boxes) \in Nat /\ Len(s_boxes) <= MaxBox
            /\ s_box_count \in 0 .. Len(s_boxes) /\ stored \in 0 .. Len(s_boxes) /\ MaxBox \in Nat
        BY <1>0, FrameAssumption DEF Typed
      <3>1. CASE Head(results) = Short
        BY <1>2, <2>1, <3>0, <3>1 DEF DetStoreBox
      <3>2. CASE Head(results) # Short /\ stored < Len(s_boxes)
        <4>1. /\ stored' = stored + 1 /\ s_boxes' = [s_boxes EXCEPT ![stored + 1] = Head(results)]
              /\ Head(results) \in Found
          BY <1>2, <2>2, <3>2 DEF DetStoreBox
        <4>2. s_boxes' \in Seq(Found) /\ Len(s_boxes') = Len(s_boxes)
          BY <3>0, <3>2, <4>1
        <4> QED
          BY <2>1, <3>0, <3>2, <4>1, <4>2
      <3>3. CASE Head(results) # Short /\ ~(stored < Len(s_boxes))
        <4>1. /\ stored' = stored + 1 /\ s_boxes' = Append(s_boxes, Head(results))
              /\ Head(results) \in Found
          BY <1>2, <2>2, <3>3 DEF DetStoreBox
        <4>2. s_boxes' \in Seq(Found) /\ Len(s_boxes') = Len(s_boxes) + 1
          BY <3>0, <4>1, AppendProperties
        <4> QED
          BY <2>1, <3>0, <3>3, <4>1, <4>2
      <3> QED
        BY <3>1, <3>2, <3>3
    <2>4. Typed'
      BY <1>0, <2>1, <2>2, <2>3 DEF Typed, frame
    <2>5. Copying'
      BY <1>0, <2>1 DEF Copying
    <2>6. DrawnAreCorners' /\ Drawing'
      BY <1>0, <2>1, DrawingKept DEF Drawing
    <2> QED
      BY <2>4, <2>5, <2>6 DEF OverlayInv
  <1>3. CASE DetGive
    <2>1. /\ box_mutex = "detect" /\ box_mutex' = "free"
          /\ s_box_count' = stored /\ latest' = SubSeq(s_boxes, 1, stored)
          /\ results' = <<>> /\ stored' = 0
          /\ UNCHANGED <<s_boxes, encPc, boxes, frame>>
      BY <1>3 DEF DetGive
    <2>2. s_boxes \in Seq(Found) /\ Len(s_boxes) \in Nat /\ stored \in 0 .. Len(s_boxes)
      BY <1>0 DEF Typed
    <2>3. /\ latest' \in Seq(Found) /\ Len(latest') = stored
          /\ \A k \in 1 .. stored : latest'[k] = s_boxes[k]
      <3>1. \A k \in 1 .. stored : s_boxes[k] \in Found
        BY <2>2
      <3>2. stored \in Int /\ stored - 1 + 1 = stored /\ \A k \in 1 .. stored : 1 + k - 1 = k
        BY <2>2
      <3>3. /\ SubSeq(s_boxes, 1, stored) \in Seq(Found)
            /\ Len(SubSeq(s_boxes, 1, stored)) = IF 1 <= stored THEN stored - 1 + 1 ELSE 0
            /\ \A k \in 1 .. stored - 1 + 1 : SubSeq(s_boxes, 1, stored)[k] = s_boxes[1 + k - 1]
        BY <3>1, <3>2, SubSeqProperties
      <3> QED
        BY <2>1, <2>2, <3>2, <3>3
    <2>4. Typed'
      BY <1>0, <2>1, <2>2, <2>3 DEF Typed, frame
    <2>5. Copying'
      BY <1>0, <2>1, <2>3 DEF Copying
    <2>6. DrawnAreCorners' /\ Drawing'
      BY <1>0, <2>1, DrawingKept DEF Drawing
    <2> QED
      BY <2>4, <2>5, <2>6 DEF OverlayInv
  <1> QED
    BY <1>1, <1>2, <1>3 DEF Detect

\* The draw step keeps the list and the marks in step, for a visible box and for one that
\* draw_corners() returns early for.
LEMMA DrawKeeps ==
    ASSUME OverlayInv, EncDraw
    PROVE  OverlayInv'
  <1> DEFINE c == Clipped(boxes[drawnBoxes + 1])
  <1>0. Typed /\ Copying /\ DrawnAreCorners /\ Drawing
    BY DEF OverlayInv
  <1>1. /\ encPc = "draw" /\ drawnBoxes < Len(boxes) /\ drawnBoxes' = drawnBoxes + 1
        /\ IF Visible(c)
           THEN drawn' = drawn \cup Corners(c) /\ dirty' = AddBands(dirty, c)
           ELSE UNCHANGED <<drawn, dirty>>
        /\ UNCHANGED <<box_mutex, s_boxes, s_box_count, results, stored, latest>>
        /\ UNCHANGED <<encPc, boxes, published, unpublished>>
    BY DEF EncDraw, store, detect
  <1>2. /\ boxes \in Seq(Found) /\ Len(boxes) \in Nat /\ Len(boxes) <= MaxBox
        /\ drawnBoxes \in Nat /\ MaxBox \in Nat
    BY <1>0, FrameAssumption DEF Typed
  <1>3. c \in ClipBox
    <2>1. boxes[drawnBoxes + 1] \in Found
      BY <1>1, <1>2
    <2> QED
      BY <2>1, ClippedIs
  <1> DEFINE Done(n) == {Clipped(boxes[k]) : k \in 1 .. n}
  <1>4. Done(drawnBoxes + 1) = Done(drawnBoxes) \cup {c}
    <2>1. \A k \in 1 .. drawnBoxes + 1 : k \in 1 .. drawnBoxes \/ k = drawnBoxes + 1
      BY <1>2
    <2>2. 1 .. drawnBoxes \subseteq 1 .. drawnBoxes + 1 /\ drawnBoxes + 1 \in 1 .. drawnBoxes + 1
      BY <1>2
    <2> QED
      BY <2>1, <2>2
  <1>5. drawn = UNION {CornerMarks(e) : e \in Done(drawnBoxes)}
    BY <1>0 DEF DrawnAreCorners
  <1> HIDE DEF c
  <1>6. Typed'
    BY <1>0, <1>1, <1>2 DEF Typed
  <1>7. Copying'
    BY <1>0, <1>1 DEF Copying
  <1>8. drawn' = drawn \cup CornerMarks(c)
    BY <1>1, <1>3, CornersAreMarks, NoMarks
  <1>9. DrawnAreCorners'
    <2>1. drawn' = UNION {CornerMarks(e) : e \in Done(drawnBoxes + 1)}
      <3> HIDE DEF Done
      <3> QED
        BY <1>4, <1>5, <1>8
    <2> QED
      BY <1>1, <2>1 DEF DrawnAreCorners
  <1>10. DrawnRows' = DrawnRows \cup {p[2] : p \in CornerMarks(c)}
    BY <1>8 DEF DrawnRows
  <1>11. /\ dirty' \in Seq(RowRange) /\ Apart(dirty')
         /\ Len(dirty') <= Len(dirty) + 2
         /\ RowsOf(dirty') = RowsOf(dirty) \cup {p[2] : p \in CornerMarks(c)}
    <2>1. dirty \in Seq(RowRange) /\ Apart(dirty) /\ Len(dirty) \in Nat /\ Len(dirty) <= 2 * drawnBoxes
      BY <1>0 DEF Drawing
    <2>2. CASE Visible(c)
      <3>1. Len(dirty) + 1 < OSD_MAX_DIRTY_RANGES
        BY <1>1, <1>2, <2>1 DEF OSD_MAX_DIRTY_RANGES
      <3>2. dirty' = AddBands(dirty, c)
        BY <1>1, <2>2
      <3> QED
        BY <1>3, <2>1, <2>2, <3>1, <3>2, BandsAdded
    <2>3. CASE ~Visible(c)
      <3>1. dirty' = dirty /\ CornerMarks(c) = {}
        BY <1>1, <1>3, <2>3, NoMarks
      <3>2. {p[2] : p \in CornerMarks(c)} = {}
        BY <3>1
      <3>3. Len(dirty) <= Len(dirty) + 2
        BY <2>1
      <3> QED
        BY <2>1, <3>1, <3>2, <3>3
    <2> QED
      BY <2>2, <2>3
  <1>12. Drawing'
    <2>1. RowsOf(dirty)' = DrawnRows'
      BY <1>0, <1>10, <1>11 DEF Drawing
    <2>2. Len(dirty') \in Nat /\ Len(dirty') <= 2 * drawnBoxes'
      BY <1>0, <1>1, <1>2, <1>11 DEF Drawing
    <2>3. encPc' = "draw" /\ published' = {} /\ unpublished' = {}
      BY <1>0, <1>1 DEF Drawing
    <2> QED
      BY <1>11, <2>1, <2>2, <2>3 DEF Drawing
  <1> QED
    BY <1>6, <1>7, <1>9, <1>12 DEF OverlayInv

\* The rows published are the rows of the list: none is off the frame.
LEMMA AllPublished ==
    ASSUME OverlayInv
    PROVE  /\ DrawnRows \subseteq 0 .. Height - 1
           /\ \A k \in 1 .. Len(dirty) : /\ dirty[k].first \in 0 .. Height - 1
                                         /\ dirty[k].last \in 0 .. Height - 1
           /\ FrameRows(ToSet(dirty)) = RowsOf(dirty)
  <1>0. Typed /\ DrawnAreCorners /\ Drawing /\ Height \in Nat
    BY FrameAssumption DEF OverlayInv
  <1>1. DrawnRows \subseteq 0 .. Height - 1
    <2> SUFFICES ASSUME NEW p \in drawn PROVE p[2] \in 0 .. Height - 1
      BY DEF DrawnRows
    <2>1. PICK k \in 1 .. drawnBoxes : p \in CornerMarks(Clipped(boxes[k]))
      BY <1>0 DEF DrawnAreCorners
    <2>2. boxes[k] \in Found
      BY <1>0, <2>1 DEF Typed
    <2> DEFINE c == Clipped(boxes[k])
    <2>3. c.y1 \in Nat /\ c.y2 \in Int /\ c.y2 <= Height - 1
      BY <2>2, ClippedIs DEF ClipBox
    <2> HIDE DEF c
    <2>4. p[2] \in c.y1 .. c.y2
      BY <2>1 DEF CornerMarks, c
    <2> QED
      BY <1>0, <2>3, <2>4
  <1>2. RowsOf(dirty) \subseteq 0 .. Height - 1
    BY <1>0, <1>1 DEF Drawing
  <1>3. ASSUME NEW k \in 1 .. Len(dirty)
        PROVE  /\ dirty[k].first \in 0 .. Height - 1 /\ dirty[k].last \in 0 .. Height - 1
               /\ Greater(0, dirty[k].first) .. Lesser(Height - 1, dirty[k].last)
                      = dirty[k].first .. dirty[k].last
    <2>1. dirty[k] \in RowRange /\ dirty[k].first <= dirty[k].last
      BY <1>0 DEF Drawing, Apart
    <2>2. dirty[k].first \in Nat /\ dirty[k].last \in Nat
      BY <2>1 DEF RowRange
    <2>3. dirty[k].first \in RowsOf(dirty) /\ dirty[k].last \in RowsOf(dirty)
      BY <2>1, <2>2 DEF RowsOf
    <2>4. dirty[k].first \in 0 .. Height - 1 /\ dirty[k].last \in 0 .. Height - 1
      BY <1>2, <2>3
    <2> QED
      BY <1>0, <2>2, <2>4 DEF Greater, Lesser
  <1>4. ToSet(dirty) = {dirty[k] : k \in 1 .. Len(dirty)}
    BY <1>0 DEF ToSet, Drawing
  <1>5. UNION {Greater(0, r.first) .. Lesser(Height - 1, r.last) : r \in ToSet(dirty)}
            = UNION {dirty[k].first .. dirty[k].last : k \in 1 .. Len(dirty)}
    <2> DEFINE Shown(r) == Greater(0, r.first) .. Lesser(Height - 1, r.last)
    <2>1. \A k \in 1 .. Len(dirty) : Shown(dirty[k]) = dirty[k].first .. dirty[k].last
      BY <1>3
    <2> HIDE DEF Shown
    <2>2. {Shown(r) : r \in ToSet(dirty)} = {Shown(dirty[k]) : k \in 1 .. Len(dirty)}
      BY <1>4
    <2>3. {Shown(dirty[k]) : k \in 1 .. Len(dirty)}
              = {dirty[k].first .. dirty[k].last : k \in 1 .. Len(dirty)}
      BY <2>1
    <2>4. UNION {Shown(r) : r \in ToSet(dirty)}
              = UNION {dirty[k].first .. dirty[k].last : k \in 1 .. Len(dirty)}
      BY <2>2, <2>3
    <2> QED
      BY <2>4 DEF Shown
  <1> QED
    BY <1>1, <1>3, <1>5 DEF RowsOf, FrameRows

\* The encode task keeps OverlayInv.
LEMMA EncodeKeeps ==
    ASSUME OverlayInv, Encode
    PROVE  OverlayInv'
  <1>0. Typed /\ Copying /\ DrawnAreCorners /\ Drawing
    BY DEF OverlayInv
  <1> DEFINE Fresh == /\ drawnBoxes' = 0 /\ dirty' = <<>> /\ drawn' = {} /\ published' = {}
                      /\ unpublished' = {}
                      /\ encPc' # "encode"
  <1>1. ASSUME Fresh PROVE DrawnAreCorners' /\ Drawing'
    <2>1. DrawnAreCorners'
      BY <1>1 DEF DrawnAreCorners
    <2>2. RowsOf(dirty') = {} /\ DrawnRows' = {}
      BY <1>1 DEF RowsOf, DrawnRows
    <2>3. dirty' \in Seq(RowRange) /\ Apart(dirty') /\ Len(dirty') <= 2 * drawnBoxes'
      BY <1>1 DEF Apart
    <2> QED
      BY <1>1, <2>1, <2>2, <2>3 DEF Drawing
  <1>2. ASSUME encPc \in {"receive", "copy"}
        PROVE  /\ drawnBoxes = 0 /\ dirty = <<>> /\ drawn = {}
               /\ published = {} /\ unpublished = {}
    <2>1. drawnBoxes = 0 /\ published = {} /\ unpublished = {}
      BY <1>0, <1>2 DEF Drawing
    <2>2. dirty \in Seq(RowRange) /\ Len(dirty) = 0
      BY <1>0, <2>1 DEF Drawing
    <2>3. drawn = {}
      BY <1>0, <2>1 DEF DrawnAreCorners
    <2> QED
      BY <2>1, <2>2, <2>3
  <1>3. CASE EncTakeBoxes
    <2>1. /\ encPc = "receive" /\ boxes' = <<>>
          /\ \/ box_mutex = "none" /\ encPc' = "draw" /\ box_mutex' = box_mutex
             \/ box_mutex = "free" /\ encPc' = "copy" /\ box_mutex' = "encode"
          /\ UNCHANGED <<s_boxes, s_box_count, results, stored, latest>>
          /\ UNCHANGED <<drawnBoxes, dirty, drawn, published, unpublished>>
      BY <1>3 DEF EncTakeBoxes, detect, frame
    <2>2. Fresh
      BY <1>2, <2>1
    <2> HIDE DEF Fresh
    <2>3. drawnBoxes' = 0
      BY <2>2 DEF Fresh
    <2>4. Typed'
      BY <1>0, <2>1, <2>3, FrameAssumption DEF Typed
    <2>5. Copying'
      BY <1>0, <2>1 DEF Copying, Typed
    <2> QED
      BY <1>1, <2>2, <2>4, <2>5 DEF OverlayInv
  <1>4. CASE EncCopyBox
    <2>1. /\ encPc = "copy" /\ Len(boxes) < s_box_count
          /\ boxes' = Append(boxes, s_boxes[Len(boxes) + 1])
          /\ UNCHANGED <<box_mutex, s_boxes, s_box_count, results, stored, latest, encPc>>
          /\ UNCHANGED <<drawnBoxes, dirty, drawn, published, unpublished>>
      BY <1>4 DEF EncCopyBox, store, detect, frame
    <2>2. Fresh
      BY <1>2, <2>1
    <2> HIDE DEF Fresh
    <2>3. /\ boxes \in Seq(Found) /\ s_boxes \in Seq(Found) /\ Len(boxes) \in Nat
          /\ Len(s_boxes) \in Nat /\ Len(s_boxes) <= MaxBox /\ MaxBox \in Nat
          /\ s_box_count \in 0 .. Len(s_boxes)
      BY <1>0, FrameAssumption DEF Typed
    <2>4. s_boxes[Len(boxes) + 1] \in Found
      BY <2>1, <2>3
    <2>5. /\ boxes' \in Seq(Found) /\ Len(boxes') = Len(boxes) + 1
          /\ \A k \in 1 .. Len(boxes) : boxes'[k] = boxes[k]
          /\ boxes'[Len(boxes) + 1] = s_boxes[Len(boxes) + 1]
      BY <2>1, <2>3, <2>4, AppendProperties
    <2>6. Typed'
      <3>1. Len(boxes') <= MaxBox /\ drawnBoxes' \in 0 .. Len(boxes')
        BY <2>1, <2>2, <2>3, <2>5 DEF Fresh
      <3> QED
        BY <1>0, <2>1, <2>5, <3>1 DEF Typed
    <2>7. Copying'
      <3>1. \A k \in 1 .. Len(boxes') : k \in 1 .. Len(boxes) \/ k = Len(boxes) + 1
        BY <2>3, <2>5
      <3>2. Len(boxes') <= s_box_count' /\ \A k \in 1 .. Len(boxes') : boxes'[k] = s_boxes'[k]
        BY <1>0, <2>1, <2>3, <2>5, <3>1 DEF Copying
      <3> QED
        BY <1>0, <2>1, <3>2 DEF Copying
    <2> QED
      BY <1>1, <2>2, <2>6, <2>7 DEF OverlayInv
  <1>5. CASE EncGiveBoxes
    <2>1. /\ encPc = "copy" /\ encPc' = "draw"
          /\ box_mutex' = IF box_mutex = "encode" THEN "free" ELSE box_mutex
          /\ UNCHANGED <<s_boxes, s_box_count, results, stored, latest, boxes, frame>>
      BY <1>5 DEF EncGiveBoxes, detect
    <2>2. Typed'
      BY <1>0, <2>1 DEF Typed, frame
    <2>3. Copying'
      BY <1>0, <2>1 DEF Copying, Typed
    <2>4. DrawnAreCorners' /\ Drawing'
      BY <2>1, DrawingKept
    <2> QED
      BY <2>2, <2>3, <2>4 DEF OverlayInv
  <1>6. CASE EncDraw
    BY <1>6, DrawKeeps
  <1>7. CASE EncPublish
    <2>1. /\ encPc = "draw" /\ encPc' = "encode"
          /\ \E failed \in SUBSET ToSet(dirty) :
                /\ published' = FrameRows(ToSet(dirty) \ failed)
                /\ unpublished' = FrameRows(failed)
          /\ UNCHANGED <<box_mutex, s_boxes, s_box_count, results, stored, latest>>
          /\ UNCHANGED <<boxes, drawnBoxes, dirty, drawn>>
      BY <1>7 DEF EncPublish, store, detect
    <2>2. Typed'
      BY <1>0, <2>1 DEF Typed
    <2>3. Copying'
      BY <1>0, <2>1 DEF Copying
    <2>4. DrawnAreCorners'
      BY <1>0, <2>1 DEF DrawnAreCorners
    <2>5. published' \cup unpublished' = RowsOf(dirty)
      <3>1. published' \cup unpublished' = FrameRows(ToSet(dirty))
        BY <2>1 DEF FrameRows
      <3> QED
        BY <3>1, AllPublished
    <2>6. DrawnRows' = DrawnRows
      BY <2>1 DEF DrawnRows
    <2>7. Drawing'
      BY <1>0, <2>1, <2>5, <2>6 DEF Drawing
    <2> QED
      BY <2>2, <2>3, <2>4, <2>7 DEF OverlayInv
  <1>8. CASE EncNextFrame
    <2>1. /\ encPc = "encode" /\ encPc' = "receive" /\ boxes' = <<>>
          /\ UNCHANGED <<box_mutex, s_boxes, s_box_count, results, stored, latest>>
      BY <1>8 DEF EncNextFrame, store, detect
    <2>2. Fresh
      BY <1>8 DEF EncNextFrame
    <2> HIDE DEF Fresh
    <2>3. drawnBoxes' = 0
      BY <2>2 DEF Fresh
    <2>4. Typed'
      BY <1>0, <2>1, <2>3, FrameAssumption DEF Typed
    <2>5. Copying'
      BY <1>0, <2>1 DEF Copying
    <2> QED
      BY <1>1, <2>2, <2>4, <2>5 DEF OverlayInv
  <1> QED
    BY <1>3, <1>4, <1>5, <1>6, <1>7, <1>8 DEF Encode

-----------------------------------------------------------------------------
(* The theorems                                                            *)

\* OverlayInv is an invariant of the two tasks.
THEOREM OverlayInvariant == Spec => []OverlayInv
  <1>1. OverlayInv /\ [Next]_vars => OverlayInv'
    <2> SUFFICES ASSUME OverlayInv, [Next]_vars PROVE OverlayInv'
      OBVIOUS
    <2>1. CASE Detect
      BY <2>1, DetectKeeps
    <2>2. CASE Encode
      BY <2>2, EncodeKeeps
    <2>3. CASE UNCHANGED vars
      <3>1. UNCHANGED <<box_mutex, s_boxes, s_box_count, results, stored, latest, encPc, boxes, frame>>
        BY <2>3 DEF vars, store, detect
      <3>2. Typed' /\ Copying'
        BY <3>1 DEF OverlayInv, Typed, Copying, frame
      <3>3. DrawnAreCorners' /\ Drawing'
        BY <3>1, DrawingKept DEF OverlayInv, Drawing
      <3> QED
        BY <3>2, <3>3 DEF OverlayInv
    <2> QED
      BY <2>1, <2>2, <2>3 DEF Next
  <1> QED
    BY InitOverlay, <1>1, PTL DEF Spec

\* Types, and with them that nothing is drawn or published off the frame, whatever boxes
\* the network finds.
THEOREM OverlayTypes == Spec => []TypeOK
  <1>1. OverlayInv => TypeOK
    <2> SUFFICES ASSUME OverlayInv PROVE TypeOK
      OBVIOUS
    <2>0. Typed /\ DrawnAreCorners /\ Drawing
      BY DEF OverlayInv
    <2>1. drawn \subseteq Pixels
      <3> SUFFICES ASSUME NEW p \in drawn PROVE p \in Pixels
        OBVIOUS
      <3>1. PICK k \in 1 .. drawnBoxes : p \in CornerMarks(Clipped(boxes[k]))
        BY <2>0 DEF DrawnAreCorners
      <3>2. boxes[k] \in Found
        BY <2>0, <3>1 DEF Typed
      <3> DEFINE c == Clipped(boxes[k])
      <3>3. /\ c.x1 \in Nat /\ c.x2 \in Int /\ c.x2 <= Width - 1
            /\ c.y1 \in Nat /\ c.y2 \in Int /\ c.y2 <= Height - 1
        BY <3>2, ClippedIs DEF ClipBox
      <3> HIDE DEF c
      <3>4. p \in (c.x1 .. c.x2) \X (c.y1 .. c.y2)
        BY <3>1 DEF CornerMarks, c
      <3>5. Width \in Nat /\ Height \in Nat
        BY FrameAssumption
      <3>6. c.x1 .. c.x2 \subseteq 0 .. Width - 1 /\ c.y1 .. c.y2 \subseteq 0 .. Height - 1
        BY <3>3, <3>5
      <3> QED
        BY <3>4, <3>6 DEF Pixels
    <2>2. published \subseteq 0 .. Height - 1 /\ unpublished \subseteq 0 .. Height - 1
      BY <2>0, AllPublished DEF Drawing
    <2>3. dirty \in Seq([first : 0 .. Height - 1, last : 0 .. Height - 1])
      <3>1. dirty \in Seq(RowRange)
        BY <2>0 DEF Drawing
      <3>2. \A k \in 1 .. Len(dirty) : dirty[k] \in [first : 0 .. Height - 1, last : 0 .. Height - 1]
        <4> SUFFICES ASSUME NEW k \in 1 .. Len(dirty)
                     PROVE  dirty[k] \in [first : 0 .. Height - 1, last : 0 .. Height - 1]
          OBVIOUS
        <4>1. dirty[k] \in RowRange
          BY <3>1
        <4>2. dirty[k].first \in 0 .. Height - 1 /\ dirty[k].last \in 0 .. Height - 1
          BY AllPublished
        <4> QED
          BY <4>1, <4>2 DEF RowRange
      <3> DEFINE S == [first : 0 .. Height - 1, last : 0 .. Height - 1]
      <3> HIDE DEF S
      <3>3. Len(dirty) \in Nat /\ dirty \in [1 .. Len(dirty) -> S]
        BY <3>1, <3>2 DEF S
      <3>4. dirty \in Seq(S)
        BY <3>3, SeqDef
      <3> QED
        BY <3>4 DEF S
    <2>4. stored \in 0 .. MaxBox
      BY <2>0, FrameAssumption DEF Typed
    <2> QED
      BY <2>0, <2>1, <2>2, <2>3, <2>4 DEF Typed, TypeOK
  <1> QED
    BY <1>1, OverlayInvariant, PTL

\* The copy that the encode task draws is all of one inference and none of the next.
THEOREM OneInference == Spec => []BoxesOfOneInference
  <1>1. OverlayInv => BoxesOfOneInference
    <2> SUFFICES ASSUME OverlayInv, encPc = "copy", Len(boxes) >= s_box_count
                 PROVE  boxes = latest
      BY DEF BoxesOfOneInference
    <2>1. /\ boxes \in Seq(Found) /\ latest \in Seq(Found) /\ Len(boxes) \in Nat
          /\ s_box_count \in Nat
      BY DEF OverlayInv, Typed
    <2>2. /\ Len(boxes) <= s_box_count /\ Len(latest) = s_box_count
          /\ \A k \in 1 .. Len(boxes) : boxes[k] = s_boxes[k]
          /\ \A k \in 1 .. s_box_count : latest[k] = s_boxes[k]
      BY DEF OverlayInv, Copying
    <2>3. Len(boxes) = Len(latest)
      BY <2>1, <2>2
    <2>4. \A k \in 1 .. Len(boxes) : boxes[k] = latest[k]
      BY <2>2, <2>3
    <2> QED
      BY <2>1, <2>3, <2>4, SeqEqual
  <1> QED
    BY <1>1, OverlayInvariant, PTL

\* The list of dirty rows is sorted, its ranges apart, and never full.
THEOREM DirtyList == Spec => []DirtyMergedAndSorted
  <1>1. OverlayInv => DirtyMergedAndSorted
    <2> SUFFICES ASSUME OverlayInv PROVE DirtyMergedAndSorted
      OBVIOUS
    <2>1. /\ dirty \in Seq(RowRange) /\ Apart(dirty) /\ Len(dirty) <= 2 * drawnBoxes
          /\ drawnBoxes \in 0 .. Len(boxes) /\ Len(boxes) <= MaxBox /\ boxes \in Seq(Found)
      BY DEF OverlayInv, Typed, Drawing
    <2>2. Len(dirty) <= OSD_MAX_DIRTY_RANGES
      BY <2>1, FrameAssumption DEF OSD_MAX_DIRTY_RANGES
    <2>3. DOMAIN dirty = 1 .. Len(dirty) /\ Len(dirty) \in Nat
      BY <2>1
    <2>4. ASSUME NEW k \in 1 .. Len(dirty) - 1 PROVE dirty[k].last + 1 < dirty[k + 1].first
      <3>1. k \in 1 .. Len(dirty) /\ k + 1 \in 1 .. Len(dirty) /\ k < k + 1
        BY <2>3
      <3> QED
        BY <2>1, <3>1 DEF Apart
    <2> QED
      BY <2>1, <2>2, <2>3, <2>4 DEF DirtyMergedAndSorted, Apart
  <1> QED
    BY <1>1, OverlayInvariant, PTL

\* Every row drawn on is published before the encoder reads the frame, or its own write-back
\* has failed...
THEOREM NothingStale == Spec => []NoStaleRow
  <1>1. OverlayInv => NoStaleRow
    BY DEF OverlayInv, Drawing, NoStaleRow
  <1> QED
    BY <1>1, OverlayInvariant, PTL

\* ...and no other row is.
THEOREM NothingElse == Spec => []OnlyDrawnRows
  <1>1. OverlayInv => OnlyDrawnRows
    BY DEF OverlayInv, Drawing, OnlyDrawnRows
  <1> QED
    BY <1>1, OverlayInvariant, PTL

\* What is drawn is the corner marks of the boxes, pixel by pixel.
THEOREM MarksDrawn == Spec => []DrawnAreCorners
  <1>1. OverlayInv => DrawnAreCorners
    BY DEF OverlayInv
  <1> QED
    BY <1>1, OverlayInvariant, PTL
=============================================================================
