-------------------------- MODULE LossList_proofs --------------------------
(***************************************************************************)
(* For a ring of any size, the comparisons and lengths of SequenceNumber   *)
(* agree with true distances; and for a window of any size, LossList does  *)
(* what the same calls would do to a set.                                  *)
(***************************************************************************)
EXTENDS MCLossList, WellFoundedInduction, SequenceTheorems, FiniteSetTheorems, TLAPS
-----------------------------------------------------------------------------
(***************************************************************************)
(* SequenceNumber                                                          *)
(***************************************************************************)

\* operator++ goes once around the ring, one number at a time
LEMMA IncIsNext ==
  ASSUME NEW x \in SeqNum
  PROVE  Inc(x) = IF x = MAX THEN 0 ELSE x + 1
<1>1. MAX \in Nat /\ MAX > 0
  BY SequenceNumberAssumption
<1>2. CASE x = MAX
  <2>1. (x + 1) % (MAX + 1) = 0
    BY <1>1, <1>2
  <2> QED BY <2>1, <1>2 DEF Inc
<1>3. CASE x # MAX
  <2>1. x + 1 \in 0 .. MAX
    BY <1>1, <1>3 DEF SeqNum
  <2>2. (x + 1) % (MAX + 1) = x + 1
    BY <1>1, <2>1
  <2> QED BY <2>2, <1>3 DEF Inc
<1> QED BY <1>2, <1>3

\* operator+= moves along the ring, past the wrap at most once
LEMMA PlusOnRing ==
  ASSUME NEW x \in SeqNum, NEW dist \in 0 .. THRESHOLD
  PROVE  /\ Plus(x, dist) \in SeqNum
         /\ Plus(x, dist) = x + dist \/ Plus(x, dist) = x + dist - (MAX + 1)
BY SequenceNumberAssumption DEF Plus, SeqNum

\* The numbers begin where they began
LEMMA BaseOnRing == ListSpec => [](base \in SeqNum)
<1>1. ListInit => base \in SeqNum
  BY HistoryAssumption DEF ListInit
<1>2. base \in SeqNum /\ [ListNext]_listVars => (base \in SeqNum)'
  BY DEF ListNext, listVars
<1> QED BY <1>1, <1>2, PTL DEF ListSpec

(***************************************************************************)
(* On a ring of any size the comparisons order two numbers less than       *)
(* THRESHOLD apart by distance, on either side of the wrap                 *)
(* (the comparison operators of SequenceNumber.h).                         *)
(***************************************************************************)
THEOREM OrderTheorem == ListSpec => []OrderIsDistance
<1>1. base \in SeqNum => OrderIsDistance
  <2> SUFFICES ASSUME base \in SeqNum, NEW dist \in 0 .. THRESHOLD - 1,
                      NEW seq, seq = Plus(base, dist)
               PROVE  /\ Leq(base, seq) /\ Geq(seq, base)
                      /\ ~Gt(base, seq) /\ ~Lt(seq, base)
                      /\ Lt(base, seq) <=> dist > 0
                      /\ Gt(seq, base) <=> dist > 0
                      /\ Leq(seq, base) <=> dist = 0
                      /\ Geq(base, seq) <=> dist = 0
    BY DEF OrderIsDistance
  <2>1. seq \in SeqNum /\ (seq = base + dist \/ seq = base + dist - (MAX + 1))
    BY SequenceNumberAssumption, PlusOnRing
  <2> QED BY <2>1, SequenceNumberAssumption DEF SeqNum, Lt, Gt, Leq, Geq, Near
<1> QED BY <1>1, BaseOnRing, PTL

(***************************************************************************)
(* seqlen and seqoff return the distance, with and without its ends, and   *)
(* ++ and -- change it by one (SequenceNumber.h).                          *)
(***************************************************************************)
THEOREM LengthTheorem == ListSpec => []LengthIsDistance
<1>1. base \in SeqNum => LengthIsDistance
  <2> SUFFICES ASSUME base \in SeqNum, NEW dist \in 0 .. THRESHOLD - 1,
                      NEW seq, seq = Plus(base, dist)
               PROVE  /\ Seqlen(base, seq) = dist + 1
                      /\ Seqoff(base, seq) = dist /\ Seqoff(seq, base) = -dist
                      /\ Inc(seq) = Plus(base, dist + 1) /\ Dec(Inc(seq)) = seq
    BY DEF LengthIsDistance
  <2>1. seq \in SeqNum /\ (seq = base + dist \/ seq = base + dist - (MAX + 1))
    BY SequenceNumberAssumption, PlusOnRing
  <2>2. Seqlen(base, seq) = dist + 1 /\ Seqoff(base, seq) = dist /\ Seqoff(seq, base) = -dist
    BY <2>1, SequenceNumberAssumption DEF SeqNum, Seqlen, Seqoff, Near
  <2>3. Inc(seq) = IF seq = MAX THEN 0 ELSE seq + 1
    BY <2>1, IncIsNext
  <2>4. Inc(seq) = Plus(base, dist + 1) /\ Dec(Inc(seq)) = seq
    BY <2>1, <2>3, SequenceNumberAssumption DEF SeqNum, Plus, Dec
  <2> QED BY <2>2, <2>4
<1> QED BY <1>1, BaseOnRing, PTL

-----------------------------------------------------------------------------
(***************************************************************************)
(* LossList: its ranges in order stand for a set                           *)
(***************************************************************************)

\* A range of the loss list
OneRange == [first : SeqNum, second : SeqNum]

\* The ranges are in order and apart, none wraps, and length counts their members
SortedList(l) ==
    /\ l.ranges \in Seq(OneRange)
    /\ \A i \in 1 .. Len(l.ranges) :
        /\ l.ranges[i].first <= l.ranges[i].second
        /\ l.ranges[i].second - l.ranges[i].first < THRESHOLD
    /\ \A i, j \in 1 .. Len(l.ranges) : i < j => l.ranges[i].second < l.ranges[j].first
    /\ l.length = Cardinality(Members(l))

\* For a range that does not wrap, the code's test is the order of the integers
LEMMA WithinIsBetween ==
  ASSUME NEW r \in OneRange, r.first <= r.second, r.second - r.first < THRESHOLD,
         NEW seq \in SeqNum
  PROVE  Within(r, seq) <=> r.first <= seq /\ seq <= r.second
BY SequenceNumberAssumption DEF OneRange, SeqNum, Within, Leq, Near

\* Ranges are typed
LEMMA RangeTypes ==
  ASSUME NEW l, l.ranges \in Seq(OneRange)
  PROVE  /\ Len(l.ranges) \in Nat
         /\ \A i \in 1 .. Len(l.ranges) : l.ranges[i] \in OneRange
         /\ \A i \in 1 .. Len(l.ranges) : l.ranges[i].first \in SeqNum /\ l.ranges[i].second \in SeqNum
<1>1. Len(l.ranges) \in Nat
  BY LenProperties
<1>2. ASSUME NEW i \in 1 .. Len(l.ranges) PROVE l.ranges[i] \in OneRange
  BY ElementOfSeq
<1> QED BY <1>1, <1>2 DEF OneRange

\* The members of a list in order lie between the ends of its ranges
LEMMA MembersOfSorted ==
  ASSUME NEW l, l.ranges \in Seq(OneRange),
         \A i \in 1 .. Len(l.ranges) :
            /\ l.ranges[i].first <= l.ranges[i].second
            /\ l.ranges[i].second - l.ranges[i].first < THRESHOLD
  PROVE  /\ Members(l) = {seq \in SeqNum : \E i \in 1 .. Len(l.ranges) :
                            l.ranges[i].first <= seq /\ seq <= l.ranges[i].second}
         /\ \A i \in 1 .. Len(l.ranges), seq \in SeqNum :
                Within(l.ranges[i], seq) <=> l.ranges[i].first <= seq /\ seq <= l.ranges[i].second
<1>1. ASSUME NEW i \in 1 .. Len(l.ranges), NEW seq \in SeqNum
      PROVE  Within(l.ranges[i], seq) <=> l.ranges[i].first <= seq /\ seq <= l.ranges[i].second
  BY RangeTypes, WithinIsBetween
<1> QED BY <1>1 DEF Members

\* Members are finitely many
LEMMA MembersFinite == \A l : IsFiniteSet(Members(l)) /\ Cardinality(Members(l)) \in Nat
<1>1. IsFiniteSet(SeqNum)
  BY SequenceNumberAssumption, FS_Interval DEF SeqNum
<1>2. \A l : Members(l) \in SUBSET SeqNum
  BY DEF Members
<1> QED BY <1>1, <1>2, FS_Subset, FS_CardinalityType

\* A list is empty when its length says so, and starts with its least member
LEMMA FirstIsLeast ==
  ASSUME NEW l, SortedList(l)
  PROVE  /\ l.length \in Nat
         /\ l.length > 0 <=> Members(l) # {}
         /\ l.length > 0 <=> Len(l.ranges) > 0
         /\ l.length > 0 => /\ FirstOf(l) \in Members(l)
                            /\ \A seq \in Members(l) : FirstOf(l) <= seq
<1>0. l.length \in Nat /\ (l.length = 0 <=> Members(l) = {})
  BY MembersFinite, FS_EmptySet DEF SortedList
<1>1. Members(l) = {seq \in SeqNum : \E i \in 1 .. Len(l.ranges) :
                            l.ranges[i].first <= seq /\ seq <= l.ranges[i].second}
  BY MembersOfSorted DEF SortedList
<1>2. /\ Len(l.ranges) \in Nat
      /\ \A i \in 1 .. Len(l.ranges) : l.ranges[i].first \in SeqNum /\ l.ranges[i].second \in SeqNum
  BY RangeTypes DEF SortedList
<1>3. CASE Len(l.ranges) = 0
  <2>1. Members(l) = {}
    BY <1>1, <1>3
  <2> QED BY <2>1, <1>0, <1>3
<1>4. CASE Len(l.ranges) # 0
  <2>1. 1 \in 1 .. Len(l.ranges) /\ Len(l.ranges) > 0
    BY <1>2, <1>4
  <2>2. FirstOf(l) \in Members(l)
    <3>1. l.ranges[1].first <= l.ranges[1].second /\ l.ranges[1].first \in SeqNum
      BY <2>1, <1>2 DEF SortedList
    <3>2. l.ranges[1].first <= l.ranges[1].first
      BY <3>1, SequenceNumberAssumption DEF SeqNum
    <3> QED BY <3>1, <3>2, <2>1, <1>1 DEF FirstOf
  <2>3. ASSUME NEW seq \in Members(l) PROVE FirstOf(l) <= seq
    <3>1. PICK i \in 1 .. Len(l.ranges) : l.ranges[i].first <= seq
      BY <1>1
    <3>2. seq \in Int
      BY <1>1, SequenceNumberAssumption DEF SeqNum
    <3>3. CASE i = 1
      BY <3>1, <3>3 DEF FirstOf
    <3>4. CASE i # 1
      <4>1. l.ranges[1].second < l.ranges[i].first /\ l.ranges[1].first <= l.ranges[1].second
        BY <2>1, <3>4 DEF SortedList
      <4> QED BY <4>1, <3>1, <3>2, <1>2, <2>1, SequenceNumberAssumption DEF FirstOf, SeqNum
    <3> QED BY <3>3, <3>4
  <2> QED BY <2>1, <2>2, <2>3, <1>0
<1> QED BY <1>3, <1>4

\* append records numbers above all there are
LEMMA AppendIsUnion ==
  ASSUME NEW l, SortedList(l), NEW start \in SeqNum, NEW end \in SeqNum, start <= end,
         \A seq \in Members(l) : seq < start /\ end - seq < THRESHOLD,
         end - start < THRESHOLD
  PROVE  /\ SortedList(AppendRange(l, start, end))
         /\ Members(AppendRange(l, start, end)) = Members(l) \cup (start .. end)
<1> DEFINE rs == l.ranges
           n == Len(rs)
           joins == l.length > 0 /\ Plus(rs[n].second, 1) = start
           added == AppendRange(l, start, end)
           as == added.ranges
<1>1. /\ n \in Nat /\ rs \in Seq(OneRange)
      /\ \A i \in 1 .. n : rs[i] \in OneRange
      /\ \A i \in 1 .. n : rs[i].first \in SeqNum /\ rs[i].second \in SeqNum
  BY RangeTypes DEF SortedList
<1>2. /\ \A i \in 1 .. n : rs[i].first <= rs[i].second /\ rs[i].second - rs[i].first < THRESHOLD
      /\ \A i, j \in 1 .. n : i < j => rs[i].second < rs[j].first
  BY DEF SortedList
<1>3. Members(l) = {seq \in SeqNum : \E i \in 1 .. n : rs[i].first <= seq /\ seq <= rs[i].second}
  BY MembersOfSorted DEF SortedList
<1>4. ASSUME NEW i \in 1 .. n
      PROVE  rs[i].first \in Members(l) /\ rs[i].second \in Members(l)
  <2>1. rs[i].first <= rs[i].first /\ rs[i].second <= rs[i].second
    BY <1>1, SequenceNumberAssumption DEF SeqNum
  <2> QED BY <2>1, <1>1, <1>2, <1>3
<1>5. l.length \in Nat /\ (l.length > 0 <=> n > 0)
  BY FirstIsLeast
<1>6. Interval(start, end) \in OneRange
  BY DEF Interval, OneRange
<1>7. as = IF joins THEN [rs EXCEPT ![n].second = end] ELSE Append(rs, Interval(start, end))
  BY DEF AppendRange
<1>8. added.length = l.length + (end - start + 1)
  BY DEF AppendRange, Seqlen
<1>9. /\ as \in Seq(OneRange)
      /\ \A i \in 1 .. Len(as) : as[i].first <= as[i].second /\ as[i].second - as[i].first < THRESHOLD
      /\ \A i, j \in 1 .. Len(as) : i < j => as[i].second < as[j].first
      /\ \A seq \in SeqNum :
            (\E i \in 1 .. Len(as) : as[i].first <= seq /\ seq <= as[i].second)
            <=> (\E i \in 1 .. n : rs[i].first <= seq /\ seq <= rs[i].second)
                \/ (start <= seq /\ seq <= end)
  <2>1. CASE joins
    <3>0. n \in 1 .. n /\ n > 0
      BY <2>1, <1>1, <1>5
    <3> DEFINE r == [first |-> rs[n].first, second |-> end]
    <3>1. as = [rs EXCEPT ![n] = r]
      <4>1. as = [rs EXCEPT ![n] = [rs[n] EXCEPT !.second = end]]
        BY <2>1, <1>7
      <4>2. rs[n] \in OneRange
        BY <3>0, <1>1
      <4>3. [rs[n] EXCEPT !.second = end] = r
        BY <4>2 DEF OneRange
      <4> QED BY <4>1, <4>3
    <3>2. r \in OneRange
      BY <3>0, <1>1 DEF OneRange
    <3>3. as \in Seq(OneRange) /\ Len(as) = n /\ \A i \in 1 .. n : as[i] = IF i = n THEN r ELSE rs[i]
      BY <3>0, <3>1, <3>2, <1>1, ExceptSeq
    <3>4. rs[n].second + 1 = start /\ rs[n].first \in Members(l) /\ rs[n].second \in Members(l)
          /\ rs[n].first <= rs[n].second
      <4>1. rs[n].second \in Members(l) /\ rs[n].first \in Members(l) /\ rs[n].second \in SeqNum
        BY <3>0, <1>4, <1>1
      <4>2. rs[n].second < start
        BY <4>1
      <4> QED BY <4>1, <4>2, <3>0, <1>2, <2>1, SequenceNumberAssumption DEF SeqNum, Plus
    <3>5. r.first = rs[n].first /\ r.second = end
      OBVIOUS
    <3>6. rs[n].first < start /\ end - rs[n].first < THRESHOLD /\ rs[n].first \in Int
      BY <3>4, <3>0, <1>1 DEF SeqNum
    <3>7. \A i \in 1 .. n : i # n => as[i] = rs[i]
      BY <3>3
    <3>8. as[n].first = rs[n].first /\ as[n].second = end
      BY <3>0, <3>3, <3>5
    <3>9. \A i \in 1 .. Len(as) : as[i].first <= as[i].second /\ as[i].second - as[i].first < THRESHOLD
      <4> SUFFICES ASSUME NEW i \in 1 .. n
                   PROVE  as[i].first <= as[i].second /\ as[i].second - as[i].first < THRESHOLD
        BY <3>3
      <4>1. CASE i = n
        BY <4>1, <3>6, <3>8, SequenceNumberAssumption DEF SeqNum
      <4>2. CASE i # n
        BY <4>2, <3>7, <1>2
      <4> QED BY <4>1, <4>2
    <3>10. \A i, j \in 1 .. Len(as) : i < j => as[i].second < as[j].first
      <4> SUFFICES ASSUME NEW i \in 1 .. n, NEW j \in 1 .. n, i < j
                   PROVE  as[i].second < as[j].first
        BY <3>3
      <4>1. as[i] = rs[i] /\ as[j].first = rs[j].first
        BY <3>7, <3>8, <1>1
      <4> QED BY <4>1, <1>2
    <3>11. ASSUME NEW seq \in SeqNum
           PROVE  (\E i \in 1 .. n : as[i].first <= seq /\ seq <= as[i].second)
                  <=> (\E i \in 1 .. n : rs[i].first <= seq /\ seq <= rs[i].second)
                        \/ (start <= seq /\ seq <= end)
      <4>1. as[n].first <= seq /\ seq <= as[n].second
            <=> (rs[n].first <= seq /\ seq <= rs[n].second) \/ (start <= seq /\ seq <= end)
        <5> DEFINE f == rs[n].first
                   s == rs[n].second
        <5>1. f \in Int /\ s \in Int /\ f <= s /\ s + 1 = start /\ f < start
          BY <3>4, <3>6, <3>0, <1>1, SequenceNumberAssumption DEF SeqNum
        <5>2. as[n].first = f /\ as[n].second = end /\ seq \in Int /\ start \in Int /\ end \in Int
          BY <3>8, SequenceNumberAssumption DEF SeqNum
        <5> HIDE DEF f, s, as
        <5>3. f <= seq /\ seq <= end <=> (f <= seq /\ seq <= s) \/ (start <= seq /\ seq <= end)
          BY <5>1, <5>2
        <5> QED BY <5>2, <5>3 DEF f, s
      <4>2. \A i \in 1 .. n : i # n => as[i].first = rs[i].first /\ as[i].second = rs[i].second
        BY <3>7
      <4> HIDE DEF as, rs, n
      <4> QED BY <4>1, <4>2, <3>0
    <3> QED BY <3>3, <3>9, <3>10, <3>11
  <2>2. CASE ~joins
    <3> DEFINE r == Interval(start, end)
    <3>1. /\ as \in Seq(OneRange) /\ Len(as) = n + 1
          /\ \A i \in 1 .. n : as[i] = rs[i]
          /\ as[n + 1] = r
      BY <2>2, <1>1, <1>6, <1>7, AppendProperties
    <3>2. as[n + 1].first = start /\ as[n + 1].second = end
      BY <3>1 DEF Interval
    <3>3. \A i \in 1 .. n + 1 : i # n + 1 => i \in 1 .. n
      BY <1>1
    <3>4. ASSUME NEW i \in 1 .. n + 1
          PROVE  as[i].first <= as[i].second /\ as[i].second - as[i].first < THRESHOLD
      <4>1. CASE i = n + 1
        BY <4>1, <3>2
      <4>2. CASE i # n + 1
        BY <4>2, <3>1, <3>3, <1>2
      <4> QED BY <4>1, <4>2
    <3>5. ASSUME NEW i \in 1 .. n + 1, NEW j \in 1 .. n + 1, i < j
          PROVE  as[i].second < as[j].first
      <4>1. i \in 1 .. n /\ as[i] = rs[i]
        BY <3>1, <3>5, <1>1
      <4>2. CASE j = n + 1
        BY <4>1, <4>2, <3>2, <1>4
      <4>3. CASE j # n + 1
        BY <4>1, <4>3, <3>1, <3>3, <3>5, <1>2
      <4> QED BY <4>2, <4>3
    <3>6. ASSUME NEW seq \in SeqNum
          PROVE  (\E i \in 1 .. n + 1 : as[i].first <= seq /\ seq <= as[i].second)
                  <=> (\E i \in 1 .. n : rs[i].first <= seq /\ seq <= rs[i].second)
                        \/ (start <= seq /\ seq <= end)
      <4>1. \A i \in 1 .. n : as[i].first = rs[i].first /\ as[i].second = rs[i].second
        BY <3>1
      <4>2. 1 .. n + 1 = (1 .. n) \cup {n + 1}
        BY <1>1
      <4> HIDE DEF as, rs, n
      <4> QED BY <4>1, <4>2, <3>2
    <3> QED BY <3>1, <3>4, <3>5, <3>6
  <2> QED BY <2>1, <2>2
<1>10. Members(added) = {seq \in SeqNum : \E i \in 1 .. Len(as) : as[i].first <= seq /\ seq <= as[i].second}
  BY <1>9, MembersOfSorted
<1>11. Members(added) = Members(l) \cup (start .. end)
  <2>1. start .. end \subseteq SeqNum /\ \A seq \in SeqNum : seq \in start .. end <=> start <= seq /\ seq <= end
    BY SequenceNumberAssumption DEF SeqNum
  <2> HIDE DEF added, as, rs, n
  <2> QED BY <2>1, <1>9, <1>10, <1>3
<1>12. added.length = Cardinality(Members(added))
  <2>1. Cardinality(start .. end) = end - start + 1 /\ IsFiniteSet(start .. end)
    BY FS_Interval DEF SeqNum
  <2>2. Members(l) \cap (start .. end) = {}
    BY DEF SeqNum, Members
  <2>3. Cardinality(Members(l) \cup (start .. end))
            = Cardinality(Members(l)) + Cardinality(start .. end) - Cardinality(Members(l) \cap (start .. end))
    BY <2>1, MembersFinite, FS_Union
  <2>4. Cardinality({}) = 0 /\ Cardinality(Members(l)) \in Nat
    BY FS_EmptySet, MembersFinite
  <2>5. l.length = Cardinality(Members(l))
    BY DEF SortedList
  <2>6. Cardinality(Members(added)) = Cardinality(Members(l) \cup (start .. end))
    BY <1>11
  <2>7. Cardinality(Members(l) \cap (start .. end)) = 0
    BY <2>2, <2>4
  <2>8. start \in Int /\ end \in Int /\ Cardinality(Members(l)) \in Int
    BY <2>4 DEF SeqNum
  <2> HIDE DEF added
  <2> QED BY <2>1, <2>3, <2>5, <2>6, <2>7, <2>8, <1>8
<1> QED BY <1>9, <1>11, <1>12 DEF SortedList

\* One and two ranges
LEMMA ShortSequences ==
  ASSUME NEW a \in OneRange, NEW b \in OneRange
  PROVE  /\ <<a>> \in Seq(OneRange) /\ Len(<<a>>) = 1 /\ <<a>>[1] = a
         /\ <<a, b>> \in Seq(OneRange) /\ Len(<<a, b>>) = 2 /\ <<a, b>>[1] = a /\ <<a, b>>[2] = b
OBVIOUS

\* s with t for its elements after the a-th and before the b-th
Splice(s, a, t, b) == SubSeq(s, 1, a) \o t \o SubSeq(s, b, Len(s))

\* Where the elements of a splice come from
LEMMA Spliced ==
  ASSUME NEW S, NEW s \in Seq(S), NEW t \in Seq(S),
         NEW a \in 0 .. Len(s), NEW b \in a + 1 .. Len(s) + 1
  PROVE  /\ Splice(s, a, t, b) \in Seq(S)
         /\ Len(Splice(s, a, t, b)) = a + Len(t) + (Len(s) - b + 1)
         /\ \A j \in 1 .. Len(Splice(s, a, t, b)) :
             /\ j <= a => j \in 1 .. Len(s) /\ Splice(s, a, t, b)[j] = s[j]
             /\ a < j /\ j <= a + Len(t) =>
                   j - a \in 1 .. Len(t) /\ Splice(s, a, t, b)[j] = t[j - a]
             /\ a + Len(t) < j =>
                   /\ j - Len(t) - a + b - 1 \in b .. Len(s)
                   /\ Splice(s, a, t, b)[j] = s[j - Len(t) - a + b - 1]
<1> DEFINE n == Len(s)
           m == Len(t)
           p == SubSeq(s, 1, a)
           q == SubSeq(s, b, n)
           v == p \o t
           u == v \o q
<1>1. n \in Nat /\ m \in Nat /\ \A j \in 1 .. n : s[j] \in S
  BY LenProperties, ElementOfSeq
<1>2. /\ p \in Seq(S) /\ Len(p) = a
      /\ \A j \in 1 .. a : p[j] = s[j]
  <2>1. \A j \in 1 .. a : s[j] \in S
    BY <1>1
  <2>2. /\ p \in Seq(S) /\ Len(p) = IF 1 <= a THEN a - 1 + 1 ELSE 0
        /\ \A j \in 1 .. a - 1 + 1 : p[j] = s[1 + j - 1]
    BY <1>1, <2>1, SubSeqProperties
  <2> HIDE DEF p
  <2>3. Len(p) = a /\ a - 1 + 1 = a /\ \A j \in 1 .. a : 1 + j - 1 = j
    BY <1>1, <2>2
  <2> QED BY <2>2, <2>3
<1>3. /\ q \in Seq(S) /\ Len(q) = n - b + 1
      /\ \A j \in 1 .. n - b + 1 : q[j] = s[b + j - 1]
  <2>1. \A j \in b .. n : s[j] \in S
    BY <1>1
  <2>2. /\ q \in Seq(S) /\ Len(q) = IF b <= n THEN n - b + 1 ELSE 0
        /\ \A j \in 1 .. n - b + 1 : q[j] = s[b + j - 1]
    BY <1>1, <2>1, SubSeqProperties
  <2> HIDE DEF q
  <2>3. Len(q) = n - b + 1
    BY <1>1, <2>2
  <2> QED BY <2>2, <2>3
<1> HIDE DEF p, q
<1>4. /\ v \in Seq(S) /\ Len(v) = a + m
      /\ \A j \in 1 .. a + m : v[j] = IF j <= a THEN p[j] ELSE t[j - a]
  BY <1>2, ConcatProperties
<1> HIDE DEF v
<1>5. /\ u \in Seq(S) /\ Len(u) = a + m + (n - b + 1)
      /\ \A j \in 1 .. a + m + (n - b + 1) : u[j] = IF j <= a + m THEN v[j] ELSE q[j - (a + m)]
  <2>1. /\ u \in Seq(S) /\ Len(u) = Len(v) + Len(q)
        /\ \A j \in 1 .. Len(v) + Len(q) : u[j] = IF j <= Len(v) THEN v[j] ELSE q[j - Len(v)]
    BY <1>3, <1>4, ConcatProperties
  <2> HIDE DEF u, m
  <2> QED BY <2>1, <1>3, <1>4
<1> HIDE DEF u
<1>6. ASSUME NEW j \in 1 .. Len(u), j <= a PROVE j \in 1 .. n /\ u[j] = s[j]
  <2>1. j \in 1 .. a /\ j \in 1 .. a + m /\ j \in 1 .. n /\ j <= a + m
    BY <1>1, <1>6
  <2> QED BY <2>1, <1>6, <1>2, <1>4, <1>5
<1>7. ASSUME NEW j \in 1 .. Len(u), a < j, j <= a + m PROVE j - a \in 1 .. m /\ u[j] = t[j - a]
  <2>1. j \in 1 .. a + m /\ ~(j <= a) /\ j - a \in 1 .. m
    BY <1>1, <1>7
  <2> QED BY <2>1, <1>7, <1>4, <1>5
<1>8. ASSUME NEW j \in 1 .. Len(u), a + m < j
      PROVE  j - m - a + b - 1 \in b .. n /\ u[j] = s[j - m - a + b - 1]
  <2>1. ~(j <= a + m) /\ j - (a + m) \in 1 .. n - b + 1 /\ b + (j - (a + m)) - 1 = j - m - a + b - 1
        /\ j - m - a + b - 1 \in b .. n
    BY <1>1, <1>5, <1>8
  <2> QED BY <2>1, <1>3, <1>5
<1> QED BY <1>5, <1>6, <1>7, <1>8 DEF Splice, u, v, p, q

\* remove takes out the number it is given, if it is there
LEMMA RemoveIsDifference ==
  ASSUME NEW l, SortedList(l), NEW seq \in SeqNum
  PROVE  /\ RemoveOne(l, seq).found <=> seq \in Members(l)
         /\ SortedList(RemoveOne(l, seq).list)
         /\ Members(RemoveOne(l, seq).list) = Members(l) \ {seq}
<1> DEFINE rs == l.ranges
           n == Len(rs)
           k == FindRange(l, seq)
<1>1. /\ n \in Nat /\ rs \in Seq(OneRange)
      /\ \A i \in 1 .. n : rs[i] \in OneRange
      /\ \A i \in 1 .. n : rs[i].first \in SeqNum /\ rs[i].second \in SeqNum
  BY RangeTypes DEF SortedList
<1>2. /\ \A i \in 1 .. n : rs[i].first <= rs[i].second /\ rs[i].second - rs[i].first < THRESHOLD
      /\ \A i, j \in 1 .. n : i < j => rs[i].second < rs[j].first
  BY DEF SortedList
<1>3. Members(l) = {x \in SeqNum : \E i \in 1 .. n : rs[i].first <= x /\ x <= rs[i].second}
  BY MembersOfSorted DEF SortedList
<1>4. \A i \in 1 .. n : Within(rs[i], seq) <=> rs[i].first <= seq /\ seq <= rs[i].second
  BY MembersOfSorted DEF SortedList
<1>5. ASSUME NEW i \in 1 .. n, NEW j \in 1 .. n, i # j, rs[i].first <= seq, seq <= rs[i].second
      PROVE  ~(rs[j].first <= seq /\ seq <= rs[j].second)
  <2>1. rs[i].second < rs[j].first \/ rs[j].second < rs[i].first
    <3>1. i < j \/ j < i
      BY <1>1, <1>5
    <3> QED BY <3>1, <1>2
  <2>2. /\ rs[i].first \in Int /\ rs[i].second \in Int /\ rs[j].first \in Int /\ rs[j].second \in Int
        /\ seq \in Int
    BY <1>1 DEF SeqNum
  <2> QED BY <2>1, <2>2, <1>5
<1>6. CASE seq \notin Members(l)
  <2>1. {i \in 1 .. n : Within(rs[i], seq)} = {}
    BY <1>3, <1>4, <1>6
  <2>2. k = 0
    BY <2>1 DEF FindRange, SelectInSeq
  <2>3. RemoveOne(l, seq) = [found |-> FALSE, list |-> l]
    BY <2>2 DEF RemoveOne
  <2> QED BY <2>3, <1>6
<1>7. CASE seq \in Members(l)
  <2>1. PICK i \in 1 .. n : rs[i].first <= seq /\ seq <= rs[i].second
    BY <1>3, <1>7
  <2>2. {j \in 1 .. n : Within(rs[j], seq)} = {i}
    BY <2>1, <1>4, <1>5
  <2>3. k = i
    <3>1. k = Min({i})
      BY <2>2 DEF FindRange, SelectInSeq
    <3>2. i <= i /\ Min({i}) = CHOOSE x \in {i} : \A y \in {i} : x <= y
      BY DEF Min
    <3> QED BY <3>1, <3>2
  <2> DEFINE r == rs[i]
             rest == IF r.first = r.second THEN <<>>
                     ELSE IF seq = r.first THEN <<[r EXCEPT !.first = Inc(@)]>>
                     ELSE IF seq = r.second THEN <<[r EXCEPT !.second = Dec(@)]>>
                     ELSE SplitAround(r, seq, seq)
             left == [ranges |-> Splice(rs, i - 1, rest, i + 1), length |-> l.length - 1]
             m == Len(rest)
  <2>4. RemoveOne(l, seq) = [found |-> TRUE, list |-> left]
    <3>1. i # 0 /\ Len(<<r>>) = 1
      OBVIOUS
    <3> QED BY <2>3, <3>1 DEF RemoveOne, ReplaceSubSeqAt, Splice
  <2>5. /\ rest \in Seq(OneRange) /\ m \in 0 .. 2
        /\ \A j \in 1 .. m : /\ rest[j].first <= rest[j].second
                             /\ r.first <= rest[j].first /\ rest[j].second <= r.second
        /\ m = 2 => rest[1].second < rest[2].first
        /\ \A x \in SeqNum : (\E j \in 1 .. m : rest[j].first <= x /\ x <= rest[j].second)
                            <=> r.first <= x /\ x <= r.second /\ x # seq
    <3>0. /\ r.first \in SeqNum /\ r.second \in SeqNum /\ r.first <= seq /\ seq <= r.second
          /\ r \in OneRange
      BY <2>1, <1>1
    <3>1. CASE r.first = r.second
      <4>1. rest = <<>> /\ m = 0 /\ rest \in Seq(OneRange)
        BY <3>1
      <4>2. \A x \in SeqNum : r.first <= x /\ x <= r.second => x = seq
        BY <3>0, <3>1, SequenceNumberAssumption DEF SeqNum
      <4> HIDE DEF rest, m
      <4> QED BY <4>1, <4>2
    <3>2. ASSUME NEW f \in SeqNum, NEW s \in SeqNum, f <= s, r.first <= f, s <= r.second,
                 rest = <<[first |-> f, second |-> s]>>,
                 \A x \in SeqNum : f <= x /\ x <= s <=> r.first <= x /\ x <= r.second /\ x # seq
          PROVE  /\ rest \in Seq(OneRange) /\ m \in 0 .. 2
                 /\ \A j \in 1 .. m : /\ rest[j].first <= rest[j].second
                                      /\ r.first <= rest[j].first /\ rest[j].second <= r.second
                 /\ m = 2 => rest[1].second < rest[2].first
                 /\ \A x \in SeqNum : (\E j \in 1 .. m : rest[j].first <= x /\ x <= rest[j].second)
                                     <=> r.first <= x /\ x <= r.second /\ x # seq
      <4>0. [first |-> f, second |-> s] \in OneRange
        BY <3>2 DEF OneRange
      <4>1. rest \in Seq(OneRange) /\ m = 1 /\ rest[1].first = f /\ rest[1].second = s
        <5> HIDE DEF rest
        <5> QED BY <4>0, <3>2, ShortSequences
      <4>2. \A j : j \in 1 .. 1 <=> j = 1
        OBVIOUS
      <4> HIDE DEF rest, m, r
      <4> QED BY <4>1, <4>2, <3>2
    <3>3. CASE r.first # r.second /\ seq = r.first
      <4>1. r.first + 1 \in SeqNum /\ Inc(r.first) = r.first + 1 /\ r.first + 1 <= r.second
        <5>1. r.first + 1 \in 0 .. MAX /\ r.first + 1 <= r.second
          BY <3>0, <3>3, SequenceNumberAssumption DEF SeqNum
        <5>2. r.first + 1 \in Nat /\ MAX + 1 \in Nat \ {0} /\ r.first + 1 < MAX + 1
          BY <5>1, SequenceNumberAssumption
        <5>3. \A x, y \in Nat : x < y => x % y = x
          OBVIOUS
        <5> HIDE DEF r
        <5>4. (r.first + 1) % (MAX + 1) = r.first + 1
          BY <5>2, <5>3
        <5> QED BY <5>1, <5>4 DEF SeqNum, Inc
      <4>2. [r EXCEPT !.first = Inc(@)] = [first |-> r.first + 1, second |-> r.second]
        BY <4>1, <3>0 DEF OneRange
      <4>3. rest = <<[first |-> r.first + 1, second |-> r.second]>>
        BY <4>2, <3>3
      <4>4. \A x \in SeqNum : r.first + 1 <= x /\ x <= r.second <=> r.first <= x /\ x <= r.second /\ x # seq
        BY <3>0, <3>3, SequenceNumberAssumption DEF SeqNum
      <4>5. r.first <= r.first + 1 /\ r.second <= r.second
        BY <3>0 DEF SeqNum
      <4> QED BY <4>1, <4>3, <4>4, <4>5, <3>0, <3>2
    <3>4. CASE r.first # r.second /\ seq # r.first /\ seq = r.second
      <4>1. r.second - 1 \in SeqNum /\ Dec(r.second) = r.second - 1 /\ r.first <= r.second - 1
        BY <3>0, <3>4, SequenceNumberAssumption DEF SeqNum, Dec
      <4>2. [r EXCEPT !.second = Dec(@)] = [first |-> r.first, second |-> r.second - 1]
        BY <4>1, <3>0 DEF OneRange
      <4>3. rest = <<[first |-> r.first, second |-> r.second - 1]>>
        BY <4>2, <3>4
      <4>4. \A x \in SeqNum : r.first <= x /\ x <= r.second - 1 <=> r.first <= x /\ x <= r.second /\ x # seq
        BY <3>0, <3>4, SequenceNumberAssumption DEF SeqNum
      <4>5. r.first <= r.first /\ r.second - 1 <= r.second
        BY <3>0 DEF SeqNum
      <4> QED BY <4>1, <4>3, <4>4, <4>5, <3>0, <3>2
    <3>5. CASE r.first # r.second /\ seq # r.first /\ seq # r.second
      <4>1. /\ r.first < seq /\ seq < r.second
            /\ Minus(seq, 1) = seq - 1 /\ Plus(seq, 1) = seq + 1
            /\ seq - 1 \in SeqNum /\ seq + 1 \in SeqNum
        <5> HIDE DEF r, rest, m
        <5>1. r.first \in 0 .. MAX /\ r.second \in 0 .. MAX /\ seq \in 0 .. MAX /\ MAX \in Nat
          BY <3>0, SequenceNumberAssumption DEF SeqNum
        <5>2. r.first < seq /\ seq < r.second
          BY <5>1, <3>0, <3>5
        <5>3. seq - 1 \in 0 .. MAX /\ seq + 1 \in 0 .. MAX /\ ~(seq < 1) /\ ~(seq + 1 > MAX)
          BY <5>1, <5>2
        <5> QED BY <5>2, <5>3 DEF SeqNum, Minus, Plus
      <4>2. rest = <<Interval(r.first, seq - 1), Interval(seq + 1, r.second)>>
        BY <4>1, <3>5 DEF SplitAround
      <4>3. Interval(r.first, seq - 1) \in OneRange /\ Interval(seq + 1, r.second) \in OneRange
        BY <4>1, <3>0 DEF Interval, OneRange
      <4>4. /\ rest \in Seq(OneRange) /\ m = 2
            /\ rest[1].first = r.first /\ rest[1].second = seq - 1
            /\ rest[2].first = seq + 1 /\ rest[2].second = r.second
        <5> HIDE DEF rest
        <5>1. rest \in Seq(OneRange) /\ m = 2 /\ rest[1] = Interval(r.first, seq - 1)
              /\ rest[2] = Interval(seq + 1, r.second)
          BY <4>2, <4>3, ShortSequences
        <5> QED BY <5>1 DEF Interval
      <4>5. \A j : j \in 1 .. 2 <=> j = 1 \/ j = 2
        OBVIOUS
      <4>6. \A x \in SeqNum : (r.first <= x /\ x <= seq - 1) \/ (seq + 1 <= x /\ x <= r.second)
                            <=> r.first <= x /\ x <= r.second /\ x # seq
        BY <3>0, <4>1, SequenceNumberAssumption DEF SeqNum
      <4>7. /\ r.first <= seq - 1 /\ seq + 1 <= r.second /\ seq - 1 < seq + 1
            /\ r.first <= r.first /\ r.second <= r.second
            /\ r.first <= seq + 1 /\ seq - 1 <= r.second
        BY <3>0, <4>1 DEF SeqNum
      <4>8. \A x \in SeqNum : (\E j \in 1 .. m : rest[j].first <= x /\ x <= rest[j].second)
                            <=> (r.first <= x /\ x <= seq - 1) \/ (seq + 1 <= x /\ x <= r.second)
        <5> HIDE DEF rest, m, r
        <5> QED BY <4>4, <4>5
      <4>9. \A j \in 1 .. m : /\ rest[j].first <= rest[j].second
                             /\ r.first <= rest[j].first /\ rest[j].second <= r.second
        <5> HIDE DEF rest, m, r
        <5> QED BY <4>4, <4>5, <4>7
      <4> HIDE DEF rest, m, r
      <4> QED BY <4>4, <4>6, <4>7, <4>8, <4>9
    <3> QED BY <3>1, <3>3, <3>4, <3>5
  <2> DEFINE a == i - 1
             b == i + 1
             ls == Splice(rs, a, rest, b)
  <2>6. a \in 0 .. n /\ b \in a + 1 .. n + 1
    BY <1>1
  <2>7. /\ ls \in Seq(OneRange) /\ Len(ls) = a + m + (n - b + 1)
        /\ \A j \in 1 .. Len(ls) :
            /\ j <= a => j \in 1 .. n /\ ls[j] = rs[j]
            /\ a < j /\ j <= a + m => j - a \in 1 .. m /\ ls[j] = rest[j - a]
            /\ a + m < j => j - m - a + b - 1 \in b .. n /\ ls[j] = rs[j - m - a + b - 1]
    <3>1. rest \in Seq(OneRange) /\ rs \in Seq(OneRange)
      BY <2>5, <1>1
    <3> HIDE DEF rs, rest, a, b
    <3> QED BY <3>1, <2>6, Spliced
  <2>8. ls \in Seq(OneRange) /\ Len(ls) = n - 1 + m /\ m \in 0 .. 2
    <3>1. ls \in Seq(OneRange) /\ Len(ls) = a + m + (n - b + 1) /\ m \in 0 .. 2
      BY <2>5, <2>7
    <3>2. n \in Nat
      BY <1>1
    <3> HIDE DEF ls, rs, n, rest, m
    <3> QED BY <3>1, <3>2
  <2>9. ASSUME NEW j \in 1 .. Len(ls)
        PROVE  \/ j < i /\ j \in 1 .. n /\ ls[j] = rs[j]
               \/ i <= j /\ j < i + m /\ j - i + 1 \in 1 .. m /\ ls[j] = rest[j - i + 1]
               \/ i + m <= j /\ j - m + 1 \in i + 1 .. n /\ ls[j] = rs[j - m + 1]
    <3> HIDE DEF ls, rs, rest, n, m
    <3>0. i \in Nat /\ n \in Nat /\ m \in Nat /\ j \in Nat
      BY <1>1, <2>8
    <3>1. CASE j <= a
      <4>1. j \in 1 .. n /\ ls[j] = rs[j]
        BY <3>1, <2>7
      <4>2. j < i
        BY <3>0, <3>1
      <4> QED BY <4>1, <4>2
    <3>2. CASE a < j /\ j <= a + m
      <4>1. j - a \in 1 .. m /\ ls[j] = rest[j - a]
        BY <3>2, <2>7
      <4>2. j - a = j - i + 1 /\ i <= j /\ j < i + m
        BY <3>0, <3>2
      <4> QED BY <4>1, <4>2
    <3>3. CASE a + m < j
      <4>1. j - m - a + b - 1 \in b .. n /\ ls[j] = rs[j - m - a + b - 1]
        BY <3>3, <2>7
      <4>2. j - m - a + b - 1 = j - m + 1 /\ b = i + 1 /\ i + m <= j
        BY <3>0, <3>3
      <4> HIDE DEF a, b
      <4> QED BY <4>1, <4>2
    <3>4. j <= a \/ (a < j /\ j <= a + m) \/ a + m < j
      BY <3>0
    <3> QED BY <3>1, <3>2, <3>3, <3>4
  <2> HIDE DEF ls
  <2>10. /\ r \in OneRange /\ r.first \in SeqNum /\ r.second \in SeqNum
         /\ r.first <= r.second /\ r.second - r.first < THRESHOLD
    BY <1>1, <1>2
  <2>11. ASSUME NEW j \in 1 .. m
         PROVE  /\ rest[j].first \in SeqNum /\ rest[j].second \in SeqNum
                /\ rest[j].first <= rest[j].second
                /\ r.first <= rest[j].first /\ rest[j].second <= r.second
    <3>1. rest[j] \in OneRange
      <4> HIDE DEF rest
      <4> QED BY <2>5, ElementOfSeq
    <3> QED BY <3>1, <2>5 DEF OneRange
  <2> HIDE DEF rest, m, r
  <2>12. ASSUME NEW j \in 1 .. Len(ls)
         PROVE  ls[j].first <= ls[j].second /\ ls[j].second - ls[j].first < THRESHOLD
    <3>1. CASE i <= j /\ j < i + m /\ j - i + 1 \in 1 .. m /\ ls[j] = rest[j - i + 1]
      <4> DEFINE part == rest[j - i + 1]
      <4>1. /\ part.first \in SeqNum /\ part.second \in SeqNum /\ part.first <= part.second
            /\ r.first <= part.first /\ part.second <= r.second
        BY <3>1, <2>11
      <4> HIDE DEF part
      <4>2. part.first <= part.second /\ part.second - part.first < THRESHOLD
        BY <4>1, <2>10, SequenceNumberAssumption DEF SeqNum
      <4> QED BY <3>1, <4>2 DEF part
    <3>2. CASE j < i /\ j \in 1 .. n /\ ls[j] = rs[j]
      BY <3>2, <1>2
    <3>3. CASE i + m <= j /\ j - m + 1 \in i + 1 .. n /\ ls[j] = rs[j - m + 1]
      <4>1. j - m + 1 \in 1 .. n
        BY <3>3, <1>1
      <4> QED BY <4>1, <3>3, <1>2
    <3> QED BY <3>1, <3>2, <3>3, <2>9
  <2>13. ASSUME NEW j \in 1 .. Len(ls), NEW h \in 1 .. Len(ls), j < h
         PROVE  ls[j].second < ls[h].first
    <3>1. CASE j < i /\ j \in 1 .. n /\ ls[j] = rs[j]
      <4>1. rs[j].second < r.first /\ rs[j].second \in Int /\ r.first \in Int
        BY <3>1, <1>1, <1>2 DEF r, SeqNum
      <4>2. CASE h < i /\ h \in 1 .. n /\ ls[h] = rs[h]
        BY <3>1, <4>2, <2>13, <1>2
      <4>3. CASE i <= h /\ h < i + m /\ h - i + 1 \in 1 .. m /\ ls[h] = rest[h - i + 1]
        <5>1. r.first <= rest[h - i + 1].first /\ rest[h - i + 1].first \in Int
          BY <4>3, <2>11 DEF SeqNum
        <5> QED BY <5>1, <4>1, <4>3, <3>1
      <4>4. CASE i + m <= h /\ h - m + 1 \in i + 1 .. n /\ ls[h] = rs[h - m + 1]
        <5>1. j < h - m + 1 /\ h - m + 1 \in 1 .. n
          BY <3>1, <4>4, <1>1
        <5> QED BY <5>1, <3>1, <4>4, <1>2
      <4> QED BY <4>2, <4>3, <4>4, <2>9
    <3>2. CASE i <= j /\ j < i + m /\ j - i + 1 \in 1 .. m /\ ls[j] = rest[j - i + 1]
      <4>1. rest[j - i + 1].second <= r.second /\ rest[j - i + 1].second \in Int /\ r.second \in Int
        BY <3>2, <2>10, <2>11 DEF SeqNum
      <4>2. CASE h < i
        BY <4>2, <3>2, <2>13, <1>1, <2>8
      <4>3. CASE i <= h /\ h < i + m /\ h - i + 1 \in 1 .. m /\ ls[h] = rest[h - i + 1]
        <5>1. m = 2 /\ j - i + 1 = 1 /\ h - i + 1 = 2
          BY <3>2, <4>3, <2>8, <2>13, <1>1
        <5> QED BY <5>1, <3>2, <4>3, <2>5
      <4>4. CASE i + m <= h /\ h - m + 1 \in i + 1 .. n /\ ls[h] = rs[h - m + 1]
        <5>1. r.second < rs[h - m + 1].first /\ rs[h - m + 1].first \in Int
          BY <4>4, <1>1, <1>2 DEF r, SeqNum
        <5> QED BY <5>1, <4>1, <4>4, <3>2
      <4> QED BY <4>2, <4>3, <4>4, <2>9
    <3>3. CASE i + m <= j /\ j - m + 1 \in i + 1 .. n /\ ls[j] = rs[j - m + 1]
      <4>1. ~(h < i) /\ ~(h < i + m)
        BY <3>3, <2>13, <2>8, <1>1
      <4>2. h - m + 1 \in i + 1 .. n /\ ls[h] = rs[h - m + 1]
        BY <4>1, <2>9
      <4>3. j - m + 1 < h - m + 1 /\ j - m + 1 \in 1 .. n /\ h - m + 1 \in 1 .. n
        BY <3>3, <4>2, <2>13, <2>8, <1>1
      <4> QED BY <4>2, <4>3, <3>3, <1>2
    <3> QED BY <3>1, <3>2, <3>3, <2>9
  <2>14. ASSUME NEW x \in SeqNum
         PROVE  (\E j \in 1 .. Len(ls) : ls[j].first <= x /\ x <= ls[j].second)
                <=> (\E h \in 1 .. n : rs[h].first <= x /\ x <= rs[h].second) /\ x # seq
    <3>1. ASSUME NEW j \in 1 .. Len(ls), ls[j].first <= x, x <= ls[j].second
          PROVE  (\E h \in 1 .. n : rs[h].first <= x /\ x <= rs[h].second) /\ x # seq
      <4>1. CASE j < i /\ j \in 1 .. n /\ ls[j] = rs[j]
        BY <4>1, <3>1, <2>1, <1>5, <1>1
      <4>2. CASE i <= j /\ j < i + m /\ j - i + 1 \in 1 .. m /\ ls[j] = rest[j - i + 1]
        <5>1. r.first <= x /\ x <= r.second /\ x # seq
          BY <4>2, <3>1, <2>5
        <5> QED BY <5>1 DEF r
      <4>3. CASE i + m <= j /\ j - m + 1 \in i + 1 .. n /\ ls[j] = rs[j - m + 1]
        <5>1. j - m + 1 \in 1 .. n /\ j - m + 1 # i
          BY <4>3, <2>8, <1>1
        <5> QED BY <5>1, <4>3, <3>1, <2>1, <1>5
      <4> QED BY <4>1, <4>2, <4>3, <2>9
    <3>2. ASSUME NEW h \in 1 .. n, rs[h].first <= x, x <= rs[h].second, x # seq
          PROVE  \E j \in 1 .. Len(ls) : ls[j].first <= x /\ x <= ls[j].second
      <4>1. CASE h < i
        <5>1. h \in 1 .. Len(ls)
          BY <4>1, <2>8, <1>1
        <5>2. ls[h] = rs[h]
          BY <5>1, <4>1, <2>9, <2>8
        <5> QED BY <5>1, <5>2, <3>2
      <4>2. CASE h = i
        <5>1. PICK j \in 1 .. m : rest[j].first <= x /\ x <= rest[j].second
          BY <4>2, <3>2, <2>5 DEF r
        <5>2. i + j - 1 \in 1 .. Len(ls) /\ i <= i + j - 1 /\ i + j - 1 < i + m /\ (i + j - 1) - i + 1 = j
          <6>1. n \in Nat /\ i \in 1 .. n /\ m \in Nat /\ Len(ls) = n - 1 + m
            BY <2>8, <1>1
          <6> HIDE DEF n, ls
          <6> QED BY <6>1
        <5>3. ls[i + j - 1] = rest[j]
          BY <5>2, <2>9, <2>8
        <5> QED BY <5>1, <5>2, <5>3
      <4>3. CASE h > i
        <5>1. h + m - 1 \in 1 .. Len(ls) /\ i + m <= h + m - 1 /\ (h + m - 1) - m + 1 = h
          BY <4>3, <2>8, <1>1
        <5>2. ls[h + m - 1] = rs[h]
          BY <5>1, <2>9, <2>8, <1>1
        <5> QED BY <5>1, <5>2, <3>2
      <4>4. h < i \/ h = i \/ h > i
        BY <1>1
      <4> QED BY <4>1, <4>2, <4>3, <4>4
    <3> QED BY <3>1, <3>2
  <2>15. left.ranges = ls /\ left.length = l.length - 1
    BY DEF ls
  <2>16. Members(left) = {x \in SeqNum : \E j \in 1 .. Len(ls) : ls[j].first <= x /\ x <= ls[j].second}
    BY <2>8, <2>12, <2>15, MembersOfSorted
  <2>17. Members(left) = Members(l) \ {seq}
    <3> HIDE DEF left, rs, n
    <3> QED BY <2>14, <2>16, <1>3
  <2>18. left.length = Cardinality(Members(left))
    <3>1. Cardinality(Members(l) \ {seq}) = Cardinality(Members(l)) - 1
      BY <1>7, MembersFinite, FS_RemoveElement
    <3> QED BY <3>1, <2>15, <2>17 DEF SortedList
  <2>19. SortedList(left)
    <3> HIDE DEF left
    <3> QED BY <2>8, <2>12, <2>13, <2>15, <2>18 DEF SortedList
  <2> QED BY <2>4, <2>17, <2>19, <1>7
<1> QED BY <1>6, <1>7

-----------------------------------------------------------------------------
(***************************************************************************)
(* Loops over the ranges, a turn at a time                                 *)
(***************************************************************************)

\* What holds before the first turn and is kept by each holds after all
LEMMA EveryTurn ==
  ASSUME NEW k \in Nat, NEW n \in Nat, NEW Good,
         k \in Good, \A i \in k + 1 .. n : i - 1 \in Good => i \in Good
  PROVE  \A i \in k .. n : i \in Good
<1> DEFINE Bad == {i \in k .. n : i \notin Good}
<1> SUFFICES ASSUME Bad # {} PROVE FALSE
  OBVIOUS
<1>1. PICK m \in Bad : \A i \in Bad : ~ (<<i, m>> \in OpToRel(<, Nat))
  <2>1. Bad \subseteq Nat
    OBVIOUS
  <2> HIDE DEF Bad
  <2> QED BY <2>1, NatLessThanWellFounded, WFMin
<1>2. m \in k + 1 .. n /\ m - 1 \in k .. n /\ m - 1 \in Nat /\ m - 1 < m
  OBVIOUS
<1>3. m - 1 \notin Bad
  <2>1. <<m - 1, m>> \in OpToRel(<, Nat)
    BY <1>2 DEF OpToRel
  <2> QED BY <2>1, <1>1
<1> QED BY <1>2, <1>3

\* The states a loop goes through from its k-th turn to its n-th
Runs(S, first, k, n, turn) ==
    {h \in [k .. n -> S] : h[k] = first /\ \A i \in k + 1 .. n : h[i] = turn[<<i, h[i - 1]>>]}

\* There are such states, if every turn takes a state to one
LEMMA LoopRuns ==
  ASSUME NEW S, NEW first \in S, NEW k \in Nat, NEW n \in Nat, k <= n,
         NEW turn \in [(k + 1 .. n) \X S -> S]
  PROVE  Runs(S, first, k, n, turn) # {}
<1> DEFINE R(m) == Runs(S, first, k, m, turn)
           Good == {m \in k .. n : R(m) # {}}
<1>1. k \in Good
  <2> DEFINE h == [i \in k .. k |-> first]
  <2>1. h \in [k .. k -> S] /\ h[k] = first /\ k + 1 .. k = {}
    OBVIOUS
  <2>2. h \in R(k)
    <3> HIDE DEF h
    <3> QED BY <2>1 DEF Runs
  <2>3. R(k) # {} /\ k \in k .. n
    <3> HIDE DEF R
    <3> QED BY <2>2
  <2> HIDE DEF R
  <2> QED BY <2>3
<1>2. ASSUME NEW m \in k + 1 .. n, m - 1 \in Good PROVE m \in Good
  <2>1. PICK h : /\ h \in [k .. m - 1 -> S] /\ h[k] = first
                 /\ \A i \in k + 1 .. m - 1 : h[i] = turn[<<i, h[i - 1]>>]
    BY <1>2 DEF Runs
  <2> DEFINE last == turn[<<m, h[m - 1]>>]
             g == [i \in k .. m |-> IF i = m THEN last ELSE h[i]]
  <2>2. m - 1 \in k .. m - 1 /\ h[m - 1] \in S
    BY <2>1
  <2>3. last \in S
    BY <2>2
  <2> HIDE DEF last
  <2>4. g \in [k .. m -> S] /\ g[k] = first
    BY <2>1, <2>3
  <2>5. ASSUME NEW i \in k + 1 .. m PROVE g[i] = turn[<<i, g[i - 1]>>]
    <3>1. CASE i = m
      <4>1. m \in k .. m /\ m - 1 \in k .. m /\ m - 1 # m
        OBVIOUS
      <4>2. g[m] = last /\ g[m - 1] = h[m - 1]
        BY <4>1
      <4> QED BY <3>1, <4>2 DEF last
    <3>2. CASE i # m
      <4>1. i \in k + 1 .. m - 1 /\ i - 1 \in k .. m /\ i - 1 # m /\ i \in k .. m
        BY <3>2
      <4> QED BY <4>1, <2>1, <3>2
    <3> QED BY <3>1, <3>2
  <2>6. g \in R(m)
    <3> HIDE DEF g
    <3> QED BY <2>4, <2>5 DEF Runs
  <2> HIDE DEF R
  <2> QED BY <2>6
<1>3. n \in Good
  <2> HIDE DEF Good
  <2> QED BY <1>1, <1>2, EveryTurn
<1> QED BY <1>3

(***************************************************************************)
(* Sequences of ranges                                                     *)
(***************************************************************************)

\* In order, apart, and not wrapping
Sorted(rs) ==
    /\ rs \in Seq(OneRange)
    /\ \A i \in 1 .. Len(rs) : rs[i].first <= rs[i].second /\ rs[i].second - rs[i].first < THRESHOLD
    /\ \A i, j \in 1 .. Len(rs) : i < j => rs[i].second < rs[j].first

\* The numbers of the a-th to the b-th range
Between(rs, a, b) ==
    {seq \in SeqNum : \E i \in a .. b : rs[i].first <= seq /\ seq <= rs[i].second}

Covered(rs) == Between(rs, 1, Len(rs))

\* A list is in order if its ranges are, and its members are what they cover
LEMMA ListOfRanges ==
  ASSUME NEW l
  PROVE  /\ SortedList(l) <=> Sorted(l.ranges) /\ l.length = Cardinality(Members(l))
         /\ Sorted(l.ranges) => Members(l) = Covered(l.ranges)
<1>1. SortedList(l) <=> Sorted(l.ranges) /\ l.length = Cardinality(Members(l))
  BY DEF SortedList, Sorted
<1>2. Sorted(l.ranges) => Members(l) = Covered(l.ranges)
  BY MembersOfSorted DEF Sorted, Covered, Between
<1> QED BY <1>1, <1>2

\* Ranges are typed, and their ends are numbers they cover
LEMMA EndsCovered ==
  ASSUME NEW rs, Sorted(rs)
  PROVE  /\ Len(rs) \in Nat
         /\ \A i \in 1 .. Len(rs) :
            /\ rs[i] \in OneRange /\ rs[i].first \in 0 .. MAX /\ rs[i].second \in 0 .. MAX
            /\ rs[i].first \in Covered(rs) /\ rs[i].second \in Covered(rs)
<1>1. Len(rs) \in Nat
  BY LenProperties DEF Sorted
<1>2. ASSUME NEW i \in 1 .. Len(rs)
      PROVE  /\ rs[i] \in OneRange /\ rs[i].first \in 0 .. MAX /\ rs[i].second \in 0 .. MAX
             /\ rs[i].first \in Covered(rs) /\ rs[i].second \in Covered(rs)
  <2>1. rs[i] \in OneRange
    BY ElementOfSeq DEF Sorted
  <2>2. rs[i].first \in 0 .. MAX /\ rs[i].second \in 0 .. MAX
    BY <2>1 DEF OneRange, SeqNum
  <2>3. rs[i].first <= rs[i].second /\ rs[i].first <= rs[i].first /\ rs[i].second <= rs[i].second
    BY <2>2, SequenceNumberAssumption DEF Sorted
  <2> QED BY <2>1, <2>2, <2>3 DEF Covered, Between, SeqNum
<1> QED BY <1>1, <1>2

\* No range, and one
LEMMA FewRanges ==
  /\ Sorted(<<>>) /\ Covered(<<>>) = {}
  /\ \A f, s \in SeqNum :
        f <= s /\ s - f < THRESHOLD =>
            /\ Sorted(<<Interval(f, s)>>) /\ Covered(<<Interval(f, s)>>) = f .. s
<1>1. Sorted(<<>>) /\ Covered(<<>>) = {}
  BY DEF Sorted, Covered, Between
<1>2. ASSUME NEW f \in SeqNum, NEW s \in SeqNum, f <= s, s - f < THRESHOLD
      PROVE  Sorted(<<Interval(f, s)>>) /\ Covered(<<Interval(f, s)>>) = f .. s
  <2> DEFINE r == Interval(f, s)
  <2>1. r \in OneRange /\ r.first = f /\ r.second = s
    BY DEF Interval, OneRange
  <2> HIDE DEF r
  <2>2. <<r>> \in Seq(OneRange) /\ Len(<<r>>) = 1 /\ <<r>>[1] = r
    BY <2>1
  <2>3. Sorted(<<r>>)
    BY <2>1, <2>2, <1>2 DEF Sorted
  <2>4. \A x : x \in SeqNum /\ f <= x /\ x <= s <=> x \in f .. s
    BY <1>2, SequenceNumberAssumption DEF SeqNum
  <2>5. Covered(<<r>>) = f .. s
    BY <2>1, <2>2, <2>4 DEF Covered, Between
  <2> QED BY <2>3, <2>5 DEF r
<1> QED BY <1>1, <1>2

\* Ranges followed by later ones
LEMMA ConcatSorted ==
  ASSUME NEW s, Sorted(s), NEW t, Sorted(t),
         \A x \in Covered(s), y \in Covered(t) : x < y
  PROVE  Sorted(s \o t) /\ Covered(s \o t) = Covered(s) \cup Covered(t)
<1> DEFINE u == s \o t
<1>1. Len(s) \in Nat /\ Len(t) \in Nat /\ s \in Seq(OneRange) /\ t \in Seq(OneRange)
  BY EndsCovered DEF Sorted
<1>2. /\ u \in Seq(OneRange) /\ Len(u) = Len(s) + Len(t)
      /\ \A i \in 1 .. Len(s) + Len(t) : u[i] = IF i <= Len(s) THEN s[i] ELSE t[i - Len(s)]
  BY <1>1, ConcatProperties
<1> HIDE DEF u
<1>3. ASSUME NEW i \in 1 .. Len(u)
      PROVE  \/ i \in 1 .. Len(s) /\ u[i] = s[i]
             \/ i > Len(s) /\ i - Len(s) \in 1 .. Len(t) /\ u[i] = t[i - Len(s)]
  BY <1>1, <1>2
<1>4. ASSUME NEW i \in 1 .. Len(u)
      PROVE  u[i].first <= u[i].second /\ u[i].second - u[i].first < THRESHOLD
  BY <1>3 DEF Sorted
<1>5. ASSUME NEW i \in 1 .. Len(u), NEW j \in 1 .. Len(u), i < j
      PROVE  u[i].second < u[j].first
  <2>1. CASE i \in 1 .. Len(s) /\ u[i] = s[i] /\ j \in 1 .. Len(s) /\ u[j] = s[j]
    BY <2>1, <1>5 DEF Sorted
  <2>2. CASE i \in 1 .. Len(s) /\ u[i] = s[i] /\ j - Len(s) \in 1 .. Len(t) /\ u[j] = t[j - Len(s)]
    <3>1. s[i].second \in Covered(s) /\ t[j - Len(s)].first \in Covered(t)
      BY <2>2, EndsCovered
    <3> QED BY <3>1, <2>2
  <2>3. CASE /\ i - Len(s) \in 1 .. Len(t) /\ u[i] = t[i - Len(s)]
             /\ j - Len(s) \in 1 .. Len(t) /\ u[j] = t[j - Len(s)]
    <3>1. i - Len(s) < j - Len(s)
      BY <1>1, <1>2, <1>5
    <3> QED BY <3>1, <2>3 DEF Sorted
  <2>4. ~(i > Len(s) /\ j \in 1 .. Len(s))
    BY <1>1, <1>5
  <2> QED BY <2>1, <2>2, <2>3, <2>4, <1>3
<1>6. Covered(u) = Covered(s) \cup Covered(t)
  <2>1. ASSUME NEW x \in SeqNum, NEW i \in 1 .. Len(s), s[i].first <= x, x <= s[i].second
        PROVE  \E j \in 1 .. Len(u) : u[j].first <= x /\ x <= u[j].second
    <3>1. i \in 1 .. Len(u) /\ u[i] = s[i]
      BY <1>1, <1>2
    <3> QED BY <3>1, <2>1
  <2>2. ASSUME NEW x \in SeqNum, NEW i \in 1 .. Len(t), t[i].first <= x, x <= t[i].second
        PROVE  \E j \in 1 .. Len(u) : u[j].first <= x /\ x <= u[j].second
    <3>1. i + Len(s) \in 1 .. Len(u) /\ ~(i + Len(s) <= Len(s)) /\ i + Len(s) - Len(s) = i
      BY <1>1, <1>2
    <3>2. u[i + Len(s)] = t[i]
      BY <3>1, <1>2
    <3> QED BY <3>1, <3>2, <2>2
  <2>3. ASSUME NEW x \in Covered(u) PROVE x \in Covered(s) \cup Covered(t)
    BY <1>3 DEF Covered, Between
  <2> QED BY <2>1, <2>2, <2>3 DEF Covered, Between
<1>7. Sorted(u)
  BY <1>2, <1>4, <1>5 DEF Sorted
<1> QED BY <1>6, <1>7 DEF u

\* Consecutive ranges of a sorted sequence
LEMMA PartSorted ==
  ASSUME NEW rs, Sorted(rs), NEW a \in 1 .. Len(rs) + 1, NEW b \in 0 .. Len(rs)
  PROVE  Sorted(SubSeq(rs, a, b)) /\ Covered(SubSeq(rs, a, b)) = Between(rs, a, b)
<1> DEFINE part == SubSeq(rs, a, b)
           m == IF a <= b THEN b - a + 1 ELSE 0
<1>1. Len(rs) \in Nat /\ \A i \in a .. b : i \in 1 .. Len(rs) /\ rs[i] \in OneRange
  BY EndsCovered
<1>2. /\ part \in Seq(OneRange) /\ Len(part) = m
      /\ \A i \in 1 .. b - a + 1 : part[i] = rs[a + i - 1]
  BY <1>1, SubSeqProperties
<1> HIDE DEF part
<1>3. ASSUME NEW i \in 1 .. m
      PROVE  /\ part[i] = rs[a + i - 1] /\ a + i - 1 \in 1 .. Len(rs)
             /\ a + i - 1 \in a .. b
  BY <1>1, <1>2
<1>4. ASSUME NEW i \in a .. b
      PROVE  i - a + 1 \in 1 .. m /\ part[i - a + 1] = rs[i]
  <2>1. i - a + 1 \in 1 .. m /\ i - a + 1 \in 1 .. b - a + 1 /\ a + (i - a + 1) - 1 = i
    BY <1>1
  <2> QED BY <2>1, <1>2
<1>5. Sorted(part)
  <2>1. ASSUME NEW i \in 1 .. m, NEW j \in 1 .. m, i < j
        PROVE  part[i].second < part[j].first
    <3>1. a + i - 1 < a + j - 1
      BY <1>1, <2>1
    <3> QED BY <3>1, <1>3 DEF Sorted
  <2>2. \A i \in 1 .. m : part[i].first <= part[i].second /\ part[i].second - part[i].first < THRESHOLD
    BY <1>3 DEF Sorted
  <2> HIDE DEF m
  <2> QED BY <2>1, <2>2, <1>2 DEF Sorted
<1>6. Covered(part) = Between(rs, a, b)
  <2> HIDE DEF m
  <2> QED BY <1>2, <1>3, <1>4 DEF Covered, Between
<1> QED BY <1>5, <1>6 DEF part

(***************************************************************************)
(* remove(start, end)                                                      *)
(***************************************************************************)

\* Sizes of sets of numbers
LEMMA Sizes ==
  /\ \A S \in SUBSET SeqNum : IsFiniteSet(S) /\ Cardinality(S) \in Nat
  /\ \A S, T \in SUBSET SeqNum : S \cap T = {} => Cardinality(S \cup T) = Cardinality(S) + Cardinality(T)
<1>1. IsFiniteSet(SeqNum)
  BY SequenceNumberAssumption, FS_Interval DEF SeqNum
<1>2. ASSUME NEW S \in SUBSET SeqNum PROVE IsFiniteSet(S) /\ Cardinality(S) \in Nat
  BY <1>1, FS_Subset, FS_CardinalityType
<1>3. ASSUME NEW S \in SUBSET SeqNum, NEW T \in SUBSET SeqNum, S \cap T = {}
      PROVE  Cardinality(S \cup T) = Cardinality(S) + Cardinality(T)
  <2>1. Cardinality(S \cup T) = Cardinality(S) + Cardinality(T) - Cardinality(S \cap T)
    BY <1>2, FS_Union
  <2>2. Cardinality(S \cap T) = 0
    BY <1>3, FS_EmptySet
  <2> QED BY <2>1, <2>2, <1>2
<1> QED BY <1>2, <1>3

\* ... and of the numbers of a range
LEMMA RunSize ==
  ASSUME NEW a \in Int, NEW b \in Int, a <= b
  PROVE  Cardinality(a .. b) = b - a + 1
<1>1. Cardinality(a .. b) = IF a > b THEN 0 ELSE b - a + 1
  BY FS_Interval
<1> QED BY <1>1

\* x is less than THRESHOLD above lo, so that comparisons are those of integers
InWindow(x, lo) == x \in SeqNum /\ lo <= x /\ x - lo < THRESHOLD

\* In a window, on which side of the wrap makes no difference
LEMMA WindowOrder ==
  ASSUME NEW lo \in SeqNum, NEW x, NEW y, InWindow(x, lo), InWindow(y, lo)
  PROVE  /\ Lt(x, y) <=> x < y
         /\ Gt(x, y) <=> x > y
         /\ Leq(x, y) <=> x <= y
         /\ Geq(x, y) <=> x >= y
         /\ x <= y => Seqlen(x, y) = y - x + 1
         /\ x < y => Plus(x, 1) = x + 1 /\ InWindow(x + 1, lo)
         /\ x < y => Minus(y, 1) = y - 1 /\ InWindow(y - 1, lo)
         /\ x \in 0 .. MAX /\ y - x < THRESHOLD
<1>1. /\ x \in 0 .. MAX /\ y \in 0 .. MAX /\ lo \in 0 .. MAX /\ MAX \in Nat
      /\ lo <= x /\ x - lo < THRESHOLD /\ lo <= y /\ y - lo < THRESHOLD /\ THRESHOLD \in Nat
  BY SequenceNumberAssumption DEF InWindow, SeqNum
<1>2. Near(x, y) /\ y - x < THRESHOLD
  BY <1>1 DEF Near
<1> QED BY <1>1, <1>2 DEF Lt, Gt, Leq, Geq, Seqlen, Plus, Minus, InWindow, SeqNum

\* piece is range r without the numbers from start to end
IsCut(piece, r, start, end) ==
    /\ Sorted(piece.left)
    /\ Covered(piece.left) = (r.first .. r.second) \ (start .. end)
    /\ piece.lost = Cardinality((r.first .. r.second) \cap (start .. end))

\* A range that shares no number with [start, end] is left as it is
LEMMA UncutRange ==
  ASSUME NEW r \in OneRange, r.first <= r.second, r.second - r.first < THRESHOLD,
         NEW start \in SeqNum, NEW end \in SeqNum, r.second < start \/ end < r.first
  PROVE  IsCut([left |-> <<r>>, lost |-> 0], r, start, end)
<1>1. r = Interval(r.first, r.second) /\ r.first \in SeqNum /\ r.second \in SeqNum
  BY DEF OneRange, Interval
<1>2. Sorted(<<r>>) /\ Covered(<<r>>) = r.first .. r.second
  BY <1>1, FewRanges
<1>3. (r.first .. r.second) \cap (start .. end) = {}
  BY <1>1, SequenceNumberAssumption DEF SeqNum
<1>4. Cardinality({}) = 0
  BY FS_EmptySet
<1> QED BY <1>2, <1>3, <1>4 DEF IsCut

\* A range whose end is among the numbers removed
LEMMA CutTailCuts ==
  ASSUME NEW lo \in SeqNum, NEW r \in OneRange, InWindow(r.first, lo), InWindow(r.second, lo),
         NEW start, NEW end, InWindow(start, lo), InWindow(end, lo),
         r.first <= r.second, start <= r.second, r.second <= end
  PROVE  IsCut(CutTail(r, start), r, start, end)
<1> DEFINE f == r.first
           s == r.second
<1>1. f \in 0 .. MAX /\ s \in 0 .. MAX /\ start \in 0 .. MAX /\ end \in 0 .. MAX /\ MAX \in Nat
  BY SequenceNumberAssumption DEF InWindow, SeqNum
<1>2. CASE start <= f
  <2>1. CutTail(r, start) = [left |-> <<>>, lost |-> s - f + 1]
    BY <1>2, WindowOrder DEF CutTail
  <2>2. (f .. s) \ (start .. end) = {} /\ (f .. s) \cap (start .. end) = f .. s
    BY <1>1, <1>2
  <2>3. Cardinality(f .. s) = s - f + 1
    <3>1. f \in Int /\ s \in Int /\ f <= s
      BY <1>1
    <3> QED BY <3>1, RunSize
  <2>4. /\ CutTail(r, start).left = <<>> /\ CutTail(r, start).lost = s - f + 1
        /\ Sorted(<<>>) /\ Covered(<<>>) = {}
    BY <2>1, FewRanges
  <2> QED BY <2>2, <2>3, <2>4 DEF IsCut
<1>3. CASE f < start
  <2>1. CutTail(r, start) = [left |-> <<Interval(f, start - 1)>>, lost |-> s - start + 1]
    <3>1. (Leq(start, f) <=> start <= f) /\ (f < start => Minus(start, 1) = start - 1)
      BY WindowOrder
    <3>2. Seqlen(start, s) = s - start + 1
      BY WindowOrder
    <3>3. ~Leq(start, f) /\ Minus(start, 1) = start - 1
      BY <3>1, <1>1, <1>3
    <3>4. [r EXCEPT !.second = start - 1] = Interval(f, start - 1)
      BY DEF OneRange, Interval
    <3> QED BY <3>2, <3>3, <3>4 DEF CutTail
  <2>2. (f .. s) \ (start .. end) = f .. start - 1 /\ (f .. s) \cap (start .. end) = start .. s
    BY <1>1, <1>3
  <2>3. Cardinality(start .. s) = s - start + 1
    BY <1>1, RunSize
  <2>4. f \in SeqNum /\ start - 1 \in SeqNum /\ f <= start - 1 /\ start - 1 - f < THRESHOLD
    BY <1>1, <1>3, SequenceNumberAssumption DEF InWindow, SeqNum
  <2>5. Sorted(<<Interval(f, start - 1)>>) /\ Covered(<<Interval(f, start - 1)>>) = f .. start - 1
    BY <2>4, FewRanges
  <2>6. CutTail(r, start).left = <<Interval(f, start - 1)>> /\ CutTail(r, start).lost = s - start + 1
    BY <2>1
  <2> QED BY <2>2, <2>3, <2>5, <2>6 DEF IsCut
<1> QED BY <1>1, <1>2, <1>3

\* The range in which the numbers removed end
LEMMA CutHeadCuts ==
  ASSUME NEW lo \in SeqNum, NEW r \in OneRange, InWindow(r.first, lo), InWindow(r.second, lo),
         NEW start, NEW end, InWindow(start, lo), InWindow(end, lo),
         r.first <= r.second, start <= end, end < r.second
  PROVE  IsCut(CutHead(r, start, end), r, start, end)
<1> DEFINE f == r.first
           s == r.second
<1>1. f \in 0 .. MAX /\ s \in 0 .. MAX /\ start \in 0 .. MAX /\ end \in 0 .. MAX /\ MAX \in Nat
  BY SequenceNumberAssumption DEF InWindow, SeqNum
<1>2. s - f < THRESHOLD
  BY WindowOrder
<1>3. CASE end < f
  <2>1. CutHead(r, start, end) = [left |-> <<r>>, lost |-> 0]
    BY <1>1, <1>3, WindowOrder DEF CutHead
  <2> QED BY <2>1, <1>1, <1>2, <1>3, UncutRange DEF SeqNum
<1>4. CASE f <= end /\ start <= f
  <2>1. CutHead(r, start, end) = [left |-> <<Interval(end + 1, s)>>, lost |-> end - f + 1]
    <3>1. Leq(f, end) /\ Leq(start, f) /\ Plus(end, 1) = end + 1 /\ Seqlen(f, end) = end - f + 1
      BY <1>1, <1>4, WindowOrder
    <3>2. [r EXCEPT !.first = end + 1] = Interval(end + 1, s)
      BY DEF OneRange, Interval
    <3> QED BY <3>1, <3>2 DEF CutHead
  <2>2. (f .. s) \ (start .. end) = end + 1 .. s /\ (f .. s) \cap (start .. end) = f .. end
    BY <1>1, <1>4
  <2>3. Cardinality(f .. end) = end - f + 1
    <3>1. f \in Int /\ end \in Int /\ f <= end
      BY <1>1, <1>4
    <3> QED BY <3>1, RunSize
  <2>4. end + 1 \in SeqNum /\ s \in SeqNum /\ end + 1 <= s /\ s - (end + 1) < THRESHOLD
    BY <1>1, <1>2, <1>4, SequenceNumberAssumption DEF SeqNum
  <2>5. Sorted(<<Interval(end + 1, s)>>) /\ Covered(<<Interval(end + 1, s)>>) = end + 1 .. s
    BY <2>4, FewRanges
  <2>6. CutHead(r, start, end).left = <<Interval(end + 1, s)>> /\ CutHead(r, start, end).lost = end - f + 1
    BY <2>1
  <2> QED BY <2>2, <2>3, <2>5, <2>6 DEF IsCut
<1>5. CASE f < start
  <2> DEFINE before == <<Interval(f, start - 1)>>
             after == <<Interval(end + 1, s)>>
  <2>1. CutHead(r, start, end) = [left |-> before \o after, lost |-> end - start + 1]
    <3>1. /\ Leq(f, end) /\ ~Leq(start, f) /\ Plus(end, 1) = end + 1 /\ Minus(start, 1) = start - 1
          /\ Seqlen(start, end) = end - start + 1
      <4>1. (Leq(f, end) <=> f <= end) /\ (Leq(start, f) <=> start <= f)
        BY WindowOrder
      <4>2. (end < s => Plus(end, 1) = end + 1) /\ (f < start => Minus(start, 1) = start - 1)
        BY WindowOrder
      <4>3. Seqlen(start, end) = end - start + 1
        BY WindowOrder
      <4> QED BY <4>1, <4>2, <4>3, <1>1, <1>5
    <3> QED BY <3>1 DEF CutHead, SplitAround
  <2>2. /\ (f .. s) \ (start .. end) = (f .. start - 1) \cup (end + 1 .. s)
        /\ (f .. s) \cap (start .. end) = start .. end
    BY <1>1, <1>5
  <2>3. Cardinality(start .. end) = end - start + 1
    BY <1>1, <1>5, RunSize
  <2>4. /\ f \in SeqNum /\ start - 1 \in SeqNum /\ f <= start - 1 /\ start - 1 - f < THRESHOLD
        /\ end + 1 \in SeqNum /\ s \in SeqNum /\ end + 1 <= s /\ s - (end + 1) < THRESHOLD
    BY <1>1, <1>2, <1>5, SequenceNumberAssumption DEF SeqNum
  <2>5. /\ Sorted(before) /\ Covered(before) = f .. start - 1
        /\ Sorted(after) /\ Covered(after) = end + 1 .. s
    BY <2>4, FewRanges
  <2> HIDE DEF before, after
  <2>6. \A x \in f .. start - 1, y \in end + 1 .. s : x < y
    BY <1>1
  <2>7. Sorted(before \o after) /\ Covered(before \o after) = (f .. start - 1) \cup (end + 1 .. s)
    BY <2>5, <2>6, ConcatSorted
  <2>8. CutHead(r, start, end).left = before \o after /\ CutHead(r, start, end).lost = end - start + 1
    BY <2>1
  <2> QED BY <2>2, <2>3, <2>7, <2>8 DEF IsCut
<1> QED BY <1>1, <1>3, <1>4, <1>5

\* The i-th range, the ones before it and the ones after it
LEMMA BetweenSplits ==
  ASSUME NEW rs, Sorted(rs), NEW a \in 1 .. Len(rs), NEW b \in 1 .. Len(rs), NEW i \in a .. b
  PROVE  /\ Between(rs, a, b) =
                Between(rs, a, i - 1) \cup (rs[i].first .. rs[i].second) \cup Between(rs, i + 1, b)
         /\ \A x \in Between(rs, a, i - 1) : x < rs[i].first
         /\ \A x \in Between(rs, i + 1, b) : rs[i].second < x
         /\ rs[i].first .. rs[i].second \subseteq SeqNum
<1>1. Len(rs) \in Nat /\ i \in 1 .. Len(rs) /\ MAX \in Nat
  BY EndsCovered, SequenceNumberAssumption
<1>2. \A j \in 1 .. Len(rs) : rs[j].first \in 0 .. MAX /\ rs[j].second \in 0 .. MAX
  BY EndsCovered
<1>3. rs[i].first .. rs[i].second \subseteq SeqNum
  BY <1>1, <1>2 DEF SeqNum
<1>4. ASSUME NEW x \in SeqNum
      PROVE  /\ x \in rs[i].first .. rs[i].second <=> rs[i].first <= x /\ x <= rs[i].second
             /\ x \in Nat
  BY <1>1, <1>2, SequenceNumberAssumption DEF SeqNum
<1>5. \A j : j \in a .. b <=> j \in a .. i - 1 \/ j = i \/ j \in i + 1 .. b
  BY <1>1
<1>6. Between(rs, a, b) =
         Between(rs, a, i - 1) \cup (rs[i].first .. rs[i].second) \cup Between(rs, i + 1, b)
  BY <1>3, <1>4, <1>5 DEF Between
<1>7. ASSUME NEW x \in Between(rs, a, i - 1) PROVE x < rs[i].first
  <2>1. x \in Nat
    BY <1>4 DEF Between
  <2>2. PICK j \in a .. i - 1 : x <= rs[j].second
    BY DEF Between
  <2>3. j \in 1 .. Len(rs) /\ j < i
    BY <1>1
  <2>4. rs[j].second < rs[i].first
    BY <1>1, <2>3 DEF Sorted
  <2> QED BY <1>1, <1>2, <2>1, <2>2, <2>3, <2>4
<1>8. ASSUME NEW x \in Between(rs, i + 1, b) PROVE rs[i].second < x
  <2>1. x \in Nat
    BY <1>4 DEF Between
  <2>2. PICK j \in i + 1 .. b : rs[j].first <= x
    BY DEF Between
  <2>3. j \in 1 .. Len(rs) /\ i < j
    BY <1>1
  <2>4. rs[i].second < rs[j].first
    BY <1>1, <2>3 DEF Sorted
  <2> QED BY <1>1, <1>2, <2>1, <2>2, <2>3, <2>4
<1> QED BY <1>3, <1>6, <1>7, <1>8

\* A loop from range k to range j leaves each range without [start, end]
AllCut(l, k, j, start, end) ==
    \A i \in 1 .. Len(l.ranges) : IsCut(CutAt(l, i, k, j, start, end), l.ranges[i], start, end)

\* If each range is left without the numbers from start to end, so is the list
LEMMA CutIsDifference ==
  ASSUME NEW l, SortedList(l), NEW k, NEW j, NEW start \in SeqNum, NEW end \in SeqNum,
         AllCut(l, k, j, start, end)
  PROVE  /\ SortedList(Cut(l, k, j, start, end))
         /\ Members(Cut(l, k, j, start, end)) = Members(l) \ (start .. end)
<1> DEFINE rs == l.ranges
           n == Len(rs)
           At(i) == CutAt(l, i, k, j, start, end)
           S == [ranges : Seq(OneRange), length : Int]
           none == [ranges |-> <<>>, length |-> l.length]
           Turn(x, i) == [ranges |-> x.ranges \o At(i).left, length |-> x.length - At(i).lost]
           turn == [p \in (0 + 1 .. n) \X S |-> Turn(p[2], p[1])]
           cut == CHOOSE cut : cut = [i \in 0 .. n |-> IF i = 0 THEN none ELSE Turn(cut[i - 1], i)]
<1>1. /\ n \in Nat /\ Sorted(rs) /\ Members(l) = Covered(rs) /\ l.length = Cardinality(Members(l))
      /\ Covered(rs) \in SUBSET SeqNum
  BY ListOfRanges, EndsCovered DEF Covered, Between
<1>2. l.length \in Int /\ none \in S
  BY <1>1, Sizes
<1>3. ASSUME NEW i \in 1 .. n
      PROVE  At(i).left \in Seq(OneRange) /\ At(i).lost \in Int /\ Sorted(At(i).left)
  <2>1. IsCut(At(i), rs[i], start, end)
    BY DEF AllCut
  <2>2. (rs[i].first .. rs[i].second) \cap (start .. end) \in SUBSET SeqNum
    BY SequenceNumberAssumption DEF SeqNum
  <2>3. At(i).lost \in Int
    BY <2>1, <2>2, Sizes DEF IsCut
  <2> QED BY <2>1, <2>3 DEF IsCut, Sorted
<1> HIDE DEF At
<1>4. ASSUME NEW i \in 1 .. n, NEW x \in S PROVE Turn(x, i) \in S
  <2>1. x.ranges \o At(i).left \in Seq(OneRange)
    BY <1>3, ConcatProperties
  <2> QED BY <1>3, <2>1
<1>5. cut = [i \in 0 .. n |-> IF i = 0 THEN none ELSE Turn(cut[i - 1], i)]
  <2>1. turn \in [(0 + 1 .. n) \X S -> S]
    BY <1>4
  <2>2. PICK h \in [0 .. n -> S] : h[0] = none /\ \A i \in 0 + 1 .. n : h[i] = turn[<<i, h[i - 1]>>]
    <3> HIDE DEF turn, S, none, n
    <3>1. 0 \in Nat /\ n \in Nat /\ 0 <= n
      BY <1>1
    <3>2. Runs(S, none, 0, n, turn) # {}
      BY <3>1, <1>2, <2>1, LoopRuns
    <3> QED BY <3>2 DEF Runs
  <2>3. ASSUME NEW i \in 1 .. n PROVE h[i] = Turn(h[i - 1], i)
    <3>1. h[i - 1] \in S /\ i \in 0 + 1 .. n
      <4> HIDE DEF S
      <4> QED BY <1>1, <2>2
    <3>2. <<i, h[i - 1]>> \in (0 + 1 .. n) \X S
      BY <3>1
    <3>3. turn[<<i, h[i - 1]>>] = Turn(h[i - 1], i)
      <4> HIDE DEF S, Turn
      <4> QED BY <3>2
    <3> HIDE DEF S, Turn, turn
    <3> QED BY <2>2, <3>1, <3>3
  <2>4. h = [i \in 0 .. n |-> IF i = 0 THEN none ELSE Turn(h[i - 1], i)]
    <3> HIDE DEF S, Turn, turn, none
    <3> QED BY <1>1, <2>2, <2>3
  <2> HIDE DEF Turn, none
  <2> QED BY <2>4
<1>6. Cut(l, k, j, start, end) = cut[n]
  BY DEF Cut, At
<1> HIDE DEF cut
<1>7. cut[0] = none /\ \A i \in 1 .. n : cut[i] = Turn(cut[i - 1], i)
  <2>1. \A i \in 0 .. n : cut[i] = IF i = 0 THEN none ELSE Turn(cut[i - 1], i)
    <3> HIDE DEF none, Turn, n
    <3> QED BY <1>5
  <2> HIDE DEF none, Turn
  <2> QED BY <1>1, <2>1
<1>70. /\ cut[0].ranges = <<>> /\ cut[0].length = l.length
       /\ \A i \in 1 .. n : /\ cut[i].ranges = cut[i - 1].ranges \o At(i).left
                            /\ cut[i].length = cut[i - 1].length - At(i).lost
  <2>1. cut[0].ranges = <<>> /\ cut[0].length = l.length
    BY <1>7
  <2>2. ASSUME NEW i \in 1 .. n
        PROVE  /\ cut[i].ranges = cut[i - 1].ranges \o At(i).left
               /\ cut[i].length = cut[i - 1].length - At(i).lost
    <3> DEFINE old == cut[i - 1]
    <3>1. cut[i] = Turn(old, i)
      <4> HIDE DEF Turn
      <4> QED BY <1>7
    <3> HIDE DEF old
    <3>2. Turn(old, i).ranges = old.ranges \o At(i).left /\ Turn(old, i).length = old.length - At(i).lost
      OBVIOUS
    <3> HIDE DEF Turn
    <3> QED BY <3>1, <3>2 DEF old
  <2> QED BY <2>1, <2>2
<1> DEFINE Upto(i) == Between(rs, 1, i)
           Good == {i \in 0 .. n :
                    /\ Sorted(cut[i].ranges)
                    /\ Covered(cut[i].ranges) = Upto(i) \ (start .. end)
                    /\ cut[i].length = l.length - Cardinality(Upto(i) \cap (start .. end))}
<1>8. 0 \in Good
  <2>1. Upto(0) = {}
    BY DEF Between
  <2>2. Cardinality({}) = 0
    BY FS_EmptySet
  <2>3. Sorted(cut[0].ranges) /\ Covered(cut[0].ranges) = {}
    BY <1>70, FewRanges
  <2>4. Upto(0) \ (start .. end) = {} /\ Upto(0) \cap (start .. end) = {}
    BY <2>1
  <2>5. cut[0].length = l.length - 0
    BY <1>2, <1>70
  <2>6. cut[0].length = l.length - Cardinality(Upto(0) \cap (start .. end))
    BY <2>2, <2>4, <2>5
  <2>7. Covered(cut[0].ranges) = Upto(0) \ (start .. end)
    BY <2>3, <2>4
  <2>8. 0 \in 0 .. n
    BY <1>1
  <2> HIDE DEF Upto, n
  <2> QED BY <2>3, <2>6, <2>7, <2>8
<1>9. ASSUME NEW i \in 1 .. n, i - 1 \in Good PROVE i \in Good
  <2> DEFINE r == rs[i].first .. rs[i].second
             old == cut[i - 1]
             gone == start .. end
  <2>1. Upto(i) = Upto(i - 1) \cup r /\ (\A x \in Upto(i - 1) : x < rs[i].first) /\ r \subseteq SeqNum
    <3>1. i \in 1 .. i /\ 1 \in 1 .. n /\ Between(rs, i + 1, i) = {}
      BY <1>1 DEF Between
    <3> QED BY <1>1, <3>1, BetweenSplits
  <2>2. /\ Sorted(old.ranges) /\ Covered(old.ranges) = Upto(i - 1) \ gone
        /\ old.length = l.length - Cardinality(Upto(i - 1) \cap gone)
    BY <1>9
  <2>3. Sorted(At(i).left) /\ Covered(At(i).left) = r \ gone /\ At(i).lost = Cardinality(r \cap gone)
    BY DEF AllCut, IsCut, At
  <2>4. cut[i].ranges = old.ranges \o At(i).left /\ cut[i].length = old.length - At(i).lost
    BY <1>70
  <2>5. Upto(i - 1) \in SUBSET SeqNum /\ rs[i].first \in 0 .. MAX
    BY <1>1, EndsCovered DEF Between
  <2>6. \A x \in Upto(i - 1), y \in r : x < y
    BY <2>1, <2>5, SequenceNumberAssumption DEF SeqNum
  <2>7. (\A x \in Covered(old.ranges), y \in Covered(At(i).left) : x < y) /\ Upto(i - 1) \cap r = {}
    <3>1. \A x \in Upto(i - 1) : x \notin r
      BY <2>6, <2>5, SequenceNumberAssumption DEF SeqNum
    <3> HIDE DEF r, gone, Upto
    <3> QED BY <2>2, <2>3, <2>6, <3>1
  <2> HIDE DEF r, gone, Upto, old
  <2>8. Sorted(cut[i].ranges) /\ Covered(cut[i].ranges) = Upto(i) \ gone
    <3>1. /\ Sorted(old.ranges \o At(i).left)
          /\ Covered(old.ranges \o At(i).left) = Covered(old.ranges) \cup Covered(At(i).left)
      BY <2>2, <2>3, <2>7, ConcatSorted
    <3> QED BY <2>1, <2>2, <2>3, <2>4, <3>1
  <2>9. Cardinality(Upto(i) \cap gone) = Cardinality(Upto(i - 1) \cap gone) + Cardinality(r \cap gone)
    <3>1. /\ Upto(i) \cap gone = (Upto(i - 1) \cap gone) \cup (r \cap gone)
          /\ (Upto(i - 1) \cap gone) \cap (r \cap gone) = {}
          /\ Upto(i - 1) \cap gone \in SUBSET SeqNum /\ r \cap gone \in SUBSET SeqNum
      BY <2>1, <2>5, <2>7
    <3> QED BY <3>1, Sizes
  <2>10. cut[i].length = l.length - Cardinality(Upto(i) \cap gone)
    <3>1. Cardinality(Upto(i - 1) \cap gone) \in Nat /\ Cardinality(r \cap gone) \in Nat
      <4>1. Upto(i - 1) \cap gone \in SUBSET SeqNum /\ r \cap gone \in SUBSET SeqNum
        BY <2>1, <2>5
      <4> QED BY <4>1, Sizes
    <3> QED BY <3>1, <2>2, <2>3, <2>4, <2>9, <1>2
  <2> QED BY <2>8, <2>10 DEF gone, Upto
<1>10. n \in Good
  <2> HIDE DEF Good
  <2>1. \A i \in 0 + 1 .. n : i - 1 \in Good => i \in Good
    BY <1>9
  <2>2. n \in 0 .. n
    BY <1>1
  <2> HIDE DEF n
  <2> QED BY <1>1, <1>8, <2>1, <2>2, EveryTurn
<1>11. /\ Sorted(cut[n].ranges) /\ Covered(cut[n].ranges) = Covered(rs) \ (start .. end)
       /\ cut[n].length = Cardinality(Covered(rs)) - Cardinality(Covered(rs) \cap (start .. end))
  BY <1>1, <1>10 DEF Covered
<1>12. Cardinality(Covered(rs) \ (start .. end)) =
          Cardinality(Covered(rs)) - Cardinality(Covered(rs) \cap (start .. end))
  <2> DEFINE gone == start .. end
             M == Covered(rs)
  <2>1. M \ gone \in SUBSET SeqNum /\ M \cap gone \in SUBSET SeqNum
    BY <1>1
  <2>2. (M \ gone) \cap (M \cap gone) = {} /\ M = (M \ gone) \cup (M \cap gone)
    OBVIOUS
  <2> HIDE DEF gone, M
  <2>3. Cardinality(M) = Cardinality(M \ gone) + Cardinality(M \cap gone)
    BY <2>1, <2>2, Sizes
  <2>4. Cardinality(M \ gone) \in Nat /\ Cardinality(M \cap gone) \in Nat
    BY <2>1, Sizes
  <2>5. Cardinality(M \ gone) = Cardinality(M) - Cardinality(M \cap gone)
    BY <2>3, <2>4
  <2> QED BY <2>5 DEF gone, M
<1>13. Members(cut[n]) = Covered(rs) \ (start .. end)
  BY <1>11, ListOfRanges
<1> QED BY <1>1, <1>6, <1>11, <1>12, <1>13, ListOfRanges

\* A search finds the first match
LEMMA MinIsFirst ==
  ASSUME NEW T, T \subseteq Nat, T # {}
  PROVE  Min(T) \in T /\ \A i \in T : Min(T) <= i
<1>1. PICK m \in T : \A i \in T : ~ (<<i, m>> \in OpToRel(<, Nat))
  BY NatLessThanWellFounded, WFMin
<1>2. ASSUME NEW i \in T PROVE m <= i
  <2>1. ~(i < m) /\ i \in Nat /\ m \in Nat
    BY <1>1 DEF OpToRel
  <2> QED BY <2>1
<1> QED BY <1>2 DEF Min

\* A range in a window is found by integer comparisons
LEMMA RangesInWindow ==
  ASSUME NEW l, SortedList(l), NEW lo \in SeqNum, \A x \in Members(l) : InWindow(x, lo)
  PROVE  \A i \in 1 .. Len(l.ranges) : InWindow(l.ranges[i].first, lo) /\ InWindow(l.ranges[i].second, lo)
<1>1. Sorted(l.ranges) /\ Members(l) = Covered(l.ranges)
  BY ListOfRanges
<1> QED BY <1>1, EndsCovered

\* remove takes out the numbers from start to end, those that are there
LEMMA RemoveRangeIsDifference ==
  ASSUME NEW l, SortedList(l), NEW lo \in SeqNum, \A x \in Members(l) : InWindow(x, lo),
         NEW start, NEW end, InWindow(start, lo), InWindow(end, lo), start <= end
  PROVE  /\ SortedList(RemoveRange(l, start, end))
         /\ Members(RemoveRange(l, start, end)) = Members(l) \ (start .. end)
<1> DEFINE rs == l.ranges
           n == Len(rs)
           Shares(i) == \/ Leq(rs[i].first, start) /\ Leq(start, rs[i].second)
                        \/ Leq(start, rs[i].first) /\ Leq(rs[i].first, end)
           T == {i \in 1 .. n : Shares(i)}
           k == IF T # {} THEN Min(T) ELSE 0
           U == {i \in k .. n : ~Geq(end, rs[i].second)}
           stop == IF U # {} THEN Min(U) ELSE 0
           j == IF stop = 0 THEN n + 1 ELSE stop
<1>1. n \in Nat /\ Sorted(rs) /\ Members(l) = Covered(rs)
  BY ListOfRanges, EndsCovered
<1>2. start \in 0 .. MAX /\ end \in 0 .. MAX /\ MAX \in Nat /\ start \in SeqNum /\ end \in SeqNum
  BY SequenceNumberAssumption DEF InWindow, SeqNum
<1>3. ASSUME NEW i \in 1 .. n
      PROVE  /\ InWindow(rs[i].first, lo) /\ InWindow(rs[i].second, lo)
             /\ rs[i] \in OneRange /\ rs[i].first \in 0 .. MAX /\ rs[i].second \in 0 .. MAX
             /\ rs[i].first <= rs[i].second /\ rs[i].second - rs[i].first < THRESHOLD
             /\ Shares(i) <=> start <= rs[i].second /\ rs[i].first <= end
             /\ Geq(end, rs[i].second) <=> end >= rs[i].second
  <2>1. /\ rs[i] \in OneRange /\ rs[i].first \in 0 .. MAX /\ rs[i].second \in 0 .. MAX
        /\ InWindow(rs[i].first, lo) /\ InWindow(rs[i].second, lo)
    BY <1>1, EndsCovered, RangesInWindow
  <2>2. rs[i].first <= rs[i].second /\ rs[i].second - rs[i].first < THRESHOLD
    BY <1>1 DEF Sorted
  <2>3. /\ Leq(rs[i].first, start) <=> rs[i].first <= start
        /\ Leq(start, rs[i].second) <=> start <= rs[i].second
        /\ Leq(start, rs[i].first) <=> start <= rs[i].first
        /\ Leq(rs[i].first, end) <=> rs[i].first <= end
        /\ Geq(end, rs[i].second) <=> end >= rs[i].second
    <3> DEFINE f == rs[i].first
               s == rs[i].second
    <3>1. InWindow(f, lo) /\ InWindow(s, lo)
      BY <2>1
    <3> HIDE DEF f, s
    <3>2. Leq(f, start) <=> f <= start
      BY <3>1, WindowOrder
    <3>3. Leq(start, s) <=> start <= s
      BY <3>1, WindowOrder
    <3>4. Leq(start, f) <=> start <= f
      BY <3>1, WindowOrder
    <3>5. Leq(f, end) <=> f <= end
      BY <3>1, WindowOrder
    <3>6. Geq(end, s) <=> end >= s
      BY <3>1, WindowOrder
    <3> QED BY <3>2, <3>3, <3>4, <3>5, <3>6 DEF f, s
  <2> QED BY <1>2, <2>1, <2>2, <2>3
<1>4. \A h, i \in 1 .. n : h < i => rs[h].second < rs[i].first
  BY <1>1 DEF Sorted
<1>5. RemoveRange(l, start, end) = IF k = 0 THEN l ELSE Cut(l, k, j, start, end)
  BY DEF RemoveRange, SelectInSeq, SelectInSubSeq
<1>6. CASE T = {}
  <2>1. k = 0
    BY <1>6
  <2>2. ASSUME NEW x \in Members(l) PROVE x \notin start .. end
    <3>1. PICK i \in 1 .. n : rs[i].first <= x /\ x <= rs[i].second
      BY <1>1 DEF Covered, Between
    <3>2. ~Shares(i)
      BY <1>6
    <3>3. x \in Nat
      BY <1>1, SequenceNumberAssumption DEF Covered, Between, SeqNum
    <3> HIDE DEF Shares
    <3> QED BY <1>2, <1>3, <3>1, <3>2, <3>3
  <2>3. Members(l) \ (start .. end) = Members(l)
    BY <2>2
  <2>4. RemoveRange(l, start, end) = l
    BY <1>5, <2>1
  <2> QED BY <2>3, <2>4
<1>7. CASE T # {}
  <2>1. k \in 1 .. n /\ Shares(k) /\ \A i \in 1 .. n : i < k => ~Shares(i)
    <3>1. k \in T /\ \A i \in T : k <= i
      <4>1. T \subseteq Nat
        OBVIOUS
      <4> HIDE DEF T
      <4> QED BY <4>1, <1>7, MinIsFirst
    <3> HIDE DEF k, Shares
    <3> QED BY <1>1, <3>1
  <2>2. /\ j \in k .. n + 1
        /\ \A i \in k .. n : i < j => Geq(end, rs[i].second)
        /\ j \in 1 .. n => ~Geq(end, rs[j].second)
    <3> HIDE DEF k
    <3>1. CASE U = {}
      BY <1>1, <2>1, <3>1
    <3>2. CASE U # {}
      <4>1. stop \in U /\ \A i \in U : stop <= i
        <5>1. U \subseteq Nat
          BY <2>1
        <5> HIDE DEF U
        <5> QED BY <5>1, <3>2, MinIsFirst
      <4>2. stop \in k .. n /\ j = stop /\ ~Geq(end, rs[stop].second)
        <5> HIDE DEF stop
        <5> QED BY <2>1, <4>1
      <4>3. ASSUME NEW i \in k .. n, i < j PROVE Geq(end, rs[i].second)
        <5>1. i \notin U
          <6> HIDE DEF U, stop, j
          <6> QED BY <2>1, <4>1, <4>2, <4>3
        <5> QED BY <5>1
      <4> HIDE DEF U, stop, j
      <4> QED BY <1>1, <2>1, <4>2, <4>3
    <3> QED BY <3>1, <3>2
  <2> HIDE DEF k, j, Shares
  <2>3. ASSUME NEW i \in 1 .. n
        PROVE  IsCut(CutAt(l, i, k, j, start, end), rs[i], start, end)
    <3>1. CASE i < k
      <4>1. rs[i].second < start \/ end < rs[i].first
        BY <1>2, <1>3, <2>1, <3>1
      <4>2. CutAt(l, i, k, j, start, end) = [left |-> <<rs[i]>>, lost |-> 0]
        BY <3>1 DEF CutAt
      <4> QED BY <1>2, <1>3, <4>1, <4>2, UncutRange
    <3>2. CASE i > j
      <4>1. j \in 1 .. n /\ j < i
        BY <1>1, <2>1, <2>2, <3>2
      <4>2. end < rs[j].second /\ rs[j].second < rs[i].first
        BY <1>2, <1>3, <1>4, <2>2, <4>1
      <4>3. end < rs[i].first
        BY <1>2, <1>3, <4>1, <4>2
      <4>4. CutAt(l, i, k, j, start, end) = [left |-> <<rs[i]>>, lost |-> 0]
        BY <3>2 DEF CutAt
      <4> QED BY <1>2, <1>3, <4>3, <4>4, UncutRange
    <3>3. CASE k <= i /\ i < j
      <4>1. rs[i].second <= end
        <5>1. i \in k .. n
          BY <1>1, <2>1, <3>3
        <5> QED BY <1>2, <1>3, <2>2, <3>3, <5>1
      <4>2. start <= rs[i].second
        <5>1. start <= rs[k].second
          BY <1>3, <2>1
        <5>2. CASE i = k
          BY <5>1, <5>2
        <5>3. CASE k < i
          <6>1. rs[k].second < rs[i].first /\ rs[i].first <= rs[i].second
            BY <1>3, <1>4, <2>1, <5>3
          <6>2. rs[k].second \in Int /\ rs[i].first \in Int /\ rs[i].second \in Int
            BY <1>3, <2>1
          <6> QED BY <1>2, <5>1, <6>1, <6>2
        <5> QED BY <1>1, <2>1, <3>3, <5>2, <5>3
      <4>3. CutAt(l, i, k, j, start, end) = CutTail(rs[i], start)
        <5>1. ~(i < k) /\ ~(i > j) /\ i < j
          BY <1>1, <2>1, <2>2, <3>3
        <5> QED BY <5>1 DEF CutAt
      <4> QED BY <1>3, <4>1, <4>2, <4>3, CutTailCuts
    <3>4. CASE i = j
      <4>1. end < rs[i].second
        BY <1>2, <1>3, <2>2, <3>4
      <4>2. CutAt(l, i, k, j, start, end) = CutHead(rs[i], start, end)
        <5>1. ~(i < k) /\ ~(i > j) /\ ~(i < j)
          BY <1>1, <2>1, <2>2, <3>4
        <5> QED BY <5>1 DEF CutAt
      <4> QED BY <1>3, <4>1, <4>2, CutHeadCuts
    <3> QED BY <1>1, <2>1, <2>2, <3>1, <3>2, <3>3, <3>4
  <2>4. RemoveRange(l, start, end) = Cut(l, k, j, start, end)
    BY <1>5, <2>1
  <2> DEFINE cut == Cut(l, k, j, start, end)
  <2>5. SortedList(cut) /\ Members(cut) = Members(l) \ (start .. end)
    <3>1. AllCut(l, k, j, start, end)
      BY <2>3 DEF AllCut
    <3>2. start \in SeqNum /\ end \in SeqNum
      BY <1>2
    <3>3. SortedList(cut)
      BY <3>1, <3>2, CutIsDifference
    <3>4. Members(cut) = Members(l) \ (start .. end)
      BY <3>1, <3>2, CutIsDifference
    <3> QED BY <3>3, <3>4
  <2> HIDE DEF cut
  <2> QED BY <2>4, <2>5 DEF cut
<1> QED BY <1>6, <1>7

(***************************************************************************)
(* insert(start, end)                                                      *)
(***************************************************************************)

\* The numbers of the ranges before the k-th and after the m-th
Outside(rs, k, m) == Between(rs, 1, k - 1) \cup Between(rs, m + 1, Len(rs))

\* ... which are all below f, and above s
Apart(rs, k, m, f, s) ==
    /\ \A x \in Between(rs, 1, k - 1) : x < f
    /\ \A x \in Between(rs, m + 1, Len(rs)) : s < x

\* The ranges with the k-th to the m-th replaced by one
Replaced(rs, k, m, f, s) == SubSeq(rs, 1, k - 1) \o <<Interval(f, s)>> \o SubSeq(rs, m + 1, Len(rs))

\* ... are in order, and cover what that one does in place of what those did
LEMMA ReplacedByOne ==
  ASSUME NEW rs, Sorted(rs), NEW k \in 1 .. Len(rs) + 1, NEW m \in k - 1 .. Len(rs),
         NEW f \in SeqNum, NEW s \in SeqNum, f <= s, s - f < THRESHOLD,
         Apart(rs, k, m, f, s)
  PROVE  /\ Sorted(Replaced(rs, k, m, f, s))
         /\ Covered(Replaced(rs, k, m, f, s)) = Outside(rs, k, m) \cup (f .. s)
         /\ Cardinality(Covered(Replaced(rs, k, m, f, s))) = Cardinality(Outside(rs, k, m)) + s - f + 1
<1> DEFINE u == Replaced(rs, k, m, f, s)
           n == Len(rs)
           A == SubSeq(rs, 1, k - 1)
           X == <<Interval(f, s)>>
           B == SubSeq(rs, m + 1, n)
           before == Between(rs, 1, k - 1)
           after == Between(rs, m + 1, n)
<1>1. /\ n \in Nat /\ k - 1 \in 0 .. n /\ m + 1 \in 1 .. n + 1 /\ 1 \in 1 .. n + 1 /\ n \in 0 .. n
      /\ f \in 0 .. MAX /\ s \in 0 .. MAX /\ MAX \in Nat
  BY EndsCovered, SequenceNumberAssumption DEF SeqNum
<1>2. before \in SUBSET SeqNum /\ after \in SUBSET SeqNum /\ f .. s \in SUBSET SeqNum
  BY <1>1 DEF Between, SeqNum
<1>3. Sorted(A) /\ Covered(A) = before
  BY <1>1, PartSorted
<1>4. Sorted(B) /\ Covered(B) = after
  BY <1>1, PartSorted
<1>5. Sorted(X) /\ Covered(X) = f .. s
  BY FewRanges
<1>6. /\ \A x \in before, y \in f .. s : x < y
      /\ \A x \in f .. s, y \in after : x < y
      /\ \A x \in before, y \in after : x < y
  <2>1. \A x \in SeqNum : x \in Int
    BY <1>1 DEF SeqNum
  <2>2. /\ \A x \in before : x < f /\ x \in Int
        /\ \A x \in after : s < x /\ x \in Int
    BY <1>2, <2>1 DEF Apart
  <2> HIDE DEF before, after
  <2> QED BY <1>1, <2>2
<1> HIDE DEF A, B, X, before, after
<1>7. Sorted(A \o X) /\ Covered(A \o X) = before \cup (f .. s)
  BY <1>3, <1>5, <1>6, ConcatSorted
<1>8. Sorted((A \o X) \o B) /\ Covered((A \o X) \o B) = before \cup (f .. s) \cup after
  <2>1. \A x \in Covered(A \o X), y \in Covered(B) : x < y
    BY <1>4, <1>6, <1>7
  <2> QED BY <1>4, <1>7, <2>1, ConcatSorted
<1>9. u = (A \o X) \o B
  BY DEF Replaced, A, X, B
<1> HIDE DEF u
<1>10. Covered(u) = (before \cup after) \cup (f .. s)
  BY <1>8, <1>9
<1>11. (before \cup after) \cap (f .. s) = {}
  <2>1. \A x \in f .. s : x \in Int /\ ~(x < x)
    BY <1>1
  <2> QED BY <1>6, <2>1
<1>12. Cardinality(Covered(u)) = Cardinality(before \cup after) + (s - f + 1)
  <2>1. Cardinality(f .. s) = s - f + 1
    <3>1. f \in Int /\ s \in Int
      BY <1>1
    <3> QED BY <3>1, RunSize
  <2>2. before \cup after \in SUBSET SeqNum
    BY <1>2
  <2> QED BY <1>2, <1>10, <1>11, <2>1, <2>2, Sizes
<1>13. Cardinality(before \cup after) \in Nat
  <2>1. before \cup after \in SUBSET SeqNum
    BY <1>2
  <2> QED BY <2>1, Sizes
<1>14. Outside(rs, k, m) = before \cup after
  BY DEF Outside, before, after
<1>15. Sorted(u) /\ Covered(u) = Outside(rs, k, m) \cup (f .. s)
  BY <1>8, <1>9, <1>10, <1>14
<1>16. Cardinality(Covered(u)) = Cardinality(Outside(rs, k, m)) + s - f + 1
  BY <1>1, <1>12, <1>13, <1>14
<1> QED BY <1>15, <1>16 DEF u

\* The ranges from k to i, their numbers and those of the others
LEMMA OutsideSplits ==
  ASSUME NEW rs, Sorted(rs), NEW k \in 1 .. Len(rs), NEW i \in k .. Len(rs)
  PROVE  /\ Outside(rs, k, i - 1) = Outside(rs, k, i) \cup (rs[i].first .. rs[i].second)
         /\ Between(rs, k, i) = Between(rs, k, i - 1) \cup (rs[i].first .. rs[i].second)
         /\ Outside(rs, k, i) \in SUBSET SeqNum
         /\ Cardinality(Outside(rs, k, i)) \in Nat
         /\ Cardinality(Outside(rs, k, i - 1)) =
                Cardinality(Outside(rs, k, i)) + (rs[i].second - rs[i].first + 1)
         /\ Outside(rs, k, k - 1) = Covered(rs)
         /\ Covered(rs) = Outside(rs, k, i) \cup Between(rs, k, i)
<1> DEFINE n == Len(rs)
           r == rs[i].first .. rs[i].second
<1>1. /\ n \in Nat /\ i \in 1 .. n /\ 1 \in 1 .. n /\ n \in 1 .. n
      /\ rs[i].first \in 0 .. MAX /\ rs[i].second \in 0 .. MAX /\ MAX \in Nat
      /\ rs[i].first <= rs[i].second
  <2>1. /\ n \in Nat
        /\ \A h \in 1 .. n : rs[h].first \in 0 .. MAX /\ rs[h].second \in 0 .. MAX
    BY EndsCovered
  <2>2. i \in 1 .. n /\ 1 \in 1 .. n /\ n \in 1 .. n
    BY <2>1
  <2>3. rs[i].first <= rs[i].second
    BY <2>2 DEF Sorted
  <2> QED BY <2>1, <2>2, <2>3, SequenceNumberAssumption
<1>2. /\ Between(rs, i, n) = r \cup Between(rs, i + 1, n)
      /\ \A x \in Between(rs, i + 1, n) : rs[i].second < x
      /\ r \subseteq SeqNum
  <2>1. i \in i .. n /\ Between(rs, i, i - 1) = {}
    BY <1>1 DEF Between
  <2> HIDE DEF r
  <2> QED BY <1>1, <2>1, BetweenSplits DEF r
<1>3. /\ Between(rs, k, i) = Between(rs, k, i - 1) \cup r
  <2>1. i \in k .. i /\ Between(rs, i + 1, i) = {}
    BY <1>1 DEF Between
  <2> QED BY <1>1, <2>1, BetweenSplits
<1>4. \A x \in Between(rs, 1, i - 1) : x < rs[i].first
  <2>1. i \in 1 .. n
    BY <1>1
  <2> QED BY <1>1, <2>1, BetweenSplits
<1>5. Between(rs, 1, k - 1) \subseteq Between(rs, 1, i - 1)
  <2>1. \A h : h \in 1 .. k - 1 => h \in 1 .. i - 1
    BY <1>1
  <2> QED BY <2>1 DEF Between
<1>6. Outside(rs, k, i - 1) = Outside(rs, k, i) \cup r
  <2>1. i - 1 + 1 = i
    BY <1>1
  <2> HIDE DEF r
  <2> QED BY <1>2, <2>1 DEF Outside
<1>7. Outside(rs, k, i) \in SUBSET SeqNum /\ Outside(rs, k, i) \cap r = {}
  <2>1. Outside(rs, k, i) \in SUBSET SeqNum
    BY DEF Outside, Between
  <2>2. \A x \in SeqNum : x \in Int
    BY <1>1 DEF SeqNum
  <2>3. \A x \in Outside(rs, k, i) : x \in Int /\ (x < rs[i].first \/ rs[i].second < x)
    BY <1>2, <1>4, <1>5, <2>1, <2>2 DEF Outside
  <2>4. \A x \in Outside(rs, k, i) : x \notin r
    BY <1>1, <2>3
  <2> QED BY <2>1, <2>4
<1>8. Cardinality(Outside(rs, k, i)) \in Nat
  BY <1>7, Sizes
<1>9. Cardinality(Outside(rs, k, i - 1)) =
          Cardinality(Outside(rs, k, i)) + (rs[i].second - rs[i].first + 1)
  <2>1. Cardinality(r) = rs[i].second - rs[i].first + 1
    <3>1. rs[i].first \in Int /\ rs[i].second \in Int
      BY <1>1
    <3> QED BY <1>1, <3>1, RunSize
  <2>2. r \in SUBSET SeqNum
    BY <1>2
  <2> HIDE DEF r
  <2> QED BY <1>6, <1>7, <2>1, <2>2, Sizes
<1>10. Outside(rs, k, k - 1) = Covered(rs)
  <2>1. \A h : h \in 1 .. n <=> h \in 1 .. k - 1 \/ h \in k - 1 + 1 .. n
    BY <1>1
  <2> QED BY <2>1 DEF Outside, Covered, Between
<1>11. Covered(rs) = Outside(rs, k, i) \cup Between(rs, k, i)
  <2>1. \A h : h \in 1 .. n <=> h \in 1 .. k - 1 \/ h \in k .. i \/ h \in i + 1 .. n
    BY <1>1
  <2> QED BY <2>1 DEF Outside, Covered, Between
<1> QED BY <1>3, <1>6, <1>7, <1>8, <1>9, <1>10, <1>11

\* One turn of the swallowing loop that is not yet done, in a window; x is
\* a number below the range
LEMMA SwallowTurn ==
  ASSUME NEW lo \in SeqNum, NEW acc, NEW r, NEW i \in Nat, NEW x,
         InWindow(acc.second, lo), InWindow(r.first, lo), InWindow(r.second, lo), InWindow(x, lo),
         x < r.first, r.first <= r.second, acc.last = i - 1
  PROVE  /\ acc.second < r.first - 1 => Swallow(acc, r, i) = acc
         /\ acc.second >= r.first - 1 /\ acc.second < r.second =>
                Swallow(acc, r, i) =
                    [second |-> r.second,
                     length |-> acc.length + (r.second - acc.second) - (r.second - r.first + 1),
                     last |-> i]
         /\ acc.second >= r.first - 1 /\ acc.second >= r.second =>
                Swallow(acc, r, i) =
                    [second |-> acc.second,
                     length |-> acc.length + 0 - (r.second - r.first + 1),
                     last |-> i]
<1> DEFINE f == r.first
           s == r.second
           e == acc.second
<1>1. /\ f \in 0 .. MAX /\ s \in 0 .. MAX /\ e \in 0 .. MAX /\ x \in 0 .. MAX /\ MAX \in Nat
  BY SequenceNumberAssumption DEF InWindow, SeqNum
<1>2. InWindow(f, lo) /\ InWindow(s, lo) /\ InWindow(e, lo) /\ x < f /\ f <= s
  OBVIOUS
<1> HIDE DEF f, s, e
<1>3. Minus(f, 1) = f - 1 /\ InWindow(f - 1, lo)
  BY <1>2, WindowOrder
<1>4. Geq(e, f - 1) <=> e >= f - 1
  BY <1>2, <1>3, WindowOrder
<1>5. Lt(e, s) <=> e < s
  BY <1>2, WindowOrder
<1>6. Seqlen(f, s) = s - f + 1
  BY <1>2, WindowOrder
<1>7. e < s => Seqlen(Plus(e, 1), s) = s - e
  <2> SUFFICES ASSUME e < s PROVE Seqlen(Plus(e, 1), s) = s - e
    OBVIOUS
  <2>1. Plus(e, 1) = e + 1 /\ InWindow(e + 1, lo)
    BY <1>2, WindowOrder
  <2>2. e + 1 <= s
    BY <1>1
  <2>3. Seqlen(e + 1, s) = s - (e + 1) + 1
    BY <1>2, <2>1, <2>2, WindowOrder
  <2> QED BY <1>1, <2>1, <2>3
<1>8. ~(acc.last < i - 1)
  OBVIOUS
<1>9. Swallow(acc, r, i) =
        IF e < f - 1 THEN acc
        ELSE [second |-> IF e < s THEN s ELSE e,
              length |-> acc.length + (IF e < s THEN Seqlen(Plus(e, 1), s) ELSE 0) - (s - f + 1),
              last |-> i]
  <2>1. ~Geq(e, Minus(f, 1)) <=> e < f - 1
    BY <1>1, <1>3, <1>4
  <2>2. Swallow(acc, r, i) =
            IF acc.last < i - 1 \/ ~Geq(e, Minus(f, 1)) THEN acc
            ELSE [second |-> IF Lt(e, s) THEN s ELSE e,
                  length |-> acc.length + (IF Lt(e, s) THEN Seqlen(Plus(e, 1), s) ELSE 0) - Seqlen(f, s),
                  last |-> i]
    BY DEF Swallow, e, f, s
  <2> QED BY <1>5, <1>6, <1>8, <2>1, <2>2
<1>10. CASE e < f - 1
  BY <1>1, <1>9, <1>10 DEF e, f, s
<1>11. CASE e >= f - 1 /\ e < s
  <2>1. ~(e < f - 1)
    BY <1>1, <1>11
  <2>2. Swallow(acc, r, i) =
          [second |-> s, length |-> acc.length + (s - e) - (s - f + 1), last |-> i]
    BY <1>7, <1>9, <1>11, <2>1
  <2> QED BY <1>1, <1>11, <2>1, <2>2 DEF e, f, s
<1>12. CASE e >= f - 1 /\ e >= s
  <2>1. ~(e < f - 1) /\ ~(e < s)
    BY <1>1, <1>12
  <2>2. Swallow(acc, r, i) =
          [second |-> e, length |-> acc.length + 0 - (s - f + 1), last |-> i]
    BY <1>9, <2>1
  <2> QED BY <1>1, <1>12, <2>1, <2>2 DEF e, f, s
<1> QED BY <1>1, <1>10, <1>11, <1>12

\* What is true of the extended range after the turn at range i: it covers
\* what it swallowed and what is inserted, and nothing else that is not in
\* the list; it is done when there is a gap before the next range
Grown(acc, rs, k, i, start, end, lo) ==
    LET from == IF start < rs[k].first THEN start ELSE rs[k].first
    IN  /\ acc.last \in k .. i /\ acc.length \in Int
        /\ InWindow(acc.second, lo) /\ from <= acc.second
        /\ from .. acc.second \subseteq Covered(rs) \cup (start .. end)
        /\ Between(rs, k, acc.last) \cup (start .. end) \subseteq from .. acc.second
        /\ acc.length = Cardinality(Outside(rs, k, acc.last)) + acc.second - from + 1
        /\ acc.last < i => acc.second < rs[acc.last + 1].first

\* It is so before the first turn ...
LEMMA GrownFirst ==
  ASSUME NEW l, SortedList(l), NEW lo \in SeqNum, \A x \in Members(l) : InWindow(x, lo),
         NEW start, NEW end, InWindow(start, lo), InWindow(end, lo), start <= end,
         NEW k \in 1 .. Len(l.ranges), start <= l.ranges[k].second, l.ranges[k].first <= end
  PROVE  LET r == l.ranges[k]
             late == Gt(end, r.second)
         IN  Grown([second |-> IF late THEN end ELSE r.second,
                    length |-> l.length
                                + (IF Lt(start, r.first) THEN Seqlen(start, Minus(r.first, 1)) ELSE 0)
                                + (IF late THEN Seqlen(Plus(r.second, 1), end) ELSE 0),
                    last |-> k], l.ranges, k, k, start, end, lo)
<1> DEFINE rs == l.ranges
           f == rs[k].first
           s == rs[k].second
           from == IF start < f THEN start ELSE f
           second == IF end > s THEN end ELSE s
<1>1. Sorted(rs) /\ Members(l) = Covered(rs) /\ l.length = Cardinality(Covered(rs))
  BY ListOfRanges
<1>2. /\ f \in 0 .. MAX /\ s \in 0 .. MAX /\ start \in 0 .. MAX /\ end \in 0 .. MAX /\ MAX \in Nat
      /\ f <= s /\ k \in k .. Len(rs) /\ k \in Nat
  <2>1. f \in 0 .. MAX /\ s \in 0 .. MAX /\ Len(rs) \in Nat
    BY <1>1, EndsCovered
  <2>2. f <= s
    BY <1>1 DEF Sorted
  <2>3. start \in 0 .. MAX /\ end \in 0 .. MAX /\ MAX \in Nat
    BY SequenceNumberAssumption DEF InWindow, SeqNum
  <2> QED BY <2>1, <2>2, <2>3
<1>3. InWindow(f, lo) /\ InWindow(s, lo) /\ start <= s /\ f <= end
  BY RangesInWindow
<1>4. /\ Cardinality(Covered(rs)) = Cardinality(Outside(rs, k, k)) + (s - f + 1)
      /\ Cardinality(Outside(rs, k, k)) \in Nat
      /\ Between(rs, k, k) = f .. s
  <2>1. Between(rs, k, k - 1) = {}
    BY <1>2 DEF Between
  <2>2. /\ Cardinality(Outside(rs, k, k - 1)) = Cardinality(Outside(rs, k, k)) + (s - f + 1)
        /\ Outside(rs, k, k - 1) = Covered(rs)
    BY <1>1, <1>2, OutsideSplits
  <2>3. Cardinality(Outside(rs, k, k)) \in Nat /\ Between(rs, k, k) = Between(rs, k, k - 1) \cup (f .. s)
    BY <1>1, <1>2, OutsideSplits
  <2> QED BY <2>1, <2>2, <2>3
<1>5. f .. s \subseteq Covered(rs)
  BY <1>1, <1>2, <1>4, OutsideSplits
<1> HIDE DEF f, s, rs
<1>6. Gt(end, s) <=> end > s
  BY <1>3, WindowOrder
<1>7. Lt(start, f) <=> start < f
  BY <1>3, WindowOrder
<1>8. start < f => Seqlen(start, Minus(f, 1)) = f - start
  <2> SUFFICES ASSUME start < f PROVE Seqlen(start, Minus(f, 1)) = f - start
    OBVIOUS
  <2>1. Minus(f, 1) = f - 1 /\ InWindow(f - 1, lo)
    BY <1>3, WindowOrder
  <2>2. start <= f - 1
    BY <1>2
  <2>3. Seqlen(start, f - 1) = f - 1 - start + 1
    BY <2>1, <2>2, WindowOrder
  <2> QED BY <1>2, <2>1, <2>3
<1>9. end > s => Seqlen(Plus(s, 1), end) = end - s
  <2> SUFFICES ASSUME s < end PROVE Seqlen(Plus(s, 1), end) = end - s
    BY <1>2
  <2>1. Plus(s, 1) = s + 1 /\ InWindow(s + 1, lo)
    BY <1>3, WindowOrder
  <2>2. s + 1 <= end
    BY <1>2
  <2>3. Seqlen(s + 1, end) = end - (s + 1) + 1
    BY <2>1, <2>2, WindowOrder
  <2> QED BY <1>2, <2>1, <2>3
<1> DEFINE length == l.length + (IF Lt(start, f) THEN Seqlen(start, Minus(f, 1)) ELSE 0)
                               + (IF Gt(end, s) THEN Seqlen(Plus(s, 1), end) ELSE 0)
<1>10. length = Cardinality(Outside(rs, k, k)) + second - from + 1 /\ length \in Int
  <2> DEFINE early == IF start < f THEN f - start ELSE 0
             late == IF end > s THEN end - s ELSE 0
             out == Cardinality(Outside(rs, k, k))
  <2>1. length = l.length + early + late
    BY <1>6, <1>7, <1>8, <1>9
  <2>2. l.length = out + (s - f + 1) /\ out \in Nat
    BY <1>1, <1>4
  <2> HIDE DEF length, out
  <2>3. length = out + second - from + 1 /\ length \in Int
    BY <1>2, <2>1, <2>2
  <2> QED BY <2>3 DEF out
<1>11. /\ InWindow(second, lo) /\ from <= second /\ second \in Int /\ from \in Int
       /\ second = IF Gt(end, s) THEN end ELSE s
  BY <1>2, <1>3, <1>6
<1>12. from .. second \subseteq (f .. s) \cup (start .. end)
  BY <1>2, <1>3
<1>13. (f .. s) \cup (start .. end) \subseteq from .. second
  BY <1>2, <1>3
<1> DEFINE acc == [second |-> second, length |-> length, last |-> k]
<1> HIDE DEF second, length, from
<1>14. k \in k .. k /\ ~(k < k)
  BY <1>1, EndsCovered DEF rs
<1>15. Grown(acc, rs, k, k, start, end, lo)
  <2>1. acc.second = second /\ acc.length = length /\ acc.last = k
    OBVIOUS
  <2> HIDE DEF acc
  <2> QED BY <1>4, <1>5, <1>10, <1>11, <1>12, <1>13, <1>14, <2>1 DEF Grown, from, f
<1> QED BY <1>11, <1>15 DEF length, second, f, s, rs

\* ... and after each
LEMMA GrownNext ==
  ASSUME NEW rs, Sorted(rs), NEW lo \in SeqNum,
         \A x \in Covered(rs) : InWindow(x, lo),
         NEW start, NEW end, InWindow(start, lo), InWindow(end, lo), start <= end,
         NEW k \in 1 .. Len(rs), NEW i \in k + 1 .. Len(rs), NEW acc,
         Grown(acc, rs, k, i - 1, start, end, lo)
  PROVE  Grown(Swallow(acc, rs[i], i), rs, k, i, start, end, lo)
<1> DEFINE from == IF start < rs[k].first THEN start ELSE rs[k].first
           r == rs[i].first .. rs[i].second
           next == Swallow(acc, rs[i], i)
<1>1. /\ Len(rs) \in Nat /\ i \in 1 .. Len(rs) /\ k \in 1 .. Len(rs) /\ k < i
      /\ i \in k .. Len(rs) /\ i \in Nat
  BY EndsCovered
<1>2. /\ rs[i].first \in 0 .. MAX /\ rs[i].second \in 0 .. MAX /\ MAX \in Nat
      /\ rs[i].first <= rs[i].second /\ rs[k].second < rs[i].first
      /\ rs[k].first \in 0 .. MAX /\ start \in 0 .. MAX /\ end \in 0 .. MAX
      /\ from \in 0 .. MAX
  <2>1. \A h \in 1 .. Len(rs) : rs[h].first \in 0 .. MAX /\ rs[h].second \in 0 .. MAX
    BY EndsCovered
  <2>2. rs[i].first <= rs[i].second /\ rs[k].second < rs[i].first
    BY <1>1 DEF Sorted
  <2>3. start \in 0 .. MAX /\ end \in 0 .. MAX /\ MAX \in Nat
    BY SequenceNumberAssumption DEF InWindow, SeqNum
  <2> QED BY <1>1, <2>1, <2>2, <2>3
<1>3. /\ InWindow(rs[i].first, lo) /\ InWindow(rs[i].second, lo) /\ InWindow(rs[k].second, lo)
  BY <1>1, EndsCovered
<1>4. /\ acc.last \in k .. i - 1 /\ acc.length \in Int
      /\ InWindow(acc.second, lo) /\ from <= acc.second
      /\ from .. acc.second \subseteq Covered(rs) \cup (start .. end)
      /\ Between(rs, k, acc.last) \cup (start .. end) \subseteq from .. acc.second
      /\ acc.length = Cardinality(Outside(rs, k, acc.last)) + acc.second - from + 1
      /\ acc.last < i - 1 => acc.second < rs[acc.last + 1].first
  BY DEF Grown
<1> HIDE DEF from
<1>40. ASSUME acc.last = i - 1
       PROVE  /\ acc.second < rs[i].first - 1 => next = acc
              /\ acc.second >= rs[i].first - 1 /\ acc.second < rs[i].second =>
                     next = [second |-> rs[i].second,
                             length |-> acc.length + (rs[i].second - acc.second)
                                        - (rs[i].second - rs[i].first + 1),
                             last |-> i]
              /\ acc.second >= rs[i].first - 1 /\ acc.second >= rs[i].second =>
                     next = [second |-> acc.second,
                             length |-> acc.length + 0 - (rs[i].second - rs[i].first + 1),
                             last |-> i]
  <2>1. /\ InWindow(acc.second, lo) /\ InWindow(rs[i].first, lo) /\ InWindow(rs[i].second, lo)
        /\ InWindow(rs[k].second, lo) /\ rs[k].second < rs[i].first /\ rs[i].first <= rs[i].second
        /\ i \in Nat
    BY <1>1, <1>2, <1>3, <1>4
  <2> QED BY <2>1, <1>40, SwallowTurn
<1>5. CASE next = acc /\ (acc.last < i => acc.second < rs[acc.last + 1].first)
  <2>1. acc.last \in k .. i
    BY <1>1, <1>4
  <2>2. Grown(acc, rs, k, i, start, end, lo)
    BY <1>4, <1>5, <2>1 DEF Grown, from
  <2> QED BY <1>5, <2>2
<1>6. CASE acc.last < i - 1
  <2>1. next = acc
    BY <1>6 DEF Swallow
  <2> QED BY <1>4, <1>5, <1>6, <2>1
<1>7. CASE acc.last = i - 1 /\ acc.second < rs[i].first - 1
  <2>1. next = acc
    BY <1>7, <1>40
  <2>2. acc.second < rs[acc.last + 1].first
    <3>1. acc.last + 1 = i
      BY <1>1, <1>7
    <3>2. acc.second \in Int
      BY <1>4, SequenceNumberAssumption DEF InWindow, SeqNum
    <3> QED BY <1>2, <1>7, <3>1, <3>2
  <2> QED BY <1>5, <2>1, <2>2
<1>8. CASE acc.last = i - 1 /\ acc.second >= rs[i].first - 1
  <2> DEFINE f == rs[i].first
             s == rs[i].second
             e == acc.second
             second == IF e < s THEN s ELSE e
             added == IF e < s THEN s - e ELSE 0
  <2>1. e \in 0 .. MAX /\ InWindow(e, lo) /\ from <= e
    BY <1>4, SequenceNumberAssumption DEF InWindow, SeqNum
  <2>2. next = [second |-> second, length |-> acc.length + added - (s - f + 1), last |-> i]
    <3>1. CASE e < s
      BY <1>8, <1>40, <3>1
    <3>2. CASE e >= s
      <4>1. ~(e < s)
        BY <1>2, <2>1, <3>2
      <4> QED BY <1>8, <1>40, <3>2, <4>1
    <3> QED BY <1>2, <2>1, <3>1, <3>2
  <2>3. /\ Between(rs, k, i) = Between(rs, k, i - 1) \cup (f .. s)
        /\ Cardinality(Outside(rs, k, i)) \in Nat
        /\ Cardinality(Outside(rs, k, i - 1)) = Cardinality(Outside(rs, k, i)) + (s - f + 1)
        /\ f .. s \subseteq Covered(rs)
    BY <1>1, OutsideSplits
  <2>4. f \in Int /\ s \in Int /\ f <= s /\ f - 1 <= e /\ start \in Int /\ end \in Int /\ from \in Int
    BY <1>2, <1>8, <2>1
  <2>5. /\ acc.length = Cardinality(Outside(rs, k, i - 1)) + e - from + 1
        /\ from .. e \subseteq Covered(rs) \cup (start .. end)
        /\ Between(rs, k, i - 1) \cup (start .. end) \subseteq from .. e
        /\ acc.length \in Int
    BY <1>4, <1>8
  <2>6. next.second = second /\ next.length = acc.length + added - (s - f + 1) /\ next.last = i
    BY <2>2
  <2>7. InWindow(second, lo)
    BY <1>3, <2>1
  <2> HIDE DEF f, s, e, next
  <2>8. from .. second \subseteq (from .. e) \cup (f .. s)
    BY <2>1, <2>4
  <2>9. from <= f
    <3>1. rs[k].first <= rs[k].second /\ rs[k].second \in 0 .. MAX
      <4>1. rs[k].first <= rs[k].second
        BY <1>1 DEF Sorted
      <4> QED BY <1>1, <4>1, EndsCovered
    <3>2. from <= rs[k].first
      BY <1>2 DEF from
    <3>3. rs[k].second < f
      BY <1>2 DEF f
    <3> QED BY <1>2, <2>4, <3>1, <3>2, <3>3
  <2>10. (from .. e) \cup (f .. s) \subseteq from .. second
    BY <2>1, <2>4, <2>9
  <2>11. next.length = Cardinality(Outside(rs, k, i)) + second - from + 1 /\ next.length \in Int
    <3> DEFINE out == Cardinality(Outside(rs, k, i))
    <3>1. out \in Nat /\ acc.length = out + (s - f + 1) + e - from + 1
      BY <2>3, <2>5
    <3>2. next.length = acc.length + added - (s - f + 1)
      BY <2>6
    <3>3. second = e + added /\ added \in Int /\ e \in Int
      BY <2>1, <2>4
    <3> HIDE DEF out, second, added
    <3>4. next.length = out + second - from + 1 /\ next.length \in Int
      BY <2>4, <3>1, <3>2, <3>3
    <3> QED BY <3>4 DEF out
  <2>12. from <= second /\ i \in k .. i /\ ~(i < i)
    BY <1>1, <2>1, <2>4
  <2>13. /\ from .. second \subseteq Covered(rs) \cup (start .. end)
         /\ Between(rs, k, i) \cup (start .. end) \subseteq from .. second
    <3> HIDE DEF second
    <3> QED BY <2>3, <2>5, <2>8, <2>10
  <2> HIDE DEF second
  <2>14. Grown(next, rs, k, i, start, end, lo)
    <3>1. /\ next.last \in k .. i /\ next.length \in Int
          /\ InWindow(next.second, lo) /\ from <= next.second
          /\ next.length = Cardinality(Outside(rs, k, next.last)) + next.second - from + 1
          /\ ~(next.last < i)
      BY <2>6, <2>7, <2>11, <2>12
    <3>2. /\ from .. next.second \subseteq Covered(rs) \cup (start .. end)
          /\ Between(rs, k, next.last) \cup (start .. end) \subseteq from .. next.second
      BY <2>6, <2>13
    <3> HIDE DEF next
    <3> QED BY <3>1, <3>2 DEF Grown, from
  <2> QED BY <2>14 DEF next
<1>9. acc.second \in Int /\ acc.last \in Int
  BY <1>1, <1>4, SequenceNumberAssumption DEF InWindow, SeqNum
<1>10. acc.last < i - 1 \/ acc.last = i - 1
  BY <1>1, <1>4, <1>9
<1>11. acc.second < rs[i].first - 1 \/ acc.second >= rs[i].first - 1
  <2>1. rs[i].first \in Int
    BY <1>2
  <2> QED BY <1>9, <2>1
<1> QED BY <1>6, <1>7, <1>8, <1>10, <1>11

\* A turn takes a state of the loop to one
LEMMA SwallowType ==
  ASSUME NEW acc \in [second : SeqNum, length : Int, last : Nat], NEW r \in OneRange, NEW i \in Nat
  PROVE  Swallow(acc, r, i) \in [second : SeqNum, length : Int, last : Nat]
<1>1. \A x, y \in SeqNum : Seqlen(x, y) \in Int
  BY SequenceNumberAssumption DEF Seqlen, SeqNum
<1>2. \A x \in SeqNum : Plus(x, 1) \in SeqNum
  BY SequenceNumberAssumption DEF Plus, SeqNum
<1>3. /\ acc.second \in SeqNum /\ acc.length \in Int /\ acc.last \in Nat
      /\ r.first \in SeqNum /\ r.second \in SeqNum
  BY DEF OneRange
<1> DEFINE longer == Lt(acc.second, r.second)
           second == IF longer THEN r.second ELSE acc.second
           more == IF longer THEN Seqlen(Plus(acc.second, 1), r.second) ELSE 0
           length == acc.length + more - Seqlen(r.first, r.second)
<1>4. second \in SeqNum
  BY <1>3
<1>5. more \in Int
  BY <1>1, <1>2, <1>3
<1>50. length \in Int
  <2> HIDE DEF more
  <2>1. Seqlen(r.first, r.second) \in Int
    BY <1>1, <1>3
  <2> QED BY <1>3, <1>5, <2>1
<1>6. \/ Swallow(acc, r, i) = acc
      \/ Swallow(acc, r, i) = [second |-> second, length |-> length, last |-> i]
  BY DEF Swallow
<1> HIDE DEF second, length
<1> QED BY <1>4, <1>50, <1>6

\* ... so the range that insert leaves covers what is inserted
LEMMA ExtendedGrows ==
  ASSUME NEW l, SortedList(l), NEW lo \in SeqNum, \A x \in Members(l) : InWindow(x, lo),
         NEW start, NEW end, InWindow(start, lo), InWindow(end, lo), start <= end,
         NEW k \in 1 .. Len(l.ranges), start <= l.ranges[k].second, l.ranges[k].first <= end
  PROVE  Grown(Extended(l, k, start, end), l.ranges, k, Len(l.ranges), start, end, lo)
<1> DEFINE rs == l.ranges
           n == Len(rs)
           S == [second : SeqNum, length : Int, last : Nat]
           first == [second |-> IF Gt(end, rs[k].second) THEN end ELSE rs[k].second,
                     length |-> l.length
                                + (IF Lt(start, rs[k].first) THEN Seqlen(start, Minus(rs[k].first, 1)) ELSE 0)
                                + (IF Gt(end, rs[k].second) THEN Seqlen(Plus(rs[k].second, 1), end) ELSE 0),
                     last |-> k]
           Turn(x, i) == Swallow(x, rs[i], i)
           turn == [p \in (k + 1 .. n) \X S |-> Turn(p[2], p[1])]
           grown == CHOOSE grown : grown = [i \in k .. n |-> IF i = k THEN first ELSE Turn(grown[i - 1], i)]
<1>1. /\ n \in Nat /\ Sorted(rs) /\ Members(l) = Covered(rs) /\ k \in Nat /\ k <= n
      /\ \A i \in 1 .. n : rs[i] \in OneRange
  BY ListOfRanges, EndsCovered
<1>2. Grown(first, rs, k, k, start, end, lo)
  BY GrownFirst
<1>3. first \in S
  <2>1. first.second \in SeqNum /\ first.length \in Int
    <3> HIDE DEF first, rs
    <3> QED BY <1>2 DEF Grown, InWindow
  <2> DEFINE a == IF Gt(end, rs[k].second) THEN end ELSE rs[k].second
             b == l.length
                    + (IF Lt(start, rs[k].first) THEN Seqlen(start, Minus(rs[k].first, 1)) ELSE 0)
                    + (IF Gt(end, rs[k].second) THEN Seqlen(Plus(rs[k].second, 1), end) ELSE 0)
  <2>2. first = [second |-> a, length |-> b, last |-> k]
    OBVIOUS
  <2>3. first.second = a /\ first.length = b
    OBVIOUS
  <2> HIDE DEF a, b, first
  <2> QED BY <1>1, <2>1, <2>2, <2>3
<1> HIDE DEF first
<1>4. ASSUME NEW i \in k + 1 .. n, NEW x \in S PROVE Turn(x, i) \in S
  <2>1. i \in Nat /\ rs[i] \in OneRange
    <3>1. i \in 1 .. n
      BY <1>1
    <3> QED BY <1>1, <3>1
  <2> HIDE DEF rs
  <2> QED BY <2>1, SwallowType
<1>5. grown = [i \in k .. n |-> IF i = k THEN first ELSE Turn(grown[i - 1], i)]
  <2>1. turn \in [(k + 1 .. n) \X S -> S]
    BY <1>4
  <2>2. PICK h \in [k .. n -> S] : h[k] = first /\ \A i \in k + 1 .. n : h[i] = turn[<<i, h[i - 1]>>]
    <3> HIDE DEF turn, S, n
    <3>1. Runs(S, first, k, n, turn) # {}
      BY <1>1, <1>3, <2>1, LoopRuns
    <3> QED BY <3>1 DEF Runs
  <2>3. ASSUME NEW i \in k + 1 .. n PROVE h[i] = Turn(h[i - 1], i)
    <3>1. h[i - 1] \in S
      <4> HIDE DEF S
      <4> QED BY <1>1, <2>2
    <3>2. <<i, h[i - 1]>> \in (k + 1 .. n) \X S
      BY <3>1
    <3>3. turn[<<i, h[i - 1]>>] = Turn(h[i - 1], i)
      <4> HIDE DEF S, Turn
      <4> QED BY <3>2
    <3> HIDE DEF S, Turn, turn
    <3> QED BY <2>2, <3>3
  <2>4. h = [i \in k .. n |-> IF i = k THEN first ELSE Turn(h[i - 1], i)]
    <3> HIDE DEF S, Turn, turn, first
    <3> QED BY <1>1, <2>2, <2>3
  <2> HIDE DEF Turn, first
  <2> QED BY <2>4
<1>6. Extended(l, k, start, end) = grown[n]
  BY DEF Extended, first
<1> HIDE DEF grown
<1>7. grown[k] = first /\ \A i \in k + 1 .. n : grown[i] = Turn(grown[i - 1], i)
  <2>1. \A i \in k .. n : grown[i] = IF i = k THEN first ELSE Turn(grown[i - 1], i)
    <3> HIDE DEF Turn, n
    <3> QED BY <1>5
  <2> HIDE DEF Turn
  <2> QED BY <1>1, <2>1
<1> DEFINE Good == {i \in k .. n : Grown(grown[i], rs, k, i, start, end, lo)}
<1>8. k \in Good
  <2>1. k \in k .. n
    BY <1>1
  <2> HIDE DEF n, rs
  <2> QED BY <1>2, <1>7, <2>1
<1>9. ASSUME NEW i \in k + 1 .. n, i - 1 \in Good PROVE i \in Good
  <2>1. Grown(grown[i - 1], rs, k, i - 1, start, end, lo)
    BY <1>9
  <2>2. Grown(Swallow(grown[i - 1], rs[i], i), rs, k, i, start, end, lo)
    BY <1>1, <2>1, GrownNext
  <2>3. i \in k .. n
    BY <1>1
  <2> HIDE DEF n, rs
  <2> QED BY <1>7, <2>2, <2>3
<1>10. n \in Good
  <2>1. n \in k .. n
    BY <1>1
  <2> HIDE DEF Good, n
  <2> QED BY <1>1, <1>8, <1>9, <2>1, EveryTurn
<1> QED BY <1>6, <1>10

\* insert(start, end) adds the numbers from start to end
LEMMA InsertIsUnion ==
  ASSUME NEW l, SortedList(l), NEW lo \in SeqNum, \A x \in Members(l) : InWindow(x, lo),
         NEW start, NEW end, InWindow(start, lo), InWindow(end, lo), start <= end
  PROVE  /\ SortedList(InsertRange(l, start, end))
         /\ Members(InsertRange(l, start, end)) = Members(l) \cup (start .. end)
<1> DEFINE rs == l.ranges
           n == Len(rs)
           T == {i \in 1 .. n : ~Lt(rs[i].second, start)}
           notBefore == IF T # {} THEN Min(T) ELSE 0
           k == IF notBefore = 0 THEN n + 1 ELSE notBefore
           from == IF Lt(start, rs[k].first) THEN start ELSE rs[k].first
           grown == Extended(l, k, start, end)
           apart == [ranges |-> InsertAt(rs, k, Interval(start, end)),
                     length |-> l.length + Seqlen(start, end)]
           joined == [ranges |-> SubSeq(rs, 1, k - 1) \o <<Interval(from, grown.second)>>
                                    \o SubSeq(rs, grown.last + 1, n),
                      length |-> grown.length]
<1>1. n \in Nat /\ Sorted(rs) /\ Members(l) = Covered(rs) /\ l.length = Cardinality(Covered(rs))
  BY ListOfRanges, EndsCovered
<1>2. /\ start \in 0 .. MAX /\ end \in 0 .. MAX /\ MAX \in Nat /\ start \in SeqNum /\ end \in SeqNum
      /\ end - start < THRESHOLD
  BY SequenceNumberAssumption DEF InWindow, SeqNum
<1>3. ASSUME NEW i \in 1 .. n
      PROVE  /\ InWindow(rs[i].first, lo) /\ InWindow(rs[i].second, lo)
             /\ rs[i].first \in 0 .. MAX /\ rs[i].second \in 0 .. MAX /\ rs[i].first <= rs[i].second
             /\ Lt(rs[i].second, start) <=> rs[i].second < start
             /\ Lt(start, rs[i].first) <=> start < rs[i].first
             /\ Lt(end, rs[i].first) <=> end < rs[i].first
  <2> DEFINE f == rs[i].first
             s == rs[i].second
  <2>1. f \in 0 .. MAX /\ s \in 0 .. MAX /\ InWindow(f, lo) /\ InWindow(s, lo) /\ f <= s
    BY <1>1, EndsCovered, RangesInWindow DEF Sorted
  <2> HIDE DEF f, s
  <2>2. Lt(s, start) <=> s < start
    BY <2>1, WindowOrder
  <2>3. Lt(start, f) <=> start < f
    BY <2>1, WindowOrder
  <2>4. Lt(end, f) <=> end < f
    BY <2>1, WindowOrder
  <2> QED BY <2>1, <2>2, <2>3, <2>4 DEF f, s
<1>4. \A h, i \in 1 .. n : h < i => rs[h].second < rs[i].first
  BY <1>1 DEF Sorted
<1>5. InsertRange(l, start, end) =
        IF k = n + 1 \/ Lt(end, rs[k].first) THEN apart ELSE joined
  BY DEF InsertRange, SelectInSeq
<1> HIDE DEF joined, apart
<1>6. /\ k \in 1 .. n + 1
      /\ \A i \in 1 .. n : i < k => rs[i].second < start
      /\ k \in 1 .. n => start <= rs[k].second
  <2>1. CASE T = {}
    <3>1. k = n + 1
      BY <2>1
    <3>2. \A i \in 1 .. n : Lt(rs[i].second, start)
      BY <2>1
    <3> HIDE DEF k
    <3> QED BY <1>1, <1>3, <3>1, <3>2
  <2>2. CASE T # {}
    <3>1. notBefore \in T /\ \A i \in T : notBefore <= i
      <4>1. T \subseteq Nat
        OBVIOUS
      <4> HIDE DEF T
      <4> QED BY <4>1, <2>2, MinIsFirst
    <3> HIDE DEF notBefore
    <3>2. k \in 1 .. n /\ k = notBefore
      BY <3>1
    <3> HIDE DEF k
    <3>3. \A i \in 1 .. n : i < k => Lt(rs[i].second, start)
      <4> SUFFICES ASSUME NEW i \in 1 .. n, i < k PROVE Lt(rs[i].second, start)
        OBVIOUS
      <4>1. i \notin T
        <5> HIDE DEF T
        <5> QED BY <3>1, <3>2
      <4> QED BY <4>1
    <3>4. ~Lt(rs[k].second, start)
      BY <3>1, <3>2
    <3> HIDE DEF T
    <3> QED BY <1>1, <1>2, <1>3, <3>2, <3>3, <3>4
  <2> QED BY <2>1, <2>2
<1> HIDE DEF k
<1>7. /\ \A x \in Between(rs, 1, k - 1) : x < start
      /\ k \in 1 .. n => \A x \in Between(rs, 1, k - 1) : x < rs[k].first
  <2> SUFFICES ASSUME NEW x \in Between(rs, 1, k - 1)
               PROVE  x < start /\ (k \in 1 .. n => x < rs[k].first)
    OBVIOUS
  <2>1. PICK i \in 1 .. k - 1 : x <= rs[i].second
    BY DEF Between
  <2>2. x \in Int
    BY <1>2 DEF Between, SeqNum
  <2>3. i \in 1 .. n /\ i < k
    BY <1>1, <1>6
  <2>4. rs[i].second < start /\ rs[i].second \in Int
    BY <1>3, <1>6, <2>3
  <2>5. k \in 1 .. n => rs[i].second < rs[k].first /\ rs[k].first \in Int
    BY <1>3, <1>4, <2>3
  <2> QED BY <1>2, <2>1, <2>2, <2>4, <2>5
<1>8. CASE k = n + 1 \/ Lt(end, rs[k].first)
  <2>1. apart.ranges = Replaced(rs, k, k - 1, start, end)
    <3>1. k - 1 + 1 = k
      BY <1>1, <1>6
    <3> QED BY <3>1 DEF apart, InsertAt, Replaced
  <2>2. \A x \in Between(rs, k - 1 + 1, n) : end < x
    <3> SUFFICES ASSUME NEW x \in Between(rs, k - 1 + 1, n) PROVE end < x
      OBVIOUS
    <3>1. PICK i \in k .. n : rs[i].first <= x
      <4>1. k - 1 + 1 = k
        BY <1>1, <1>6
      <4> QED BY <4>1 DEF Between
    <3>2. x \in Int /\ i \in 1 .. n /\ k \in 1 .. n /\ rs[i].first \in Int /\ rs[k].first \in Int
      <4>1. x \in Int
        BY <1>2 DEF Between, SeqNum
      <4>2. i \in 1 .. n /\ k \in 1 .. n
        BY <1>1, <1>6
      <4> QED BY <1>3, <4>1, <4>2
    <3>3. end < rs[k].first
      <4>1. k # n + 1
        BY <1>1, <3>2
      <4> QED BY <1>3, <1>8, <3>2, <4>1
    <3>4. rs[k].first <= rs[i].first
      <4>1. CASE i = k
        BY <3>2, <4>1
      <4>2. CASE k < i
        BY <1>3, <1>4, <3>2, <4>2
      <4> QED BY <1>1, <1>6, <4>1, <4>2
    <3> QED BY <1>2, <3>1, <3>2, <3>3, <3>4
  <2>3. k \in 1 .. n + 1 /\ k - 1 \in k - 1 .. n
    BY <1>1, <1>6
  <2>4. Outside(rs, k, k - 1) = Covered(rs)
    <3>1. \A h : h \in 1 .. n <=> h \in 1 .. k - 1 \/ h \in k - 1 + 1 .. n
      BY <1>1, <1>6
    <3> QED BY <3>1 DEF Outside, Covered, Between
  <2> DEFINE u == apart.ranges
  <2>5. /\ Sorted(u) /\ Covered(u) = Outside(rs, k, k - 1) \cup (start .. end)
        /\ Cardinality(Covered(u)) = Cardinality(Outside(rs, k, k - 1)) + end - start + 1
    <3> HIDE DEF u, rs
    <3>0. Apart(rs, k, k - 1, start, end)
      BY <1>7, <2>2 DEF Apart
    <3>1. u = Replaced(rs, k, k - 1, start, end)
      BY <2>1 DEF u
    <3>2. Sorted(u) /\ Covered(u) = Outside(rs, k, k - 1) \cup (start .. end)
      BY <1>1, <1>2, <2>3, <3>0, <3>1, ReplacedByOne
    <3>3. Cardinality(Covered(u)) = Cardinality(Outside(rs, k, k - 1)) + end - start + 1
      BY <1>1, <1>2, <2>3, <3>0, <3>1, ReplacedByOne
    <3> QED BY <3>2, <3>3
  <2>6. apart.length = Cardinality(Covered(u))
    <3>1. Seqlen(start, end) = end - start + 1
      BY WindowOrder
    <3>2. Cardinality(Covered(rs)) \in Nat
      <4>1. Covered(rs) \in SUBSET SeqNum
        BY DEF Covered, Between
      <4> QED BY <4>1, Sizes
    <3>3. apart.length = l.length + Seqlen(start, end)
      BY DEF apart
    <3> HIDE DEF u
    <3> QED BY <1>1, <1>2, <2>4, <2>5, <3>1, <3>2, <3>3
  <2>7. SortedList(apart) /\ Members(apart) = Members(l) \cup (start .. end)
    BY <1>1, <2>4, <2>5, <2>6, ListOfRanges
  <2>8. InsertRange(l, start, end) = apart
    BY <1>5, <1>8
  <2> QED BY <2>7, <2>8
<1>9. CASE ~(k = n + 1 \/ Lt(end, rs[k].first))
  <2>1. k \in 1 .. n /\ start <= rs[k].second /\ rs[k].first <= end
    <3>1. k \in 1 .. n
      BY <1>1, <1>6, <1>9
    <3> QED BY <1>2, <1>3, <1>6, <1>9, <3>1
  <2> DEFINE second == grown.second
             last == grown.last
  <2>2. from = (IF start < rs[k].first THEN start ELSE rs[k].first) /\ from \in 0 .. MAX
    BY <1>2, <1>3, <2>1
  <2> HIDE DEF grown, from
  <2>3. Grown(grown, rs, k, n, start, end, lo)
    BY <2>1, ExtendedGrows DEF grown
  <2>4. /\ last \in k .. n /\ InWindow(second, lo) /\ from <= second
        /\ from .. second \subseteq Covered(rs) \cup (start .. end)
        /\ Between(rs, k, last) \cup (start .. end) \subseteq from .. second
        /\ grown.length = Cardinality(Outside(rs, k, last)) + second - from + 1
        /\ last < n => second < rs[last + 1].first
    BY <2>2, <2>3 DEF Grown
  <2> HIDE DEF second, last
  <2>5. \A x \in Between(rs, last + 1, n) : second < x
    <3> SUFFICES ASSUME NEW x \in Between(rs, last + 1, n) PROVE second < x
      OBVIOUS
    <3>1. PICK i \in last + 1 .. n : rs[i].first <= x
      BY DEF Between
    <3>2. /\ x \in Int /\ second \in Int /\ i \in 1 .. n /\ last + 1 \in 1 .. n /\ last + 1 <= i /\ last < n
          /\ last \in Int /\ i \in Int
      BY <1>1, <1>2, <1>6, <2>4 DEF Between, SeqNum, InWindow
    <3>3. rs[i].first \in Int /\ rs[last + 1].first \in Int
      BY <1>3, <3>2
    <3>4. rs[last + 1].first <= rs[i].first
      <4>1. CASE i = last + 1
        BY <3>3, <4>1
      <4>2. CASE last + 1 < i
        <5> DEFINE h == last + 1
        <5>1. h \in 1 .. n /\ i \in 1 .. n /\ h < i
          BY <3>2, <4>2
        <5> HIDE DEF h
        <5>2. rs[h].second < rs[i].first /\ rs[h].first <= rs[h].second
          BY <1>3, <1>4, <5>1
        <5>3. rs[h].second \in Int /\ rs[h].first \in Int
          BY <1>3, <5>1
        <5>4. rs[h].first <= rs[i].first
          BY <3>3, <5>2, <5>3
        <5> QED BY <5>4 DEF h
      <4> QED BY <3>2, <4>1, <4>2
    <3> QED BY <2>4, <3>1, <3>2, <3>3, <3>4
  <2>6. \A x \in Between(rs, 1, k - 1) : x < from
    BY <1>7, <2>1, <2>2
  <2>7. /\ from \in SeqNum /\ second \in SeqNum /\ second - from < THRESHOLD
        /\ k \in 1 .. n + 1 /\ last \in k - 1 .. n
    <3>1. InWindow(from, lo)
      BY <1>3, <2>1, <2>2
    <3>2. second - from < THRESHOLD
      BY <2>4, <3>1, WindowOrder
    <3> QED BY <1>1, <1>6, <2>4, <3>1, <3>2 DEF InWindow
  <2> DEFINE u == joined.ranges
  <2>8. /\ Sorted(u) /\ Covered(u) = Outside(rs, k, last) \cup (from .. second)
        /\ Cardinality(Covered(u)) = Cardinality(Outside(rs, k, last)) + second - from + 1
    <3>1. u = Replaced(rs, k, last, from, second)
      BY DEF joined, second, last, Replaced
    <3> HIDE DEF u, rs
    <3>0. Apart(rs, k, last, from, second)
      BY <2>5, <2>6 DEF Apart
    <3>10. Sorted(rs) /\ from <= second
      BY <1>1, <2>4
    <3>2. Sorted(u) /\ Covered(u) = Outside(rs, k, last) \cup (from .. second)
      BY <2>7, <3>0, <3>1, <3>10, ReplacedByOne
    <3>3. Cardinality(Covered(u)) = Cardinality(Outside(rs, k, last)) + second - from + 1
      BY <2>7, <3>0, <3>1, <3>10, ReplacedByOne
    <3> QED BY <3>2, <3>3
  <2>9. Covered(rs) = Outside(rs, k, last) \cup Between(rs, k, last)
    BY <1>1, <2>1, <2>4, OutsideSplits
  <2>10. Covered(u) = Covered(rs) \cup (start .. end)
    <3> HIDE DEF u
    <3> QED BY <2>4, <2>8, <2>9
  <2>11. joined.length = Cardinality(Covered(u))
    <3>1. joined.length = grown.length
      BY DEF joined
    <3> HIDE DEF u
    <3> QED BY <2>4, <2>8, <3>1
  <2>12. SortedList(joined) /\ Members(joined) = Members(l) \cup (start .. end)
    BY <1>1, <2>8, <2>10, <2>11, ListOfRanges
  <2>13. InsertRange(l, start, end) = joined
    BY <1>5, <1>9
  <2> QED BY <2>12, <2>13
<1> QED BY <1>8, <1>9

(***************************************************************************)
(* Calls on the numbers of a window                                        *)
(***************************************************************************)

\* The list stands for a set of the window's numbers
ListInv == base \in SeqNum /\ SortedList(list) /\ Members(list) \subseteq Numbers

\* The specification of the set has the same sequence numbers
LEMMA SameNumbers ==
  /\ Abstract!SeqNum = SeqNum
  /\ \A x, y \in SeqNum : (Abstract!Leq(x, y) <=> Leq(x, y)) /\ (Abstract!Lt(x, y) <=> Lt(x, y))
BY SequenceNumberAssumption
   DEF Abstract!SeqNum, Abstract!Leq, Abstract!Lt, Abstract!Near, Leq, Lt, Near, SeqNum

\* Between two numbers of a window are those of the integers
LEMMA RunIsInterval ==
  ASSUME NEW lo \in SeqNum, NEW start, NEW end, InWindow(start, lo), InWindow(end, lo), Leq(start, end)
  PROVE  start <= end /\ Abstract!Run(start, end) = start .. end
<1>1. start <= end
  BY WindowOrder
<1>2. /\ start \in 0 .. MAX /\ end \in 0 .. MAX /\ MAX \in Nat /\ end - start < THRESHOLD
      /\ start \in SeqNum /\ end \in SeqNum
  BY SequenceNumberAssumption DEF InWindow, SeqNum
<1>3. ASSUME NEW x \in SeqNum PROVE Leq(start, x) /\ Leq(x, end) <=> start <= x /\ x <= end
  <2>1. x \in 0 .. MAX
    BY DEF SeqNum
  <2> QED BY <1>1, <1>2, <2>1, SequenceNumberAssumption DEF Leq, Near
<1>4. Abstract!Run(start, end) = {x \in SeqNum : Leq(start, x) /\ Leq(x, end)}
  BY <1>2, SameNumbers DEF Abstract!Run
<1>5. Abstract!Run(start, end) = {x \in SeqNum : start <= x /\ x <= end}
  BY <1>3, <1>4
<1>6. {x \in SeqNum : start <= x /\ x <= end} = start .. end
  BY <1>2 DEF SeqNum
<1> QED BY <1>1, <1>5, <1>6

\* The first number of a list is the earliest of the set
LEMMA FirstIsEarliest ==
  ASSUME NEW l, SortedList(l), NEW lo \in SeqNum, \A x \in Members(l) : InWindow(x, lo), l.length > 0
  PROVE  Abstract!Earliest(Members(l)) = FirstOf(l) /\ FirstOf(l) \in Members(l)
<1>1. FirstOf(l) \in Members(l) /\ \A x \in Members(l) : FirstOf(l) <= x
  BY FirstIsLeast
<1>2. ASSUME NEW x \in Members(l), NEW y \in Members(l)
      PROVE  (Abstract!Leq(x, y) <=> x <= y) /\ x \in 0 .. MAX
  <2>1. InWindow(x, lo) /\ InWindow(y, lo)
    OBVIOUS
  <2>2. (Leq(x, y) <=> x <= y) /\ x \in 0 .. MAX
    BY <2>1, WindowOrder
  <2> QED BY <2>1, <2>2, SameNumbers DEF InWindow
<1> DEFINE first == FirstOf(l)
           M == Members(l)
           e == CHOOSE x \in M : \A other \in M : Abstract!Leq(x, other)
<1> HIDE DEF first, M
<1>3. e \in M /\ \A other \in M : Abstract!Leq(e, other)
  <2>1. first \in M /\ \A other \in M : Abstract!Leq(first, other)
    BY <1>1, <1>2 DEF first, M
  <2> QED BY <2>1
<1>4. Abstract!Earliest(M) = e
  BY DEF Abstract!Earliest
<1> HIDE DEF e
<1>5. e <= first /\ first <= e /\ e \in 0 .. MAX /\ first \in 0 .. MAX
  BY <1>1, <1>2, <1>3 DEF first, M
<1>6. e = first
  BY <1>5, SequenceNumberAssumption
<1> QED BY <1>1, <1>4, <1>6 DEF first, M

\* The last range ends with the greatest member, if appending is allowed
LEMMA AppendInWindow ==
  ASSUME NEW l, SortedList(l), NEW lo \in SeqNum, \A x \in Members(l) : InWindow(x, lo),
         NEW start, NEW end, InWindow(start, lo), InWindow(end, lo), start <= end,
         AppendsAtEnd(l, start)
  PROVE  /\ SortedList(AppendRange(l, start, end))
         /\ Members(AppendRange(l, start, end)) = Members(l) \cup (start .. end)
         /\ \A x \in Members(l) : Lt(x, start)
<1> DEFINE rs == l.ranges
           n == Len(rs)
<1>1. n \in Nat /\ Sorted(rs) /\ Members(l) = Covered(rs) /\ rs \in Seq(OneRange)
  BY ListOfRanges, EndsCovered DEF Sorted
<1>2. ASSUME NEW x \in Members(l) PROVE x < start
  <2>1. PICK i \in 1 .. n : x <= rs[i].second
    BY <1>1 DEF Covered, Between
  <2>2. n \in 1 .. n /\ rs # <<>>
    BY <1>1
  <2>3. Lt(rs[n].second, start)
    BY <2>2 DEF AppendsAtEnd, Last
  <2>4. InWindow(rs[n].second, lo) /\ InWindow(x, lo)
    BY <2>2, RangesInWindow
  <2>5. rs[n].second < start
    BY <2>3, <2>4, WindowOrder
  <2>6. /\ rs[i].second \in 0 .. MAX /\ rs[n].second \in 0 .. MAX /\ rs[n].first \in 0 .. MAX
        /\ rs[n].first <= rs[n].second /\ x \in 0 .. MAX /\ start \in 0 .. MAX /\ MAX \in Nat
    <3>1. \A h \in 1 .. n : rs[h].first \in 0 .. MAX /\ rs[h].second \in 0 .. MAX
      BY <1>1, EndsCovered
    <3>2. rs[n].first <= rs[n].second
      BY <1>1, <2>2 DEF Sorted
    <3>3. x \in 0 .. MAX /\ start \in 0 .. MAX /\ MAX \in Nat
      BY <2>4, SequenceNumberAssumption DEF InWindow, SeqNum
    <3> QED BY <2>2, <3>1, <3>2, <3>3
  <2>7. rs[i].second <= rs[n].second
    <3>1. CASE i = n
      BY <2>6, <3>1
    <3>2. CASE i # n
      <4>1. rs[i].second < rs[n].first
        BY <1>1, <2>2, <3>2 DEF Sorted
      <4> QED BY <2>6, <4>1
    <3> QED BY <3>1, <3>2
  <2> HIDE DEF rs, n
  <2> QED BY <2>1, <2>5, <2>6, <2>7
<1>3. ASSUME NEW x \in Members(l) PROVE x < start /\ end - x < THRESHOLD /\ Lt(x, start)
  <2>1. InWindow(x, lo) /\ x < start
    BY <1>2
  <2> QED BY <2>1, WindowOrder
<1>4. start \in SeqNum /\ end \in SeqNum /\ end - start < THRESHOLD
  BY WindowOrder DEF InWindow
<1>5. SortedList(AppendRange(l, start, end))
  BY <1>3, <1>4, AppendIsUnion
<1>6. Members(AppendRange(l, start, end)) = Members(l) \cup (start .. end)
  BY <1>3, <1>4, AppendIsUnion
<1> QED BY <1>3, <1>5, <1>6

\* The numbers of the window
LEMMA NumbersInWindow ==
  ASSUME base \in SeqNum
  PROVE  /\ \A x \in Numbers : x \in SeqNum /\ InWindow(x, base)
         /\ \A start, end \in Numbers : start .. end \subseteq Numbers
<1>1. base \in 0 .. MAX /\ MAX \in Nat /\ Window \in Nat /\ Window <= THRESHOLD /\ THRESHOLD \in Nat
  BY SequenceNumberAssumption, HistoryAssumption DEF SeqNum
<1>2. Numbers = {x \in SeqNum : base <= x /\ x < base + Window}
  <2>1. \A x \in SeqNum : x \in Int
    BY <1>1 DEF SeqNum
  <2>2. ASSUME NEW x \in SeqNum, base <= x, x < base + Window PROVE x \in Numbers
    <3>1. x - base \in 0 .. Window - 1 /\ x = base + (x - base)
      BY <1>1, <2>1, <2>2
    <3> QED BY <3>1 DEF Numbers
  <2>3. ASSUME NEW x \in Numbers PROVE x \in SeqNum /\ base <= x /\ x < base + Window
    BY <1>1 DEF Numbers
  <2> QED BY <2>2, <2>3
<1>3. \A x \in Numbers : x \in SeqNum /\ InWindow(x, base)
  BY <1>1, <1>2 DEF InWindow, SeqNum
<1>4. ASSUME NEW start \in Numbers, NEW end \in Numbers PROVE start .. end \subseteq Numbers
  BY <1>1, <1>2 DEF SeqNum
<1> QED BY <1>3, <1>4

\* Each call does to the list what it would do to the set
LEMMA CallStep ==
  ASSUME ListInv, ListNext
  PROVE  ListInv' /\ Abstract!Next
<1>1. base \in SeqNum /\ base' = base /\ SortedList(list) /\ Members(list) \subseteq Numbers
  BY DEF ListInv, ListNext
<1>2. /\ \A x \in Numbers : x \in SeqNum /\ InWindow(x, base)
      /\ \A start, end \in Numbers : start .. end \subseteq Numbers
      /\ \A x \in Members(list) : InWindow(x, base)
  BY <1>1, NumbersInWindow
<1> DEFINE Done == Abstract!Add("append") \/ Abstract!Add("insert") \/ Abstract!RemoveSeq
                      \/ Abstract!RemoveRun \/ Abstract!Pop
<1>3. SUFFICES SortedList(list') /\ Members(list') \subseteq Numbers /\ Done
  <2>1. Numbers' = Numbers
    BY <1>1 DEF Numbers
  <2>2. ASSUME SortedList(list'), Members(list') \subseteq Numbers, Done
        PROVE  ListInv' /\ Abstract!Next
    <3>1. list'.length = Cardinality(Members(list'))
      BY <2>2 DEF SortedList
    <3>2. Abstract!Next
      <4>1. (list.length)' = Cardinality(Members(list)')
        BY <3>1
      <4>2. Abstract!Cardinality(Members(list)') = Cardinality(Members(list)')
        BY DEF Abstract!Cardinality, Cardinality
      <4> QED BY <2>2, <4>1, <4>2 DEF Abstract!Next
    <3>3. ListInv'
      BY <1>1, <2>1, <2>2 DEF ListInv
    <3> QED BY <3>2, <3>3
  <2> QED BY <2>2
<1>4. ASSUME NEW start \in Numbers, NEW end \in Numbers, Leq(start, end)
      PROVE  /\ start <= end /\ InWindow(start, base) /\ InWindow(end, base)
             /\ start .. end \subseteq Numbers
             /\ Abstract!Run(start, end) = start .. end
             /\ start \in Abstract!SeqNum /\ end \in Abstract!SeqNum /\ Abstract!Leq(start, end)
             /\ start = end => start .. end = {start}
  <2>1. InWindow(start, base) /\ InWindow(end, base) /\ start \in SeqNum /\ end \in SeqNum
    BY <1>2
  <2>2. start <= end /\ Abstract!Run(start, end) = start .. end
    BY <1>1, <1>4, <2>1, RunIsInterval
  <2>3. start = end => start .. end = {start}
    BY <2>1, SequenceNumberAssumption DEF SeqNum
  <2> QED BY <1>2, <1>4, <2>1, <2>2, <2>3, SameNumbers
<1>5. CASE CallAppend
  <2>1. PICK start \in Numbers, end \in Numbers :
            /\ Leq(start, end) /\ AppendsAtEnd(list, start)
            /\ list' = AppendRange(list, start, end)
            /\ Called("append", start, end, TRUE)
    BY <1>5 DEF CallAppend, AppendOne
  <2>2. /\ SortedList(list') /\ Members(list') = Members(list) \cup (start .. end)
        /\ \A x \in Members(list) : Lt(x, start)
    <3>1. /\ start <= end /\ InWindow(start, base) /\ InWindow(end, base)
      BY <1>4, <2>1
    <3>2. SortedList(AppendRange(list, start, end))
      BY <1>1, <1>2, <2>1, <3>1, AppendInWindow
    <3>3. Members(AppendRange(list, start, end)) = Members(list) \cup (start .. end)
      BY <1>1, <1>2, <2>1, <3>1, AppendInWindow
    <3>4. \A x \in Members(list) : Lt(x, start)
      BY <1>1, <1>2, <2>1, <3>1, AppendInWindow
    <3> QED BY <2>1, <3>2, <3>3, <3>4
  <2>3. \A x \in Members(list) : Abstract!Lt(x, start)
    BY <1>1, <1>2, <2>2, SameNumbers
  <2>4. Abstract!Called("append", start, end, TRUE)
    BY <2>1 DEF Called, Abstract!Called
  <2>5. Abstract!Add("append")
    <3>1. /\ start \in Abstract!SeqNum /\ end \in Abstract!SeqNum /\ Abstract!Leq(start, end)
          /\ Members(list') = Members(list) \cup Abstract!Run(start, end)
      BY <1>4, <2>1, <2>2
    <3> QED BY <2>3, <2>4, <3>1 DEF Abstract!Add
  <2> QED BY <1>1, <1>4, <2>1, <2>2, <2>5
<1>6. CASE CallInsert
  <2>1. PICK start \in Numbers, end \in Numbers :
            /\ Leq(start, end)
            /\ list' = InsertRange(list, start, end)
            /\ Called("insert", start, end, TRUE)
    BY <1>6 DEF CallInsert
  <2>2. SortedList(list') /\ Members(list') = Members(list) \cup (start .. end)
    <3>1. start <= end /\ InWindow(start, base) /\ InWindow(end, base)
      BY <1>4, <2>1
    <3>2. SortedList(InsertRange(list, start, end))
      BY <1>1, <1>2, <3>1, InsertIsUnion
    <3>3. Members(InsertRange(list, start, end)) = Members(list) \cup (start .. end)
      BY <1>1, <1>2, <3>1, InsertIsUnion
    <3> QED BY <2>1, <3>2, <3>3
  <2>4. Abstract!Called("insert", start, end, TRUE)
    BY <2>1 DEF Called, Abstract!Called
  <2>5. Abstract!Add("insert")
    <3>1. /\ start \in Abstract!SeqNum /\ end \in Abstract!SeqNum /\ Abstract!Leq(start, end)
          /\ Members(list') = Members(list) \cup Abstract!Run(start, end)
      BY <1>4, <2>1, <2>2
    <3> QED BY <2>4, <3>1 DEF Abstract!Add
  <2> QED BY <1>1, <1>4, <2>1, <2>2, <2>5
<1>7. CASE CallRemove
  <2>1. PICK seq \in Numbers :
            /\ list' = RemoveOne(list, seq).list
            /\ Called("remove", seq, seq, RemoveOne(list, seq).found)
    BY <1>7 DEF CallRemove
  <2>2. SortedList(list') /\ Members(list') = Members(list) \ {seq}
    BY <1>1, <1>2, <2>1, RemoveIsDifference
  <2>3. RemoveOne(list, seq).found = (seq \in Members(list))
    <3>1. RemoveOne(list, seq).found <=> seq \in Members(list)
      BY <1>1, <1>2, RemoveIsDifference
    <3>2. RemoveOne(list, seq).found \in BOOLEAN
      BY DEF RemoveOne
    <3> QED BY <3>1, <3>2
  <2>4. Abstract!Called("remove", seq, seq, seq \in Members(list))
    BY <2>1, <2>3 DEF Called, Abstract!Called
  <2>5. Abstract!RemoveSeq
    BY <1>2, <2>2, <2>4, SameNumbers DEF Abstract!RemoveSeq
  <2> QED BY <1>1, <2>2, <2>5
<1>8. CASE CallRemoveRange
  <2>1. PICK start \in Numbers, end \in Numbers :
            /\ Leq(start, end)
            /\ list' = RemoveRange(list, start, end)
            /\ Called("removeRange", start, end, TRUE)
    BY <1>8 DEF CallRemoveRange
  <2>2. SortedList(list') /\ Members(list') = Members(list) \ (start .. end)
    <3>1. start <= end /\ InWindow(start, base) /\ InWindow(end, base)
      BY <1>4, <2>1
    <3>2. SortedList(RemoveRange(list, start, end))
      BY <1>1, <1>2, <3>1, RemoveRangeIsDifference
    <3>3. Members(RemoveRange(list, start, end)) = Members(list) \ (start .. end)
      BY <1>1, <1>2, <3>1, RemoveRangeIsDifference
    <3> QED BY <2>1, <3>2, <3>3
  <2>4. Abstract!Called("removeRange", start, end, TRUE)
    BY <2>1 DEF Called, Abstract!Called
  <2>5. Abstract!RemoveRun
    <3>1. /\ start \in Abstract!SeqNum /\ end \in Abstract!SeqNum /\ Abstract!Leq(start, end)
          /\ Members(list') = Members(list) \ Abstract!Run(start, end)
      BY <1>4, <2>1, <2>2
    <3> QED BY <2>4, <3>1 DEF Abstract!RemoveRun
  <2> QED BY <1>1, <2>2, <2>5
<1>9. CASE CallPop
  <2> DEFINE first == FirstOf(list)
  <2>1. /\ list.length > 0 /\ list' = RemoveOne(list, first).list
        /\ Called("pop", first, first, TRUE)
    BY <1>9 DEF CallPop, PopFirst
  <2>2. Abstract!Earliest(Members(list)) = first /\ first \in Members(list)
    BY <1>1, <1>2, <2>1, FirstIsEarliest
  <2> HIDE DEF first
  <2>3. SortedList(list') /\ Members(list') = Members(list) \ {first}
    BY <1>1, <1>2, <2>1, <2>2, RemoveIsDifference
  <2>4. Abstract!Called("pop", first, first, TRUE)
    BY <2>1 DEF Called, Abstract!Called
  <2>5. Abstract!Pop
    BY <2>2, <2>3, <2>4 DEF Abstract!Pop
  <2> QED BY <1>1, <2>3, <2>5
<1> QED BY <1>5, <1>6, <1>7, <1>8, <1>9 DEF ListNext

\* Nothing is missing at first
LEMMA EmptyIsSorted == SortedList(EmptyList) /\ Members(EmptyList) = {} /\ EmptyList.length = 0
<1>1. EmptyList.ranges = <<>> /\ EmptyList.length = 0
  BY DEF EmptyList
<1>2. Sorted(<<>>) /\ Covered(<<>>) = {} /\ Cardinality({}) = 0
  BY FewRanges, FS_EmptySet
<1> QED BY <1>1, <1>2, ListOfRanges

\* The list stands for such a set after every call
LEMMA ListInvariance == ListSpec => []ListInv
<1>1. ListInit => ListInv
  BY HistoryAssumption, EmptyIsSorted DEF ListInit, ListInv
<1>2. ListInv /\ [ListNext]_listVars => ListInv'
  <2>1. CASE UNCHANGED listVars
    BY <2>1 DEF ListInv, listVars, Numbers
  <2>2. CASE ListNext
    BY <2>2, CallStep
  <2> QED BY <2>1, <2>2
<1> QED BY <1>1, <1>2, PTL DEF ListSpec

(***************************************************************************)
(* Whatever is appended, inserted and removed, the ranges stay in order    *)
(* and apart: nextACK and the flow window may read the first range only,   *)
(* and the search loops of insert and remove may stop at the first match   *)
(* (LossList.cpp).                                                         *)
(***************************************************************************)
THEOREM AlwaysSortedDisjoint == ListSpec => []SortedDisjoint
<1>1. ListInv => SortedDisjoint
  <2> SUFFICES ASSUME ListInv PROVE SortedDisjoint
    OBVIOUS
  <2> DEFINE rs == list.ranges
             n == Len(rs)
  <2>1. base \in SeqNum /\ SortedList(list) /\ \A x \in Members(list) : InWindow(x, base)
    BY NumbersInWindow DEF ListInv
  <2>2. n \in Nat /\ Sorted(rs)
    BY <2>1, ListOfRanges, EndsCovered
  <2>3. \A i \in 1 .. n : InWindow(rs[i].first, base) /\ InWindow(rs[i].second, base)
    BY <2>1, RangesInWindow
  <2>4. ASSUME NEW i \in 1 .. n PROVE Leq(rs[i].first, rs[i].second)
    <3> DEFINE f == rs[i].first
               s == rs[i].second
    <3>1. InWindow(f, base) /\ InWindow(s, base) /\ f <= s
      BY <2>2, <2>3 DEF Sorted
    <3> HIDE DEF f, s
    <3>2. Leq(f, s)
      BY <2>1, <3>1, WindowOrder
    <3> QED BY <3>2 DEF f, s
  <2>5. ASSUME NEW i \in 1 .. n - 1 PROVE Lt(rs[i].second, rs[i + 1].first)
    <3> DEFINE s == rs[i].second
               f == rs[i + 1].first
    <3>1. i \in 1 .. n /\ i + 1 \in 1 .. n /\ i < i + 1
      BY <2>2
    <3>2. InWindow(f, base) /\ InWindow(s, base) /\ s < f
      BY <2>2, <2>3, <3>1 DEF Sorted
    <3> HIDE DEF f, s
    <3>3. Lt(s, f)
      BY <2>1, <3>2, WindowOrder
    <3> QED BY <3>3 DEF f, s
  <2> QED BY <2>4, <2>5 DEF SortedDisjoint
<1> QED BY <1>1, ListInvariance, PTL

(***************************************************************************)
(* Every LossList method does to the ranges what the call means for a set  *)
(* of sequence numbers, splitting, shortening and swallowing ranges as it  *)
(* may, and keeps the length it counts by hand equal to the set's size.    *)
(***************************************************************************)
THEOREM LossSetImplemented == ListSpec => ImplementsLossSet
<1>1. ListInit => Abstract!Init
  BY EmptyIsSorted DEF ListInit, Abstract!Init
<1>2. ListInv /\ [ListNext]_listVars => [Abstract!Next]_(Abstract!vars)
  <2>1. CASE UNCHANGED listVars
    BY <2>1 DEF listVars, Abstract!vars
  <2>2. CASE ListNext
    BY <2>2, CallStep
  <2> QED BY <2>1, <2>2
<1> QED BY <1>1, <1>2, ListInvariance, PTL DEF ListSpec, Abstract!Spec, ImplementsLossSet
=============================================================================
