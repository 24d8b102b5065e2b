------------------------------ MODULE LossList ------------------------------
(***************************************************************************)
(* udt::LossList: a set of sequence numbers kept as a list of ranges       *)
(* [first, second] in sending order, with the number of members counted    *)
(* separately in length.  A Connection keeps one for the packets it is     *)
(* missing, a SendQueue one for the packets to send again.  One operator   *)
(* per method; LossSet is the promise the ranges are checked to keep.      *)
(***************************************************************************)
EXTENDS SequenceNumber, SequencesExt

Interval(f, s) == [first |-> f, second |-> s]

Lists == [ranges : Seq([first : SeqNum, second : SeqNum]), length : Nat]

EmptyList == [ranges |-> <<>>, length |-> 0]

\* What the code treats as contained in a range, and in a list
Within(r, seq) == Leq(r.first, seq) /\ Leq(seq, r.second)

Members(l) == {seq \in SeqNum : \E i \in 1 .. Len(l.ranges) : Within(l.ranges[i], seq)}

\* The argument assertions of both append methods, and of the range methods
AppendsAtEnd(l, start) == l.ranges # <<>> => Lt(Last(l.ranges).second, start)

(***************************************************************************)
(* append(seq) and append(start, end): at the end, joining the last range  *)
(* when the numbers are consecutive.                                       *)
(***************************************************************************)
AppendRange(l, start, end) ==
    LET n == Len(l.ranges)
    IN  [ranges |-> IF l.length > 0 /\ Plus(l.ranges[n].second, 1) = start
                    THEN [l.ranges EXCEPT ![n].second = end]
                    ELSE Append(l.ranges, Interval(start, end)),
         length |-> l.length + Seqlen(start, end)]

AppendOne(l, seq) == AppendRange(l, seq, seq)

(***************************************************************************)
(* insert(start, end): anywhere, extending the first range that does not   *)
(* end before start and then swallowing the ranges it now touches.         *)
(***************************************************************************)
\* One turn of the swallowing loop, at range i: acc.second is the end of the
\* extended range, acc.last the last range swallowed
Swallow(acc, r, i) ==
    IF acc.last < i - 1 \/ ~Geq(acc.second, Minus(r.first, 1))
    THEN acc
    ELSE LET longer == Lt(acc.second, r.second)
         IN  [second |-> IF longer THEN r.second ELSE acc.second,
              length |-> acc.length + (IF longer THEN Seqlen(Plus(acc.second, 1), r.second) ELSE 0)
                                    - Seqlen(r.first, r.second),
              last |-> i]

\* Range k extended to contain [start, end], with what it swallows
Extended(l, k, start, end) ==
    LET r == l.ranges[k]
        late == Gt(end, r.second)
        grown[i \in k .. Len(l.ranges)] ==
            IF i = k
            THEN [second |-> IF late THEN end ELSE r.second,
                  length |-> l.length
                                + (IF Lt(start, r.first) THEN Seqlen(start, Minus(r.first, 1)) ELSE 0)
                                + (IF late THEN Seqlen(Plus(r.second, 1), end) ELSE 0),
                  last |-> k]
            ELSE Swallow(grown[i - 1], l.ranges[i], i)
    IN  grown[Len(l.ranges)]

InsertWithoutJoining(l, start, end) ==
    LET notBefore == SelectInSeq(l.ranges, LAMBDA r : ~Lt(r.second, start))
        k == IF notBefore = 0 THEN Len(l.ranges) + 1 ELSE notBefore
    IN  [ranges |-> InsertAt(l.ranges, k, Interval(start, end)),
         length |-> l.length + Seqlen(start, end)]

InsertRange(l, start, end) ==
    LET n == Len(l.ranges)
        notBefore == SelectInSeq(l.ranges, LAMBDA r : ~Lt(r.second, start))
        k == IF notBefore = 0 THEN n + 1 ELSE notBefore
    IN  IF k = n + 1 \/ Lt(end, l.ranges[k].first)
        THEN [ranges |-> InsertAt(l.ranges, k, Interval(start, end)),
              length |-> l.length + Seqlen(start, end)]
        ELSE LET first == l.ranges[k].first
                 grown == Extended(l, k, start, end)
             IN  [ranges |-> SubSeq(l.ranges, 1, k - 1)
                              \o <<Interval(IF Lt(start, first) THEN start ELSE first, grown.second)>>
                              \o SubSeq(l.ranges, grown.last + 1, n),
                  length |-> grown.length]

(***************************************************************************)
(* remove(seq): found says whether seq was in the list.  A number inside a *)
(* range splits it, with operator- on the left part.                       *)
(***************************************************************************)
FindRange(l, seq) == SelectInSeq(l.ranges, LAMBDA r : Within(r, seq))

SplitAround(r, start, end) == <<Interval(r.first, Minus(start, 1)), Interval(Plus(end, 1), r.second)>>

RemoveOne(l, seq) ==
    LET k == FindRange(l, seq)
        r == l.ranges[k]
        rest == IF r.first = r.second THEN <<>>
                ELSE IF seq = r.first THEN <<[r EXCEPT !.first = Inc(@)]>>
                ELSE IF seq = r.second THEN <<[r EXCEPT !.second = Dec(@)]>>
                ELSE SplitAround(r, seq, seq)
    IN  IF k = 0
        THEN [found |-> FALSE, list |-> l]
        ELSE [found |-> TRUE,
              list |-> [ranges |-> ReplaceSubSeqAt(k, rest, <<r>>, l.ranges),
                        length |-> l.length - 1]]

(***************************************************************************)
(* remove(start, end): ranges contained in [start, end] go, the ones that  *)
(* stick out on one side are shortened, one that sticks out on both is     *)
(* split.                                                                  *)
(***************************************************************************)
\* What is left of a range whose end is covered by [start, end], and the
\* number of members it loses
CutTail(r, start) ==
    IF Leq(start, r.first)
    THEN [left |-> <<>>, lost |-> Seqlen(r.first, r.second)]
    ELSE [left |-> <<[r EXCEPT !.second = Minus(start, 1)]>>, lost |-> Seqlen(start, r.second)]

\* The same for the range in which [start, end] ends
CutHeadWithoutSplit(r, start, end) ==
    [left |-> <<[r EXCEPT !.first = Plus(end, 1)]>>, lost |-> Seqlen(r.first, end)]

CutHead(r, start, end) ==
    IF ~Leq(r.first, end)
    THEN [left |-> <<r>>, lost |-> 0]
    ELSE IF Leq(start, r.first)
    THEN [left |-> <<[r EXCEPT !.first = Plus(end, 1)]>>, lost |-> Seqlen(r.first, end)]
    ELSE [left |-> SplitAround(r, start, end), lost |-> Seqlen(start, end)]

\* What is left of range i by a loop that begins at range k and stops at j
CutAt(l, i, k, j, start, end) ==
    IF i < k \/ i > j THEN [left |-> <<l.ranges[i]>>, lost |-> 0]
    ELSE IF i < j THEN CutTail(l.ranges[i], start)
    ELSE CutHead(l.ranges[i], start, end)

\* The list after that loop
Cut(l, k, j, start, end) ==
    LET cut[i \in 0 .. Len(l.ranges)] ==
            IF i = 0
            THEN [ranges |-> <<>>, length |-> l.length]
            ELSE [ranges |-> cut[i - 1].ranges \o CutAt(l, i, k, j, start, end).left,
                  length |-> cut[i - 1].length - CutAt(l, i, k, j, start, end).lost]
    IN  cut[Len(l.ranges)]

RemoveRange(l, start, end) ==
    LET n == Len(l.ranges)
        k == SelectInSeq(l.ranges, LAMBDA r :
                \/ Leq(r.first, start) /\ Leq(start, r.second)
                \/ Leq(start, r.first) /\ Leq(r.first, end))
        stop == SelectInSubSeq(l.ranges, k, n, LAMBDA r : ~Geq(end, r.second))
    IN  IF k = 0 THEN l ELSE Cut(l, k, IF stop = 0 THEN n + 1 ELSE stop, start, end)

\* getFirstSequenceNumber and popFirstSequenceNumber, for length > 0
FirstOf(l) == l.ranges[1].first
PopFirst(l) == RemoveOne(l, FirstOf(l)).list
=============================================================================
