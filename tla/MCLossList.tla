----------------------------- MODULE MCLossList -----------------------------
(***************************************************************************)
(* Every sequence of LossList calls whose arguments meet the methods'      *)
(* assertions, on up to Window consecutive numbers that start at base and  *)
(* do not pass the wrap; call is the last one with its result.  Checked to *)
(* implement LossSet.                                                      *)
(***************************************************************************)
EXTENDS LossList

CONSTANTS Bases, Window

\* Numbers further apart than THRESHOLD are in no order
ASSUME HistoryAssumption == Bases \subseteq SeqNum /\ Window \in 1 .. THRESHOLD

VARIABLES base, list, call

listVars == <<base, list, call>>

Numbers == {base + k : k \in 0 .. Window - 1} \cap SeqNum

Called(op, start, end, result) ==
    call' = [op |-> op, start |-> start, end |-> end, result |-> result]

ListInit == base \in Bases /\ list = EmptyList /\ call = [op |-> "none"]

CallAppend ==
    \E start, end \in Numbers :
        /\ Leq(start, end) /\ AppendsAtEnd(list, start)
        /\ list' = IF start = end THEN AppendOne(list, start) ELSE AppendRange(list, start, end)
        /\ Called("append", start, end, TRUE)

CallInsert ==
    \E start, end \in Numbers :
        /\ Leq(start, end)
        /\ list' = InsertRange(list, start, end)
        /\ Called("insert", start, end, TRUE)

CallRemove ==
    \E seq \in Numbers :
        /\ list' = RemoveOne(list, seq).list
        /\ Called("remove", seq, seq, RemoveOne(list, seq).found)

CallRemoveRange ==
    \E start, end \in Numbers :
        /\ Leq(start, end)
        /\ list' = RemoveRange(list, start, end)
        /\ Called("removeRange", start, end, TRUE)

CallPop ==
    /\ list.length > 0
    /\ list' = PopFirst(list)
    /\ Called("pop", FirstOf(list), FirstOf(list), TRUE)

ListNext ==
    /\ CallAppend \/ CallInsert \/ CallRemove \/ CallRemoveRange \/ CallPop
    /\ UNCHANGED base

ListSpec == ListInit /\ [][ListNext]_listVars

(***************************************************************************)
(* Every call returns, removes and adds what the same call on a set of     *)
(* sequence numbers would, and the separately kept length stays the number *)
(* of members: getLength() > 0 guards every access to the first range.     *)
(***************************************************************************)
Abstract == INSTANCE LossSet WITH missing <- Members(list), size <- list.length

ImplementsLossSet == Abstract!Spec

(***************************************************************************)
(* The ranges stay sorted and disjoint: nextACK reads only the first one,  *)
(* and the search loops of insert and remove stop at the first match.      *)
(***************************************************************************)
SortedDisjoint ==
    /\ \A i \in 1 .. Len(list.ranges) : Leq(list.ranges[i].first, list.ranges[i].second)
    /\ \A i \in 1 .. Len(list.ranges) - 1 :
            Lt(list.ranges[i].second, list.ranges[i + 1].first)

(***************************************************************************)
(* The comparisons order two numbers that are less than THRESHOLD apart by *)
(* which was reached later, on either side of the wrap: what every "newer  *)
(* than" test in Connection, SendQueue and LossList relies on.             *)
(***************************************************************************)
OrderIsDistance ==
    \A dist \in 0 .. THRESHOLD - 1 :
        LET seq == Plus(base, dist)
        IN /\ Leq(base, seq) /\ Geq(seq, base) /\ ~Gt(base, seq) /\ ~Lt(seq, base)
           /\ Lt(base, seq) <=> dist > 0
           /\ Gt(seq, base) <=> dist > 0
           /\ Leq(seq, base) <=> dist = 0
           /\ Geq(base, seq) <=> dist = 0

(***************************************************************************)
(* seqlen counts the numbers of a range whether or not it passes the wrap  *)
(* (LossList lengths, the flow window test), seqoff returns the signed     *)
(* distance, and ++ and -- change it by one.                               *)
(***************************************************************************)
LengthIsDistance ==
    \A dist \in 0 .. THRESHOLD - 1 :
        LET seq == Plus(base, dist)
        IN /\ Seqlen(base, seq) = dist + 1
           /\ Seqoff(base, seq) = dist /\ Seqoff(seq, base) = -dist
           /\ Inc(seq) = Plus(base, dist + 1) /\ Dec(Inc(seq)) = seq
=============================================================================
