------------------------------ MODULE LossSet ------------------------------
(***************************************************************************)
(* What udt::LossList promises: a set of sequence numbers.  call is the    *)
(* last method called, with what it returned: for remove(seq) whether the  *)
(* number was in the set, for pop the earliest number.                     *)
(***************************************************************************)
EXTENDS SequenceNumber, FiniteSets

VARIABLES missing, size, call

vars == <<missing, size, call>>

Run(start, end) == {seq \in SeqNum : Leq(start, seq) /\ Leq(seq, end)}

Earliest(S) == CHOOSE seq \in S : \A other \in S : Leq(seq, other)

Called(op, start, end, result) ==
    call' = [op |-> op, start |-> start, end |-> end, result |-> result]

Init == missing = {} /\ size = 0 /\ call = [op |-> "none"]

\* append may only be called past the end, insert anywhere
Add(op) ==
    \E start, end \in SeqNum :
        /\ Called(op, start, end, TRUE)
        /\ Leq(start, end)
        /\ op = "append" => \A seq \in missing : Lt(seq, start)
        /\ missing' = missing \cup Run(start, end)

RemoveSeq ==
    \E seq \in SeqNum :
        /\ Called("remove", seq, seq, seq \in missing)
        /\ missing' = missing \ {seq}

RemoveRun ==
    \E start, end \in SeqNum :
        /\ Called("removeRange", start, end, TRUE)
        /\ Leq(start, end)
        /\ missing' = missing \ Run(start, end)

Pop ==
    /\ missing # {}
    /\ LET seq == Earliest(missing)
       IN  missing' = missing \ {seq} /\ Called("pop", seq, seq, TRUE)

Next ==
    /\ Add("append") \/ Add("insert") \/ RemoveSeq \/ RemoveRun \/ Pop
    /\ size' = Cardinality(missing')

Spec == Init /\ [][Next]_vars
=============================================================================
