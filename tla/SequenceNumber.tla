--------------------------- MODULE SequenceNumber ---------------------------
(***************************************************************************)
(* udt::SequenceNumber: the 27-bit sequence number of the reliable         *)
(* transport, which wraps from MAX to 0.  One operator per C++ operator or *)
(* free function; the comparison operators are written for the values an   *)
(* SequenceNumber can hold, 0 .. MAX.                                      *)
(***************************************************************************)
EXTENDS Integers

CONSTANTS
    MAX,        \* SequenceNumber::MAX, 0x07FFFFFF in the code
    THRESHOLD   \* SequenceNumber::THRESHOLD, 0x03FFFFFF in the code

\* Both constants of the header are 2^k - 1, one bit apart.
ASSUME SequenceNumberAssumption ==
    /\ THRESHOLD \in Nat /\ THRESHOLD >= 3
    /\ MAX = 2 * THRESHOLD + 1

SeqNum == 0 .. MAX

LOCAL Abs(x) == IF x < 0 THEN -x ELSE x

\* glm::abs(a._value - b._value) < THRESHOLD, the test all comparisons share
Near(a, b) == Abs(a - b) < THRESHOLD

\* operator++ and operator--
Inc(a) == (a + 1) % (MAX + 1)
Dec(a) == IF a = 0 THEN MAX ELSE a - 1

\* operator+= and operator-= (below zero the latter ends two too low: 0 - 1 is
\* MAX - 2, where operator-- gives MAX)
Plus(a, inc)  == IF a + inc > MAX THEN a + inc - (MAX + 1) ELSE a + inc
Minus(a, dec) == IF a < dec THEN MAX - (dec - a + 1) ELSE a - dec

\* The comparisons.  (Operators named for what they lack are never used by the
\* system: they are the bugs the properties are shown to catch.)
LtWithoutWrap(a, b) == a < b
Lt(a, b)  == IF Near(a, b) THEN a < b  ELSE b < a
Gt(a, b)  == IF Near(a, b) THEN a > b  ELSE b > a
Leq(a, b) == IF Near(a, b) THEN a <= b ELSE b <= a
Geq(a, b) == IF Near(a, b) THEN a >= b ELSE b >= a

\* The number of sequence numbers from a to b, both counted
SeqlenOffByOneOnWrap(a, b) == IF a <= b THEN b - a + 1 ELSE b - a + MAX + 1
Seqlen(a, b) == IF a <= b THEN b - a + 1 ELSE b - a + MAX + 2

\* The signed distance from a to b
Seqoff(a, b) ==
    IF Near(a, b) THEN b - a
    ELSE IF a < b THEN b - a - MAX - 1
                  ELSE b - a + MAX + 1
=============================================================================
