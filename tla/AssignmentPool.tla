--------------------------- MODULE AssignmentPool ---------------------------
(***************************************************************************)
(* What the domain server promises about its static assignments: each is   *)
(* free or held by one client, a client holds at most one, and it passes   *)
(* from one client to another only by being free in between.               *)
(***************************************************************************)
CONSTANTS Assignments, Clients, Nobody

VARIABLE holder

Init == holder = [a \in Assignments |-> Nobody]

\* A client takes a free assignment and gives up whatever it held
Take(a, c) ==
    /\ holder[a] = Nobody
    /\ holder' = [b \in Assignments |->
                    IF b = a THEN c ELSE IF holder[b] = c THEN Nobody ELSE holder[b]]

Release(a) == holder[a] # Nobody /\ holder' = [holder EXCEPT ![a] = Nobody]

\* The server starts anew
ReleaseAll == holder' = [a \in Assignments |-> Nobody]

Next ==
    \/ \E a \in Assignments, c \in Clients : Take(a, c)
    \/ \E a \in Assignments : Release(a)
    \/ ReleaseAll

Spec == Init /\ [][Next]_holder
=============================================================================
