---------------------------- MODULE Supervisor ----------------------------
(***************************************************************************)
(* flagSupervisor and runChildren of overte-server: one process sets up    *)
(* the data directory, forks the servers, and looks after them until all   *)
(* have ended.  A signal, a server that fails, a fork that fails and the   *)
(* death of the supervisor itself can come at any point.                   *)
(*                                                                         *)
(* A child asks to be told when its parent dies, and installs its signal   *)
(* handler, some time after it was forked.  Until then SIGTERM ends it;    *)
(* from then until its event loop runs, the handler's quit() finds no loop *)
(* to leave and the signal is lost.  What a server does in between is its  *)
(* own (OverteServer).                                                     *)
(***************************************************************************)
EXTENDS Naturals

CONSTANTS
    N,              \* the servers are forked in the order 1 .. N
    MaxLaunches     \* bound on the supervisors that follow one another

ASSUME SupervisorAssumption == N \in Nat /\ MaxLaunches \in Nat

Servers == 1 .. N

VARIABLES
    launches,       \* how often the supervisor was started
    pc,             \* of the supervisor: off, setup, fork, check or reap
    next,           \* the server to be forked
    stopRequested,  \* g_stopRequested, set by the signal handler
    stopping,       \* the servers have been told to stop
    unexpected,     \* anyUnexpectedExit
    alive,          \* the servers that were forked and not reaped yet
    child           \* what each process does: none, forked, armed, starting (the handler
                    \* is there, the loop is not), serving, told (to stop), deaf (told while
                    \* starting), unaware (serving after that), ended, failed, or orphan
                    \* (armed too late to be told)

supervisorVars == <<launches, pc, next, stopRequested, stopping, unexpected, alive, child>>

Running == {s \in Servers : child[s] \notin {"none", "ended", "failed"}}

\* What SIGTERM makes of a child
SIGTERM(c) == CASE c \in {"forked", "armed", "serving", "unaware"} -> "told"
                [] c = "starting" -> "deaf"
                [] OTHER -> c

Told(S) == [s \in Servers |-> IF s \in S THEN SIGTERM(child[s]) ELSE child[s]]

\* The supervisor's process ends: the kernel tells the children that asked for it, and
\* reaps those that have ended
Die ==
    /\ pc' = "off" /\ next' = 1 /\ UNCHANGED launches
    /\ stopRequested' = FALSE /\ stopping' = FALSE /\ unexpected' = FALSE /\ alive' = {}
    /\ child' = [s \in Servers |->
                    CASE child[s] = "forked" -> "forked"
                      [] child[s] \in {"ended", "failed"} -> "none"
                      [] OTHER -> SIGTERM(child[s])]

SupervisorInit ==
    /\ launches = 0 /\ pc = "off" /\ next = 1
    /\ stopRequested = FALSE /\ stopping = FALSE /\ unexpected = FALSE /\ alive = {}
    /\ child = [s \in Servers |-> "none"]

\* It is started again when nothing of the last run is left: setupDataDir is "only safe to
\* run once, before any other process of the same data dir is alive", which nothing checks
Launch ==
    /\ pc = "off" /\ \A s \in Servers : child[s] = "none"
    /\ launches < MaxLaunches /\ launches' = launches + 1
    /\ pc' = "setup"
    /\ UNCHANGED <<next, stopRequested, stopping, unexpected, alive, child>>

SetUpDone(ok) ==
    /\ pc = "setup"
    /\ IF ok THEN /\ pc' = "fork"
                  /\ UNCHANGED <<launches, next, stopRequested, stopping, unexpected, alive, child>>
             ELSE Die

Fork ==
    /\ pc = "fork" /\ next \in Servers
    /\ child' = [child EXCEPT ![next] = "forked"]
    /\ alive' = alive \cup {next} /\ next' = next + 1
    /\ UNCHANGED <<launches, pc, stopRequested, stopping, unexpected>>

\* runChildren returns, and the servers forked so far lose their parent
ForkFails == pc = "fork" /\ next \in Servers /\ Die

InstallHandlers ==
    /\ pc = "fork" /\ next \notin Servers
    /\ pc' = "check"
    /\ UNCHANGED <<launches, next, stopRequested, stopping, unexpected, alive, child>>

Handling == pc \in {"check", "reap"}

\* SIGINT or SIGTERM: forwardSignal, or the end of a process without handlers
Signal ==
    \/ /\ Handling /\ ~stopRequested
       /\ stopRequested' = TRUE
       /\ UNCHANGED <<launches, pc, next, stopping, unexpected, alive, child>>
    \/ pc \in {"setup", "fork"} /\ Die

Kill == pc # "off" /\ Die

\* One round of the loop
CheckStop ==
    /\ pc = "check"
    /\ pc' = "reap"
    /\ IF stopRequested /\ ~stopping THEN stopping' = TRUE /\ child' = Told(alive)
                                     ELSE UNCHANGED <<stopping, child>>
    /\ UNCHANGED <<launches, next, stopRequested, unexpected, alive>>

Vanished == {s \in alive : child[s] = "none"}

\* What is left of alive when each server has been waited for once.  One that is not there
\* any more without having been reaped (see Exit) stays: waitpid returns -1
Unreaped == {s \in alive : child[s] \notin {"ended", "failed"}}

AnyUnexpectedExit == unexpected \/ (~stopping /\ \E s \in alive : child[s] = "failed")

\* Unless it is stopping, the loop ends when waitpid knows no server that runs (allReaped),
\* otherwise when all were reaped
LeavesLoopWhenStopping == stopping \/ Unreaped \subseteq Vanished

LeavesLoop == IF stopping \/ AnyUnexpectedExit THEN Unreaped = {}
                                               ELSE Unreaped \subseteq Vanished

\* A server that failed stops the others
StopsOthersNever == FALSE
StopsOthers == AnyUnexpectedExit /\ ~stopping

\* The rest of the round.  What waitpid finds out about a server depends on no other, and
\* the ends of two servers commute: they are all waited for in one step
EndRound ==
    /\ pc = "reap"
    /\ IF LeavesLoop THEN Die
       ELSE /\ pc' = "check" /\ alive' = Unreaped /\ unexpected' = AnyUnexpectedExit
            /\ stopping' = (stopping \/ StopsOthers)
            /\ child' = [s \in Servers |->
                            IF s \in alive \ Unreaped THEN "none"
                            ELSE IF StopsOthers THEN Told(alive)[s] ELSE child[s]]
            /\ UNCHANGED <<launches, next, stopRequested>>

\* A child asks for the signal at the death of its parent; once that has died, in vain
Arm(s) ==
    /\ child[s] = "forked"
    /\ child' = [child EXCEPT ![s] = IF pc = "off" THEN "orphan" ELSE "armed"]
    /\ UNCHANGED <<launches, pc, next, stopRequested, stopping, unexpected, alive>>

\* Its handler is installed, and then its event loop runs
Listen(s) ==
    /\ child[s] = "armed"
    /\ child' = [child EXCEPT ![s] = "starting"]
    /\ UNCHANGED <<launches, pc, next, stopRequested, stopping, unexpected, alive>>

Exec(s) ==
    /\ child[s] \in {"starting", "deaf"}
    /\ child' = [child EXCEPT ![s] = IF child[s] = "starting" THEN "serving" ELSE "unaware"]
    /\ UNCHANGED <<launches, pc, next, stopRequested, stopping, unexpected, alive>>

\* A server ends, by itself or told to, well or not.  What ends without a parent is gone;
\* so is, before the supervisor resets SIGCHLD, what ends while that signal is ignored.
Exit(s, how) ==
    /\ s \in Running
    /\ \E left \in IF pc = "off" THEN {"none"}
                   ELSE IF pc = "fork" THEN {"none", how} ELSE {how} :
            child' = [child EXCEPT ![s] = left]
    /\ UNCHANGED <<launches, pc, next, stopRequested, stopping, unexpected, alive>>

Supervise == InstallHandlers \/ CheckStop \/ EndRound

-----------------------------------------------------------------------------
(***************************************************************************)
(* runChildren does not return from its loop while a server runs, whether  *)
(* its children end well or not, before it looks or after, or are not to   *)
(* be waited for.  (When a fork fails it returns before the loop, and does *)
(* leave the servers forked so far behind, main.cpp:742.)                  *)
(***************************************************************************)
NoneLeftBehind == [][EndRound /\ pc' = "off" => Running = {}]_supervisorVars

(***************************************************************************)
(* A stop request that reached the handler, a server that fails, and the   *)
(* death of the supervisor bring every server down, and the supervisor     *)
(* after them, but for the servers no signal reaches: one that asked too   *)
(* late to be told of its parent's death (PR_SET_PDEATHSIG), and one that  *)
(* is told between ShutdownEventListener and exec(), as SIGTERM is sent    *)
(* once and its quit() is lost.  While such a server runs, or one has      *)
(* vanished and is waited for all the same, the supervisor's loop does not *)
(* end.                                                                    *)
(***************************************************************************)
Unreached == {s \in Servers : child[s] \in {"orphan", "deaf", "unaware"}}

AllDown == Running \subseteq Unreached /\ (pc = "off" \/ Running \cup Vanished # {})

EverythingStops ==
    pc = "off" \/ stopRequested \/ (Handling /\ \E s \in alive : child[s] = "failed") ~> AllDown
=============================================================================
