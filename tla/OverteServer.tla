---------------------------- MODULE OverteServer ----------------------------
(***************************************************************************)
(* overte-server as a whole: the supervisor sets up the data directory and *)
(* forks the servers; the entity server among them loads, edits and saves  *)
(* its world until it ends or dies.                                        *)
(***************************************************************************)
EXTENDS Supervisor, OctreePersist

CONSTANTS Entity    \* the entity server among the servers

ASSUME EntityAssumption == Entity \in Servers

vars == <<supervisorVars, persistVars>>

Init == SupervisorInit /\ PersistInit

\* The data directory is set up by the supervisor's process: what it was doing ends with
\* it, what the entity server does goes on
Supervising ==
    /\ \/ SetUpDone(TRUE) /\ step = "ready"
       \/ Fork \/ ForkFails \/ Supervise \/ Signal \/ Kill
    /\ IF pc' = "off" /\ Entity \notin Running THEN Gone ELSE UNCHANGED persistVars

LaunchServer == Launch /\ Goto("off", "migrate") /\ UNCHANGED <<disk, persist, faults, owed>>

SettingUp ==
    /\ pc = "setup" /\ SetUp
    /\ IF step' = "off" THEN SetUpDone(FALSE) ELSE UNCHANGED supervisorVars

Alive == Entity \in Running

\* The event loop runs and the settings of the domain have come
StartThread ==
    /\ child[Entity] \in {"serving", "unaware", "orphan"} /\ Goto("ready", "tidy")
    /\ UNCHANGED <<supervisorVars, disk, persist, faults, owed>>

StartEntities == Alive /\ Start /\ UNCHANGED supervisorVars
EditEntities == Alive /\ Edit /\ UNCHANGED supervisorVars
PersistEntities == Alive /\ Persist /\ UNCHANGED supervisorVars

Replace == PlaceReplacement /\ UNCHANGED supervisorVars

BringUp(s) == (Arm(s) \/ Listen(s) \/ Exec(s)) /\ UNCHANGED persistVars

\* A server that ends well lets its persist thread finish what it is doing, but not save
\* (OctreeServer::aboutToFinish)
EndServer(s, how) ==
    /\ Exit(s, how)
    /\ IF s = Entity THEN Gone /\ (how = "ended" => step \in {"ready", "running"})
                     ELSE UNCHANGED persistVars

EndTold(s) == child[s] = "told" /\ \E how \in {"ended", "failed"} : EndServer(s, how)

Next ==
    \/ LaunchServer \/ SettingUp \/ Supervising
    \/ StartThread \/ StartEntities \/ EditEntities \/ PersistEntities \/ Replace
    \/ \E s \in Servers : BringUp(s) \/ \E how \in {"ended", "failed"} : EndServer(s, how)

\* The supervisor, a server that starts and the persist thread go on; a server that the
\* signal killed or whose loop it ended comes to its end
Spec ==
    /\ Init /\ [][Next]_vars
    /\ WF_vars(Supervising /\ Supervise)
    /\ WF_vars(StartEntities) /\ WF_vars(PersistEntities)
    /\ \A s \in Servers : WF_vars(BringUp(s)) /\ WF_vars(EndTold(s))
=============================================================================
