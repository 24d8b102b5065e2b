------------------------ MODULE OverteServer_proofs ------------------------
(***************************************************************************)
(* Worlds are kept, a clean tree is saved, and the supervisor's loop leaves *)
(* no server behind, for any number of servers, edits, failures and        *)
(* launches.                                                               *)
(***************************************************************************)
EXTENDS OverteServer, TLAPS

Whole(w) == w.origin \notin {"absent", "short"}

Backups == disk.older \cup {disk.backup}

\* The legacy file that Migrate moves if it can
Source == IF disk.domain # Absent THEN disk.domain ELSE disk.client

AllWhole ==
    /\ \A w \in owed : Whole(w)
    /\ \A w \in {disk.file, disk.domain, disk.client} : w \in {Absent, Short} \/ Whole(w)
    /\ disk.replacement = Absent \/ Whole(disk.replacement)
    /\ step \in {"remove", "backup", "replace", "write", "saving"} => Whole(holding)
    /\ step \in {"running", "saving", "saved"} => Whole(tree)

\* What is owed is in the file, in a backup or, while there is no file, in a legacy file
OwedIsKept ==
    \A w \in owed : \/ w = disk.file \/ w \in Backups
                    \/ disk.file = Absent /\ w = Source

\* Once migrated the legacy files are not needed, and then they are gone
LegacyNotNeeded ==
    /\ step = "clean" => \A w \in owed : w = disk.file \/ w \in Backups
    /\ step \notin {"off", "migrate", "clean"} => disk.domain = Absent /\ disk.client = Absent

\* The file that a step is about to overwrite is owed nobody, or its world was read and
\* is written again
NothingOverwritten ==
    /\ step \in {"seeding", "write"} => disk.file = Short
    /\ step = "replace" => disk.file \notin owed
    /\ step \in {"running", "saving", "saved"} => disk.file = origin \/ disk.file \notin owed

WorldsInv == AllWhole /\ OwedIsKept /\ LegacyNotNeeded /\ NothingOverwritten

LEMMA NoFileWhole == ~Whole(Absent) /\ ~Whole(Short) /\ Absent # Short /\ Whole(Empty)
BY DEF Whole, Absent, Short, Empty, World

-----------------------------------------------------------------------------
(* The set-up of the data directory keeps what is owed *)

LEMMA MigrateKeeps == ASSUME WorldsInv, Migrate PROVE WorldsInv'
<1> USE NoFileWhole DEF WorldsInv
<1>1. step = "migrate" /\ step' = "clean" /\ UNCHANGED <<tree, holding, origin>>
    BY DEF Migrate, Goto, persist
<1>2. CASE owed' = owed \ {Source} /\ Fails
    BY <1>1, <1>2 DEF Migrate, Disk, AllWhole, OwedIsKept, LegacyNotNeeded,
        NothingOverwritten, Source, Backups
<1>3. CASE UNCHANGED owed /\ Works
    BY <1>1, <1>3 DEF Migrate, Disk, AllWhole, OwedIsKept, LegacyNotNeeded,
        NothingOverwritten, Source, Backups
<1> QED BY <1>2, <1>3 DEF Migrate, Source

LEMMA RemoveLegacyKeeps == ASSUME WorldsInv, RemoveLegacy PROVE WorldsInv'
BY NoFileWhole DEF WorldsInv, RemoveLegacy, Goto, persist, Disk, AllWhole, OwedIsKept,
    LegacyNotNeeded, NothingOverwritten, Source, Backups

LEMMA SeedKeeps == ASSUME WorldsInv, SeedCreate \/ SeedWrite PROVE WorldsInv'
<1> USE NoFileWhole DEF WorldsInv
<1>1. CASE SeedCreate
    BY <1>1 DEF SeedCreate, SetFile, persist, Disk, AllWhole, OwedIsKept, LegacyNotNeeded,
        NothingOverwritten, Source, Backups
<1>2. CASE SeedWrite
    <2>1. Whole(World("default", 0))
        BY DEF Whole, World
    <2> QED BY <1>2, <2>1 DEF SeedWrite, SetFile, persist, Disk, AllWhole, OwedIsKept,
            LegacyNotNeeded, NothingOverwritten, Source, Backups
<1> QED BY <1>1, <1>2

-----------------------------------------------------------------------------
(* So does the start of the persist thread *)

LEMMA CleanupKeeps == ASSUME WorldsInv, RemoveOldBackups PROVE WorldsInv'
BY NoFileWhole DEF WorldsInv, RemoveOldBackups, Goto, persist, Disk, AllWhole, OwedIsKept,
    LegacyNotNeeded, NothingOverwritten, Source, Backups

LEMMA ReplacementKeeps ==
    ASSUME WorldsInv, ReadReplacement \/ RemoveReplacement \/ PlaceReplacement
    PROVE  WorldsInv'
<1> USE NoFileWhole DEF WorldsInv
<1>1. CASE ReadReplacement
    BY <1>1 DEF ReadReplacement, AllWhole, OwedIsKept, LegacyNotNeeded, NothingOverwritten,
        Source, Backups
<1>2. CASE RemoveReplacement
    BY <1>2 DEF RemoveReplacement, SetReplacement, persist, Disk, AllWhole, OwedIsKept, LegacyNotNeeded,
        NothingOverwritten, Source, Backups
<1>3. CASE PlaceReplacement
    <2>1. Whole(World("replacement", 0))
        BY DEF Whole, World
    <2> QED BY <1>3, <2>1 DEF PlaceReplacement, SetReplacement, persist, Disk, AllWhole, OwedIsKept,
            LegacyNotNeeded, NothingOverwritten, Source, Backups
<1> QED BY <1>1, <1>2, <1>3

LEMMA ReplaceDataKeeps ==
    ASSUME WorldsInv, BackupCurrentFile \/ OpenFile \/ WriteFile
    PROVE  WorldsInv'
<1> USE NoFileWhole DEF WorldsInv
<1>1. CASE BackupCurrentFile
    BY <1>1 DEF BackupCurrentFile, Goto, persist, Disk, AllWhole, OwedIsKept,
        LegacyNotNeeded, NothingOverwritten, Source, Backups
<1>2. CASE OpenFile
    BY <1>2 DEF OpenFile, SetFile, persist, Disk, AllWhole, OwedIsKept, LegacyNotNeeded,
        NothingOverwritten, Source, Backups
<1>3. CASE WriteFile
    BY <1>3 DEF WriteFile, SetFile, Goto, persist, Disk, AllWhole, OwedIsKept,
        LegacyNotNeeded, NothingOverwritten, Source, Backups
<1> QED BY <1>1, <1>2, <1>3

LEMMA LoadKeeps == ASSUME WorldsInv, Load PROVE WorldsInv'
BY NoFileWhole DEF WorldsInv, Load, Goto, Readable, AllWhole, OwedIsKept, LegacyNotNeeded,
    NothingOverwritten, Source, Backups

-----------------------------------------------------------------------------
(* And so do the edits and the saving of the tree *)

LEMMA EditKeeps == ASSUME WorldsInv, Edit PROVE WorldsInv'
<1>1. Whole(tree) => Whole(tree')
    BY DEF Edit, Whole, World
<1> QED BY <1>1 DEF WorldsInv, Edit, AllWhole, OwedIsKept, LegacyNotNeeded,
        NothingOverwritten, Source, Backups

LEMMA PersistKeeps == ASSUME WorldsInv, Persist PROVE WorldsInv'
<1> USE NoFileWhole DEF WorldsInv
<1>1. CASE Serialise
    BY <1>1 DEF Serialise, Goto, AllWhole, OwedIsKept, LegacyNotNeeded, NothingOverwritten,
        Source, Backups
<1>2. CASE Commit
    <2>1. CASE Works
        BY <1>2, <2>1 DEF Commit, SetFile, Disk, AllWhole, OwedIsKept, LegacyNotNeeded,
            NothingOverwritten, Source, Backups
    <2>2. CASE Fails
        BY <1>2, <2>2 DEF Commit, SetFile, Disk, AllWhole, OwedIsKept, LegacyNotNeeded,
            NothingOverwritten, Source, Backups
    <2> QED BY <1>2, <2>1, <2>2 DEF Commit
<1>3. CASE ClearDirtyBit
    BY <1>3 DEF ClearDirtyBit, Goto, AllWhole, OwedIsKept, LegacyNotNeeded,
        NothingOverwritten, Source, Backups
<1> QED BY <1>1, <1>2, <1>3 DEF Persist

\* A process that is gone, or sets nothing about the file
LEMMA OtherStepKeeps ==
    ASSUME WorldsInv, Gone \/ UNCHANGED persistVars
                \/ (Goto("off", "migrate") /\ UNCHANGED <<disk, persist, faults, owed>>)
                \/ (Goto("ready", "tidy") /\ UNCHANGED <<disk, persist, faults, owed>>)
    PROVE  WorldsInv'
BY NoFileWhole DEF WorldsInv, Gone, persistVars, persist, Goto, AllWhole, OwedIsKept,
    LegacyNotNeeded, NothingOverwritten, Source, Backups

\* A directory that is new, of the old layout, or used before
LEMMA WorldsInit == Init => WorldsInv
<1> SUFFICES ASSUME PersistInit PROVE WorldsInv
    BY DEF Init
<1> PICK file \in {Absent, Old}, backup \in {Absent, Older} :
    \E domain \in {Absent, IF file = Absent THEN Old ELSE Spare} :
    \E client \in {Absent, IF file = Absent /\ domain = Absent THEN Old ELSE Spare} :
        /\ disk = Disk(file, Absent, domain, client, backup, {})
        /\ owed = {file, domain, client, backup} \ {Absent, Spare}
    BY DEF PersistInit
<1> PICK domain \in {Absent, IF file = Absent THEN Old ELSE Spare} :
    \E client \in {Absent, IF file = Absent /\ domain = Absent THEN Old ELSE Spare} :
        /\ disk = Disk(file, Absent, domain, client, backup, {})
        /\ owed = {file, domain, client, backup} \ {Absent, Spare}
    OBVIOUS
<1> PICK client \in {Absent, IF file = Absent /\ domain = Absent THEN Old ELSE Spare} :
        /\ disk = Disk(file, Absent, domain, client, backup, {})
        /\ owed = {file, domain, client, backup} \ {Absent, Spare}
    OBVIOUS
<1>1. /\ Whole(Old) /\ Whole(Older) /\ Whole(Spare)
      /\ Old # Spare /\ Old # Absent /\ Older # Absent /\ Older # Spare
    BY DEF Whole, World, Old, Older, Spare, Absent
<1>2. step = "off"
    BY DEF PersistInit
<1>3. AllWhole
    BY <1>1, <1>2, NoFileWhole DEF Disk, AllWhole
<1>4. OwedIsKept
    BY <1>1, NoFileWhole DEF Disk, OwedIsKept, Source, Backups
<1> QED BY <1>2, <1>3, <1>4 DEF WorldsInv, LegacyNotNeeded, NothingOverwritten

\* What a step of the whole does to the worlds
LEMMA PersistSteps ==
    ASSUME [Next]_vars
    PROVE  \/ SetUp \/ Start \/ Edit \/ Persist \/ PlaceReplacement
           \/ Gone \/ UNCHANGED persistVars
           \/ (Goto("off", "migrate") /\ UNCHANGED <<disk, persist, faults, owed>>)
           \/ (Goto("ready", "tidy") /\ UNCHANGED <<disk, persist, faults, owed>>)
<1>1. CASE LaunchServer
    BY <1>1 DEF LaunchServer
<1>2. CASE SettingUp
    BY <1>2 DEF SettingUp
<1>3. CASE Supervising
    BY <1>3 DEF Supervising
<1>4. CASE StartThread
    BY <1>4 DEF StartThread
<1>5. CASE StartEntities \/ EditEntities \/ PersistEntities \/ Replace
    BY <1>5 DEF StartEntities, EditEntities, PersistEntities, Replace
<1>6. CASE \E s \in Servers :
                BringUp(s) \/ \E how \in {"ended", "failed"} : EndServer(s, how)
    BY <1>6 DEF BringUp, EndServer
<1>7. CASE UNCHANGED vars
    BY <1>7 DEF vars
<1> QED BY <1>1, <1>2, <1>3, <1>4, <1>5, <1>6, <1>7 DEF Next

LEMMA WorldsStep == WorldsInv /\ [Next]_vars => WorldsInv'
BY PersistSteps, MigrateKeeps, RemoveLegacyKeeps, SeedKeeps, CleanupKeeps,
    ReplacementKeeps, ReplaceDataKeeps, LoadKeeps, EditKeeps, PersistKeeps, OtherStepKeeps DEF SetUp, Start

(***************************************************************************)
(* Every world that is owed is on the disk at all times (replaceData,      *)
(* backupCurrentFile, cleanupOldReplacementBackups, migrateLegacyData,     *)
(* seedFileIfAbsent, writeToJSONFile), whenever processes die.  An older   *)
(* backup is owed until it is cleaned up, and a world until the code fails *)
(* to rename or to read it.                                                *)
(***************************************************************************)
THEOREM WorldsAlwaysKept == Spec => []WorldsKept
<1>1. WorldsInv => WorldsKept
    BY DEF WorldsInv, OwedIsKept, WorldsKept, OnDisk, Source, Backups
<1> QED BY <1>1, WorldsInit, WorldsStep, PTL DEF Spec

-----------------------------------------------------------------------------
(* A tree that is saved is dirty until the file is in place, and what is written is *)
(* the tree unless an edit came meanwhile *)

SavingInv ==
    /\ step \in {"saving", "saved"} => dirty
    /\ step = "saving" /\ ~raced => holding = tree
    /\ step = "saved" /\ ~raced => tree = origin

CleanInv == SavingInv /\ CleanTreeIsSaved

LEMMA CleanStep == CleanInv /\ [Next]_vars => CleanInv'
<1> SUFFICES ASSUME CleanInv, [Next]_vars PROVE CleanInv'
    OBVIOUS
<1> USE DEF CleanInv, SavingInv, CleanTreeIsSaved
<1>1. CASE SetUp
    BY <1>1 DEF SetUp, Migrate, RemoveLegacy, SeedCreate, SeedWrite, Goto, persist
<1>2. CASE Start
    BY <1>2 DEF Start, RemoveOldBackups, ReadReplacement, RemoveReplacement, BackupCurrentFile, OpenFile,
        WriteFile, Load, Goto, persist
<1>3. CASE Edit
    BY <1>3 DEF Edit
<1>4. CASE Serialise \/ ClearDirtyBit
    BY <1>4 DEF Serialise, ClearDirtyBit, Goto
<1>5. CASE Commit
    BY <1>5 DEF Commit
<1>6. CASE PlaceReplacement \/ UNCHANGED persistVars
    BY <1>6 DEF PlaceReplacement, persistVars, persist
<1>7. CASE Gone
    BY <1>7 DEF Gone
<1>8. CASE (Goto("off", "migrate") \/ Goto("ready", "tidy"))
                /\ UNCHANGED <<disk, persist, faults, owed>>
    BY <1>8 DEF Goto, persist
<1> QED BY PersistSteps, <1>1, <1>2, <1>3, <1>4, <1>5, <1>6, <1>7, <1>8 DEF Persist

(***************************************************************************)
(* A tree that is taken for clean is the one in the file, unless an edit   *)
(* came between its serialisation and clearDirtyBit (persist).             *)
(***************************************************************************)
THEOREM CleanTreeIsAlwaysSaved == Spec => []CleanTreeIsSaved
<1>1. Init => CleanInv
    BY DEF Init, PersistInit, CleanInv, SavingInv, CleanTreeIsSaved
<1>2. CleanInv => CleanTreeIsSaved
    BY DEF CleanInv
<1> QED BY <1>1, <1>2, CleanStep, PTL DEF Spec

-----------------------------------------------------------------------------
(* While there is a supervisor it knows every server that runs *)

KnowsRunning == pc # "off" => Running \subseteq alive

LEMMA SupervisorSteps ==
    ASSUME [Next]_vars
    PROVE  \/ Launch \/ SetUpDone(TRUE) \/ SetUpDone(FALSE) \/ Fork \/ ForkFails
           \/ Supervise \/ Signal \/ Kill
           \/ \E s \in Servers : \/ Arm(s) \/ Listen(s) \/ Exec(s)
                               \/ \E how \in {"ended", "failed"} : Exit(s, how)
           \/ UNCHANGED supervisorVars
<1>1. CASE LaunchServer
    BY <1>1 DEF LaunchServer
<1>2. CASE SettingUp
    BY <1>2 DEF SettingUp
<1>3. CASE Supervising
    BY <1>3 DEF Supervising
<1>4. CASE StartThread \/ StartEntities \/ EditEntities \/ PersistEntities \/ Replace
    BY <1>4 DEF StartThread, StartEntities, EditEntities, PersistEntities, Replace
<1>5. CASE \E s \in Servers :
                BringUp(s) \/ \E how \in {"ended", "failed"} : EndServer(s, how)
    BY <1>5 DEF BringUp, EndServer
<1>6. CASE UNCHANGED vars
    BY <1>6 DEF vars
<1> QED BY <1>1, <1>2, <1>3, <1>4, <1>5, <1>6 DEF Next

Children == child \in [Servers -> {"none", "forked", "armed", "starting", "serving", "told",
                                    "deaf", "unaware", "ended", "failed", "orphan"}]

LEMMA KnowsStep ==
    ASSUME Children, KnowsRunning, [Next]_vars
    PROVE  Children' /\ KnowsRunning'
<1> USE DEF Children, KnowsRunning, Running
<1>1. CASE Launch \/ UNCHANGED supervisorVars
    BY <1>1 DEF Launch, supervisorVars
<1>2. CASE Die /\ pc' = "off"
    BY <1>2 DEF Die, SIGTERM
<1>3. CASE Fork
    BY <1>3 DEF Fork
<1>4. CASE CheckStop \/ InstallHandlers
    BY <1>4 DEF CheckStop, InstallHandlers, Told, SIGTERM
<1>5. CASE EndRound /\ ~LeavesLoop
    BY <1>5 DEF EndRound, Unreaped, Told, SIGTERM
<1>6. CASE (SetUpDone(TRUE) \/ Signal) /\ ~Die
    BY <1>6 DEF SetUpDone, Signal, Handling
<1>7. ASSUME NEW s \in Servers, Arm(s) \/ Listen(s) \/ Exec(s)
      PROVE  Children' /\ KnowsRunning'
    BY <1>7 DEF Arm, Listen, Exec
<1>8. ASSUME NEW s \in Servers, NEW how \in {"ended", "failed"}, Exit(s, how)
      PROVE  Children' /\ KnowsRunning'
    BY <1>8 DEF Exit
<1>9. Die => pc' = "off"
    BY DEF Die
<1>10. SetUpDone(FALSE) \/ ForkFails \/ Kill \/ (EndRound /\ LeavesLoop) => Die
    BY DEF SetUpDone, ForkFails, Kill, EndRound
<1> HIDE DEF Children, KnowsRunning, Running
<1> QED BY SupervisorSteps, <1>1, <1>2, <1>3, <1>4, <1>5, <1>6, <1>7, <1>8, <1>9, <1>10
        DEF Supervise

(***************************************************************************)
(* runChildren leaves its loop only when no server runs: none was          *)
(* forgotten, whatever exits, signals and failures came in between.        *)
(***************************************************************************)
THEOREM NoServerLeftBehind == Spec => NoneLeftBehind
<1>1. Init => Children /\ KnowsRunning
    BY DEF Init, SupervisorInit, Children, KnowsRunning
<1>2. KnowsRunning /\ [Next]_vars
        => [EndRound /\ pc' = "off" => Running = {}]_supervisorVars
    <2> SUFFICES ASSUME KnowsRunning, EndRound, pc' = "off" PROVE Running = {}
        OBVIOUS
    <2>1. LeavesLoop /\ Running \subseteq alive
        BY DEF EndRound, KnowsRunning
    <2>2. Unreaped \subseteq Vanished
        BY <2>1 DEF LeavesLoop
    <2> QED BY <2>1, <2>2 DEF Running, Unreaped, Vanished
<1> QED BY <1>1, <1>2, KnowsStep, PTL DEF Spec, NoneLeftBehind
=============================================================================
