--------------------------- MODULE OctreePersist ---------------------------
(***************************************************************************)
(* The file in which the entity server keeps its tree, from the set-up of  *)
(* the data directory, which migrates or seeds it, through its replacement *)
(* and its loading by the persist thread to the rounds of saving and the   *)
(* end of the process.  One process at a time works on the file: first the *)
(* supervisor, then the entity server (OverteServer says when).            *)
(*                                                                         *)
(* A world is what a tree or a file holds: where it comes from and how     *)
(* often it was edited.  A file whose writing was cut short is read as     *)
(* nothing.  Any operation on files may fail, MaxFaults of them do.  Ages  *)
(* and sizes of backups are left out: which of them cleaning up removes is *)
(* open, but for the newest one.                                           *)
(***************************************************************************)
EXTENDS Naturals

CONSTANTS
    MaxEdits,   \* bound on the edits of a world
    MaxFaults   \* bound on the operations that fail

ASSUME PersistAssumption == MaxEdits \in Nat /\ MaxFaults \in Nat

World(origin, edits) == [origin |-> origin, edits |-> edits]

Absent == World("absent", 0)    \* no file
Short == World("short", 0)      \* a file that is not complete
Empty == World("empty", 0)      \* the tree that is there when nothing was read

\* What was there before: the world in use, one that it displaced, and one that is left
\* in a legacy directory although it is not in use
Old == World("old", 0)
Older == World("older", 0)
Spare == World("spare", 0)

VARIABLES
    disk,       \* file, its replacement, the legacy files, the newest backup, older ones
    step,       \* of the process that works on the file
    tree,       \* the world in memory
    dirty,      \* whether it has to be saved
    holding,    \* what was read of the replacement, or serialised of the tree
    faults,     \* how many operations failed
    origin,     \* history: the saved world the tree was made from
    owed,       \* history: the worlds a user may expect to find on the disk; not one whose
                \* rename or reading failed, or that was an older backup and cleaned up
    raced       \* history: an edit came while the tree was being saved

persist == <<tree, dirty, holding, origin, raced>>
persistVars == <<disk, step, tree, dirty, holding, faults, origin, owed, raced>>

Disk(file, replacement, domain, client, backup, older) ==
    [file |-> file, replacement |-> replacement, domain |-> domain, client |-> client,
     backup |-> backup, older |-> older]

SetFile(w) ==
    disk' = Disk(w, disk.replacement, disk.domain, disk.client, disk.backup, disk.older)

SetReplacement(w) ==
    disk' = Disk(disk.file, w, disk.domain, disk.client, disk.backup, disk.older)

OnDisk == {disk.file, disk.domain, disk.client, disk.backup} \cup disk.older

Fails == faults < MaxFaults /\ faults' = faults + 1
Works == UNCHANGED faults

Goto(from, to) == step = from /\ step' = to

-----------------------------------------------------------------------------
(* The supervisor sets up the data directory *)

\* migrateLegacyData: a legacy file takes the place of none, the domain server's first;
\* a rename that fails is not noticed
Migrate ==
    LET one == disk.domain # Absent
        both == one /\ disk.client # Absent
        fromDomain == Disk(disk.domain, disk.replacement, Absent, disk.client,
                           disk.backup, disk.older)
        fromClient == Disk(disk.client, disk.replacement, disk.domain, Absent,
                           disk.backup, disk.older)
    IN /\ Goto("migrate", "clean")
       /\ \/ /\ Works /\ UNCHANGED owed
             /\ disk' = IF disk.file # Absent THEN disk
                        ELSE IF one THEN fromDomain ELSE fromClient
          \/ /\ Fails /\ owed' = owed \ {IF one THEN disk.domain ELSE disk.client}
             /\ disk.file = Absent /\ (one \/ disk.client # Absent)
             /\ disk' = IF both THEN fromClient ELSE disk
       /\ UNCHANGED persist

RemoveLegacy ==
    /\ Goto("clean", "seed")
    /\ disk' = Disk(disk.file, disk.replacement, Absent, Absent, disk.backup, disk.older)
    /\ Works /\ UNCHANGED <<persist, owed>>

\* seedFileIfAbsent creates the file, or finds that there is one
SeedCreate ==
    /\ step = "seed"
    /\ IF disk.file # Absent THEN Works /\ UNCHANGED disk /\ step' = "ready"
       ELSE \/ Works /\ SetFile(Short) /\ step' = "seeding"
            \/ Fails /\ UNCHANGED disk /\ step' = "off"
    /\ UNCHANGED <<persist, owed>>

\* A write that fails leaves a file behind, and stops the supervisor
SeedWrite ==
    /\ step = "seeding"
    /\ \/ /\ Works /\ SetFile(World("default", 0)) /\ step' = "ready"
          /\ owed' = owed \cup {World("default", 0)}
       \/ Fails /\ step' = "off" /\ UNCHANGED <<disk, owed>>
    /\ UNCHANGED persist

-----------------------------------------------------------------------------
(* OctreePersistThread::start: old backups are cleaned up, a replacement is removed, the *)
(* current file moved to a backup, and the replacement written in its place *)

\* cleanupOldReplacementBackups, whether there are too many, they are too large, or they
\* cannot be removed
RemoveOldBackups ==
    /\ Goto("tidy", "start")
    /\ \E gone \in SUBSET disk.older :
            /\ disk' = Disk(disk.file, disk.replacement, disk.domain, disk.client,
                            disk.backup, disk.older \ gone)
            /\ owed' = owed \ (gone \ {disk.file, disk.backup})
    /\ Works /\ UNCHANGED persist

ReadReplacement ==
    /\ step = "start"
    /\ IF disk.replacement = Absent
       THEN Works /\ step' = "load" /\ UNCHANGED holding
       ELSE \/ Works /\ step' = "remove" /\ holding' = disk.replacement
            \/ Fails /\ step' = "load" /\ UNCHANGED holding
    /\ UNCHANGED <<disk, tree, dirty, origin, raced, owed>>

RemoveReplacement ==
    /\ step = "remove"
    /\ \/ Works /\ step' = "backup" /\ SetReplacement(Absent)
       \/ Fails /\ step' = "load" /\ UNCHANGED disk
    /\ UNCHANGED <<persist, owed>>

\* What backupCurrentFile returns is not looked at
BackupCurrentFile ==
    /\ Goto("backup", "replace")
    /\ \/ /\ Works
          /\ disk' = IF disk.file = Absent THEN disk
                     ELSE Disk(Absent, disk.replacement, disk.domain, disk.client,
                               disk.file, disk.older \cup ({disk.backup} \ {Absent}))
          /\ UNCHANGED owed
       \/ Fails /\ disk.file # Absent /\ owed' = owed \ {disk.file} /\ UNCHANGED disk
    /\ UNCHANGED persist

\* replaceData: the file is truncated when it is opened
OpenFile ==
    /\ step = "replace"
    /\ \/ Works /\ SetFile(Short) /\ step' = "write"
       \/ Fails /\ UNCHANGED disk /\ step' = "load"
    /\ UNCHANGED <<persist, owed>>

WriteFile ==
    /\ Goto("write", "load")
    /\ \/ Works /\ SetFile(holding) /\ owed' = owed \cup {holding}
       \/ Fails /\ UNCHANGED <<disk, owed>>
    /\ UNCHANGED persist

Readable(w) == w \notin {Absent, Short}

\* A file that cannot be read is taken for an empty world
Load ==
    /\ Goto("load", "running")
    /\ \/ /\ Works /\ UNCHANGED owed
          /\ tree' = IF Readable(disk.file) THEN disk.file ELSE Empty
       \/ /\ Fails /\ Readable(disk.file)
          /\ tree' = Empty /\ owed' = owed \ {disk.file}
    /\ origin' = tree' /\ dirty' = FALSE /\ raced' = FALSE /\ holding' = Empty
    /\ UNCHANGED disk

-----------------------------------------------------------------------------
(* The tree is edited by the threads of the entity server while it is saved *)

EditUnmarked ==
    /\ step \in {"running", "saving", "saved"}
    /\ tree.edits < MaxEdits
    /\ tree' = World(tree.origin, tree.edits + 1)
    /\ raced' = (step # "running")
    /\ UNCHANGED <<disk, step, dirty, holding, faults, origin, owed>>

Edit ==
    /\ step \in {"running", "saving", "saved"}
    /\ tree.edits < MaxEdits
    /\ tree' = World(tree.origin, tree.edits + 1) /\ dirty' = TRUE
    /\ raced' = (step # "running")
    /\ UNCHANGED <<disk, step, holding, faults, origin, owed>>

\* persist: the tree is serialised,
Serialise ==
    /\ Goto("running", "saving") /\ dirty
    /\ holding' = tree /\ raced' = FALSE
    /\ UNCHANGED <<disk, tree, dirty, faults, origin, owed>>

\* the file takes the place of the last one,
CommitInPlace ==
    \/ /\ step = "saving" /\ disk.file # Short
       /\ SetFile(Short)
       /\ UNCHANGED <<step, persist, faults, owed>>
    \/ /\ Goto("saving", "saved") /\ disk.file = Short
       /\ SetFile(holding)
       /\ owed' = (owed \ {origin}) \cup {holding} /\ origin' = holding
       /\ UNCHANGED <<tree, dirty, holding, faults, raced>>

CommitUnchecked ==
    /\ Goto("saving", "saved")
    /\ \/ /\ Works /\ SetFile(holding)
          /\ owed' = (owed \ {origin}) \cup {holding} /\ origin' = holding
       \/ Fails /\ UNCHANGED <<disk, owed, origin>>
    /\ UNCHANGED <<tree, dirty, holding, raced>>

Commit ==
    /\ step = "saving"
    /\ \/ /\ Works /\ SetFile(holding) /\ step' = "saved"
          /\ owed' = (owed \ {origin}) \cup {holding} /\ origin' = holding
       \/ Fails /\ step' = "running" /\ UNCHANGED <<disk, owed, origin>>
    /\ holding' = Empty
    /\ UNCHANGED <<tree, dirty, raced>>

\* and the tree is taken for clean
ClearDirtyBit ==
    /\ Goto("saved", "running")
    /\ dirty' = FALSE
    /\ UNCHANGED <<disk, tree, holding, faults, origin, owed, raced>>

\* A tool leaves a file to be applied at the next start; before the process has ended it
\* makes no difference yet
PlaceReplacement ==
    /\ step = "off"
    /\ disk.replacement = Absent /\ SetReplacement(World("replacement", 0))
    /\ UNCHANGED <<step, persist, faults, owed>>

\* The process is gone, and the tree with it
Gone ==
    /\ step' = "off"
    /\ tree' = Empty /\ dirty' = FALSE /\ holding' = Empty /\ origin' = Empty
    /\ raced' = FALSE
    /\ UNCHANGED <<disk, faults, owed>>

\* A new data directory, one that was used before, or one with files of the domain server
\* and the assignment client of the old layout: the first in that order is in use
PersistInit ==
    /\ \E file \in {Absent, Old}, backup \in {Absent, Older} :
       \E domain \in {Absent, IF file = Absent THEN Old ELSE Spare} :
       \E client \in {Absent, IF file = Absent /\ domain = Absent THEN Old ELSE Spare} :
            /\ backup # Absent => domain = Absent /\ client = Absent
            /\ disk = Disk(file, Absent, domain, client, backup, {})
            /\ owed = {file, domain, client, backup} \ {Absent, Spare}
    /\ step = "off"
    /\ tree = Empty /\ dirty = FALSE /\ holding = Empty /\ origin = Empty /\ raced = FALSE
    /\ faults = 0

SetUp == Migrate \/ RemoveLegacy \/ SeedCreate \/ SeedWrite

Start ==
    \/ RemoveOldBackups \/ ReadReplacement \/ RemoveReplacement \/ BackupCurrentFile
    \/ OpenFile \/ WriteFile \/ Load

Persist == Serialise \/ Commit \/ ClearDirtyBit

-----------------------------------------------------------------------------
(***************************************************************************)
(* A world that was saved, seeded or migrated, and the one a replacement   *)
(* displaces, is still on the disk whatever crashes in between, as the     *)
(* file, a backup or a legacy file: the file and the newest backup at all  *)
(* times, an older backup until it is cleaned up.  (A world whose rename   *)
(* or reading fails, where the code goes on and overwrites or removes it,  *)
(* is not counted on any more.)  replaceData, backupCurrentFile,           *)
(* cleanupOldReplacementBackups, migrateLegacyData, seedFileIfAbsent,      *)
(* writeToJSONFile.                                                        *)
(***************************************************************************)
WorldsKept == owed \subseteq OnDisk

(***************************************************************************)
(* A tree that is taken for clean is the one that was saved, unless an     *)
(* edit came between the serialisation and clearDirtyBit (persist).        *)
(***************************************************************************)
CleanTreeIsSaved == step = "running" /\ ~dirty /\ ~raced => tree = origin

(***************************************************************************)
(* An entity server that keeps running saves every edit in the end, with   *)
(* the same exception, even when saving has failed before (process).       *)
(***************************************************************************)
EditsReachFile ==
    step = "running" /\ dirty /\ ~raced
        ~> step = "off" \/ raced \/ disk.file = tree
=============================================================================
