---------------------------- MODULE AssetServer ----------------------------
(***************************************************************************)
(* The asset server: a map from paths to content hashes, kept in memory    *)
(* and in map.json, the files named by those hashes, and what baking adds  *)
(* to both under a hidden folder per asset.  Requests and results of bakes *)
(* are handled by one thread, uploads written by a pool of threads, bakes  *)
(* run by another.                                                         *)
(*                                                                         *)
(* A hash stands for its content.  What an asset bakes to is one file, the *)
(* one a request is redirected to, or one of no use; a user may upload the *)
(* same content.  A meta file's content is its hash.                       *)
(* Any write of map.json and any removal of a file may fail, any step be   *)
(* cut short by a crash; faults counts the failures, those of one cleanup  *)
(* as one.  A folder cannot be renamed (isValidFilePath refuses a trailing *)
(* slash).                                                                 *)
(***************************************************************************)
EXTENDS Naturals, Functions

CONSTANTS
    Contents,   \* hashes of the files users upload
    Paths,      \* the paths users map
    Bakeable,   \* the paths whose extension says that their asset is baked
    BakedHash,  \* what the contents that can be baked bake to
    MaxFaults,  \* bound on failed writes of map.json, cleanups and uploads
    None

\* The hidden folder of an asset: its bake, under the plain name or the one its meta
\* file redirects to, and the meta file
Hidden == Contents \X {"plain", "redirect", "meta"}

Keys == Paths \cup Hidden

Meta(failed, target) == [failed |-> failed, target |-> target]
Metas == [failed : BOOLEAN, target : Contents \cup {None}]

\* The hidden folder is not the users'
ASSUME AssetAssumption ==
    /\ Bakeable \subseteq Paths /\ Paths \cap Hidden = {}
    /\ MaxFaults \in Nat

Requests ==
    [op : {"Set"}, path : Paths, hash : Contents]
        \cup [op : {"Delete"}, keys : SUBSET Paths \cup {Keys}]
        \cup [op : {"Rename"}, from : Paths, to : Paths]
        \cup [op : {"SetBaking"}, path : Paths, enabled : BOOLEAN]

VARIABLES
    phase,      \* of the assignment: setup, running, replaying (only that, after a setup
                \* that failed), finishing or stopped
    server,     \* mappings, map.json, files, pending bakes and faults
    partial,    \* the uploads of which not everything is written, under way or cut short
    lost        \* history: the files that failed uploads have removed

vars == <<phase, server, partial, lost>>

Server(mappings, saved, files, pending, faults) ==
    [mappings |-> mappings, saved |-> saved, files |-> files,
     pending |-> pending, faults |-> faults]

With(f, x, y) == [z \in DOMAIN f \cup {x} |-> IF z = x THEN y ELSE f[z]]
Without(f, S) == Restrict(f, DOMAIN f \ S)

-----------------------------------------------------------------------------
\* What a handler may make of the server: the set of its outcomes

HiddenOf(H) == {k \in Hidden : k[1] \in H}

\* readMetaFile: the meta file of an asset, if it is mapped and stored
MetaOf(d, h) ==
    IF <<h, "meta">> \in DOMAIN d.mappings /\ d.mappings[<<h, "meta">>] \in d.files
    THEN d.mappings[<<h, "meta">>] ELSE Meta(FALSE, None)

\* Where the bake of an asset is looked for
BakedKey(d, h) == <<h, IF MetaOf(d, h).target = None THEN "plain" ELSE "redirect">>

\* An asset whose bake is mapped to itself is not to be baked
NeedsToBeBaked(d, p, h) ==
    /\ p \in Bakeable
    /\ BakedKey(d, h) \notin DOMAIN d.mappings
    /\ ~MetaOf(d, h).failed

BakeAll(d, H) ==
    Server(d.mappings, d.saved, d.files,
           [h \in DOMAIN d.pending \cup H |->
                IF h \in DOMAIN d.pending THEN d.pending[h] ELSE "queued"],
           d.faults)

MaybeBake(d, p, h) == BakeAll(d, IF NeedsToBeBaked(d, p, h) THEN {h} ELSE {})

\* The map is written to a new file that replaces the old one; or it is not, and the
\* handler puts back what it remembers
Written(d, new) == Server(new, new, d.files, d.pending, d.faults)
NotWritten(d, old) == Server(old, d.saved, d.files, d.pending, d.faults + 1)
Failing(d, outcomes) == IF d.faults < MaxFaults THEN outcomes ELSE {}

SetMapping(d, k, h) ==
    {MaybeBake(Written(d, With(d.mappings, k, h)), k, h)}
        \cup Failing(d, {NotWritten(d, d.mappings)})

\* Only what nothing maps is removed
UnmappedUnchecked(files, m) == files
Unmapped(files, m) == files \ Range(m)

\* The map of d is written.  The files of G that nothing maps are removed; for each asset
\* among them, and for those of H, its hidden folder is deleted
\* (removeBakedPathsForDeletedAsset), then what only that folder mapped is removed, and
\* so on.  F is what a failure stops at: a file of S that cannot be removed, or the
\* folder of an asset where the write of the map fails.
Removals(d, G, H) ==
    LET Left(D) == Without(d.mappings, HiddenOf(D))
        Orphaned(D) ==
            Unmapped(d.files \cap (G \cup {d.mappings[k] : k \in DOMAIN d.mappings \cap HiddenOf(D)}),
                     Left(D))
        Closed(D, F) == (H \cup (Orphaned(D) \cap Contents)) \ F \subseteq D
        Deleted(F) == {D \in SUBSET Contents :
                        Closed(D, F) /\ \A E \in SUBSET Contents : Closed(E, F) => D \subseteq E}
        After(D, F, S) ==
            Server(Left(D), Left(D), d.files \ (Orphaned(D) \ S), d.pending,
                   IF F = {} THEN d.faults ELSE d.faults + 1)
        Failures == IF d.faults < MaxFaults THEN SUBSET (H \cup Orphaned(Contents)) ELSE {{}}
    IN UNION {{After(D, F, S) : D \in Deleted(F), S \in SUBSET F} : F \in Failures}

\* As if the files went before the map was written
DeleteMappingsUnsaved(d, K) ==
    LET gone == {d.mappings[k] : k \in K \cap DOMAIN d.mappings}
        new == Without(d.mappings, K)
    IN Removals(Written(d, new), gone, {})
        \cup Failing(d, {Server(d.mappings, d.saved, d.files \ (gone \ Range(new)),
                               d.pending, d.faults + 1)})

DeleteMappings(d, K) ==
    LET gone == {d.mappings[k] : k \in K \cap DOMAIN d.mappings}
    IN Removals(Written(d, Without(d.mappings, K)), gone, {})
        \cup Failing(d, {NotWritten(d, d.mappings)})

\* When the write fails, the iterator that should remember what the new path was
\* mapped to gives what it is mapped to now; and renaming a path to itself loses it.
\* (What happens to a path that is not mapped is undefined; it is left to Crash.)
RenameMapping(d, old, new) ==
    LET rest == Without(d.mappings, {old})
        renamed == With(rest, new, d.mappings[old])
        restored == With(renamed, old, d.mappings[old])
    IN IF old \notin DOMAIN d.mappings THEN {d}
       ELSE {Written(d, renamed)}
            \cup Failing(d, {NotWritten(d, IF new \in DOMAIN rest THEN restored
                                           ELSE Without(restored, {new}))})

SetBakingEnabled(d, p, enabled) ==
    LET h == d.mappings[p]
        k == BakedKey(d, h)
        disabled == k \in DOMAIN d.mappings /\ d.mappings[k] = h
        known == p \in DOMAIN d.mappings /\ p \in Bakeable
    IN CASE known /\ enabled /\ disabled ->
                {MaybeBake(e, p, h) : e \in DeleteMappings(d, {k})}
         [] known /\ ~enabled /\ ~disabled ->
                UNION {SetMapping(e, k, h) : e \in DeleteMappings(d, HiddenOf({h}))}
         [] OTHER -> {d}

HandleRequest(d, r) ==
    CASE r.op = "Set" -> SetMapping(d, r.path, r.hash)
      [] r.op = "Delete" -> DeleteMappings(d, r.keys)
      [] r.op = "Rename" -> RenameMapping(d, r.from, r.to)
      [] r.op = "SetBaking" -> SetBakingEnabled(d, r.path, r.enabled)

\* A meta file is stored and mapped, or cannot be opened
WriteMetaFile(d, h, meta) ==
    SetMapping(Server(d.mappings, d.saved, d.files \cup {meta}, d.pending, d.faults),
               <<h, "meta">>, meta)
        \cup Failing(d, {NotWritten(d, d.mappings)})

\* handleFailedBake, handleCompletedBake: the bake is stored and mapped, then its meta
\* file, which says whether that went well; the oven may also leave nothing, or nothing
\* a request could be redirected to
FailedBake(d, h) == WriteMetaFile(d, h, Meta(TRUE, MetaOf(d, h).target))

MapBake(d, h) ==
    SetMapping(Server(d.mappings, d.saved, d.files \cup {BakedHash[h]}, d.pending, d.faults),
               <<h, "redirect">>, BakedHash[h])

CompletedBake(d, h) ==
    WriteMetaFile(d, h, Meta(TRUE, None))
        \cup UNION {WriteMetaFile(e, h, Meta(e.faults > d.faults, h))
                        \cup WriteMetaFile(e, h, Meta(TRUE, None)) :
                        e \in IF h \in DOMAIN BakedHash THEN MapBake(d, h) ELSE {}}

NoLongerPending(d, h) ==
    Server(d.mappings, d.saved, d.files, Without(d.pending, {h}), d.faults)

-----------------------------------------------------------------------------
Empty == [x \in {} |-> None]

Unbaked(d) ==
    {d.mappings[p] : p \in {q \in Paths \cap DOMAIN d.mappings : NeedsToBeBaked(d, q, d.mappings[q])}}

\* Without cleanupBakedFilesForDeletedAssets
LoadedWithoutBakedCleanup(d) ==
    LET read == Server(d.saved, d.saved, d.files, Empty, d.faults)
    IN IF d.saved = Empty THEN {read}
       ELSE {BakeAll(e, Unbaked(e)) : e \in Removals(read, d.files, {})}

\* completeSetup with a map that was read: files and bakes of no use are removed,
\* unless there is no mapping at all, and what is not baked yet is
Loaded(d) ==
    LET read == Server(d.saved, d.saved, d.files, Empty, d.faults)
        Baseless(e) == {h \in Contents : HiddenOf({h}) \cap DOMAIN e.mappings # {}
                                            /\ h \notin Range(e.mappings)}
        cleaned == UNION {Removals(e, {}, Baseless(e)) : e \in Removals(read, d.files, {})}
    IN IF d.saved = Empty THEN {read} ELSE {BakeAll(e, Unbaked(e)) : e \in cleaned}

Init ==
    /\ phase = "setup"
    /\ server = Server(Empty, Empty, {}, Empty, 0)
    /\ partial = {} /\ lost = {}

\* The outcome of a handler, or of one cut short before it removed all it would
Becomes(outcomes, next) ==
    /\ \E d \in outcomes :
        \/ server' = d /\ phase' = next
        \/ \E kept \in SUBSET (server.files \ d.files) :
            /\ server' = Server(Empty, d.saved, d.files \cup kept, Empty, d.faults)
            /\ phase' = "setup"
    /\ partial' = partial \cap server'.files
    /\ lost' = lost \ server'.files

\* The requests that came before the end of the setup were queued, and are handled then
CompleteSetup ==
    /\ phase = "setup"
    /\ Becomes(Loaded(server), "running")

\* The map cannot be read: the assignment will finish, but not before the replay
FailSetup ==
    /\ phase = "setup" /\ server.faults < MaxFaults
    /\ phase' = "replaying"
    /\ server' = Server(Empty, server.saved, server.files, Empty, server.faults + 1)
    /\ UNCHANGED <<partial, lost>>

Accepting == phase \in {"running", "replaying"}

Handle ==
    /\ Accepting
    /\ \E r \in Requests : Becomes(HandleRequest(server, r), phase)

\* Upload tasks.  A file that is whole is not written again; a task that writes over
\* what another left changes nothing before its end.
StartUpload(h) ==
    /\ Accepting /\ h \notin server.files
    /\ partial' = partial \cup {h} /\ lost' = lost \ {h}
    /\ server' = Server(server.mappings, server.saved, server.files \cup {h},
                        server.pending, server.faults)
    /\ UNCHANGED phase

FinishUpload(h) ==
    /\ phase # "setup" /\ h \in partial
    /\ partial' = partial \ {h}
    /\ UNCHANGED <<phase, server, lost>>

FailUpload(h) ==
    /\ phase # "setup" /\ h \in partial /\ server.faults < MaxFaults
    /\ partial' = partial \ {h} /\ lost' = lost \cup {h}
    /\ server' = Server(server.mappings, server.saved, server.files \ {h},
                        server.pending, server.faults + 1)
    /\ UNCHANGED phase

\* Bake tasks copy the asset if it is there and run the oven.  The server handles their
\* ends later; that one ends before the next starts makes no difference.
Stage(h, stage) ==
    /\ server' = Server(server.mappings, server.saved, server.files,
                        [server.pending EXCEPT ![h] = stage], server.faults)
    /\ UNCHANGED <<phase, partial, lost>>

PendingIn(h, stages) == h \in DOMAIN server.pending /\ server.pending[h] \in stages

StartBake(h) ==
    /\ PendingIn(h, {"queued"})
    /\ Stage(h, IF h \in server.files THEN "baking" ELSE "failed")

\* A bake that is aborted leaves no trace
BakeOutcomes(h) ==
    FailedBake(server, h)
        \cup (IF server.pending[h] = "baking" THEN CompletedBake(server, h) ELSE {})
        \cup (IF phase = "finishing" THEN {server} ELSE {})

HandleBake(h) ==
    /\ phase \in {"running", "finishing"}
    /\ PendingIn(h, {"baking", "failed"})
    /\ Becomes({NoLongerPending(d, h) : d \in BakeOutcomes(h)}, phase)

\* aboutToFinish: bakes that have not begun are dropped, the others aborted, and the
\* thread handles their ends until none is left
Finish ==
    /\ Accepting
    /\ phase' = "finishing"
    /\ server' = Server(server.mappings, server.saved, server.files,
                        Without(server.pending,
                                {h \in Contents : PendingIn(h, {"queued"})}),
                        server.faults)
    /\ UNCHANGED <<partial, lost>>

Stop ==
    /\ phase = "finishing" /\ server.pending = Empty
    /\ phase' = "stopped"
    /\ UNCHANGED <<server, partial, lost>>

\* A new process: what is in memory is gone
Reset ==
    /\ phase' = "setup"
    /\ server' = Server(Empty, server.saved, server.files, Empty, server.faults)
    /\ UNCHANGED <<partial, lost>>

Restart == phase = "stopped" /\ Reset

Crash == phase # "stopped" /\ Reset

Next ==
    \/ CompleteSetup \/ FailSetup \/ Handle
    \/ \E h \in Contents :
        StartUpload(h) \/ FinishUpload(h) \/ FailUpload(h)
            \/ StartBake(h) \/ HandleBake(h)
    \/ Finish \/ Stop \/ Restart \/ Crash

Spec == Init /\ [][Next]_vars

-----------------------------------------------------------------------------
(***************************************************************************)
(* Whatever is cleaned up, a file that is and stays mapped, in memory or   *)
(* in map.json, is not removed: not with another path or bake that shared  *)
(* it, not by the setup, not when some of the nested writes fail or the    *)
(* server dies between two of them (deleteMappings, cleanupUnmappedFiles). *)
(* Only an upload that fails removes the file it was writing.              *)
(***************************************************************************)
Mapped(d) == Range(d.mappings) \cup Range(d.saved)

FilesKeptWhileMapped ==
    [][\A h \in (server.files \ server'.files) \cap Mapped(server) \cap Mapped(server') :
            FailUpload(h)]_vars

(***************************************************************************)
(* A bake or a meta file that is mapped is stored, so that no request is   *)
(* redirected to a file that is not there (handleCompletedBake,            *)
(* writeMetaFile, removeBakedPathsForDeletedAsset), unless a user's upload *)
(* of the very content of the bake has failed and removed it: it began     *)
(* before the bake was stored, or the file had been lost before.           *)
(***************************************************************************)
BakedFilesStored ==
    \A m \in {server.mappings, server.saved} :
        \A k \in Hidden \cap DOMAIN m : m[k] \in server.files \cup lost \/ m[k] = k[1]

(***************************************************************************)
(* Whatever crashes, failed writes and late bakes have left behind is gone *)
(* after a setup that had a map, could write it and could remove files:    *)
(* every file is mapped, and every baked folder is that of an asset that   *)
(* is mapped, or whose file is missing after a failed upload               *)
(* (cleanupUnmappedFiles, cleanupBakedFilesForDeletedAssets).              *)
(***************************************************************************)
CleanAfterSetup ==
    [][phase = "setup" /\ phase' = "running" /\ server.saved # Empty
            /\ server'.faults = server.faults
        => LET m == server'.mappings
           IN /\ server'.files \subseteq Range(m)
              /\ \A k \in Hidden \cap DOMAIN m : k[1] \in Range(m) \cup lost']_vars
=============================================================================
