------------------------- MODULE AssetServer_proofs -------------------------
(***************************************************************************)
(* Whatever files, paths and bakes there are, and however many writes      *)
(* or removals fail, a bake or a meta file that is mapped is stored or was *)
(* lost by a failed upload, no file that stays mapped is removed, and a    *)
(* setup in which nothing fails leaves nothing behind.                     *)
(***************************************************************************)
EXTENDS AssetServer, TLAPS

\* The hidden mappings of m are backed by files, but for those that map a bake to its
\* asset and so disable it
Stored(m, files) ==
    \A k \in Hidden \cap DOMAIN m :
        \/ m[k] = k[1] /\ k[2] # "meta"
        \/ m[k] \in files /\ (k[2] = "meta" => m[k] \in Metas)

\* gone are the files that uploads have lost
Sound(d, gone) ==
    Stored(d.mappings, d.files \cup gone) /\ Stored(d.saved, d.files \cup gone)

AllSound(outcomes, gone) == \A d \in outcomes : Sound(d, gone)

\* What may be mapped to h
Mappable(k, h, files) ==
    \/ k \notin Hidden
    \/ h = k[1] /\ k[2] # "meta"
    \/ h \in files /\ (k[2] = "meta" => h \in Metas)

\* A mapping is added to a map that is backed
LEMMA StoredWith ==
    ASSUME NEW m, NEW files, NEW k, NEW h, Stored(m, files), Mappable(k, h, files)
    PROVE  Stored(With(m, k, h), files)
BY DEF Stored, With, Mappable

\* One that has less is backed as well
LEMMA StoredWithout ==
    ASSUME NEW m, NEW files, NEW S, Stored(m, files)
    PROVE  Stored(Without(m, S), files)
BY DEF Stored, Without, Restrict

\* And so is one with more files
LEMMA StoredInMore ==
    ASSUME NEW m, NEW files, NEW more, Stored(m, files), files \subseteq more
    PROVE  Stored(m, more)
BY DEF Stored

\* There is nothing to back in an empty map
LEMMA NothingStored == ASSUME NEW files PROVE Stored(Empty, files)
BY DEF Stored, Empty

-----------------------------------------------------------------------------
(* What a cleanup removes, when it deletes the folders of D and F fails    *)

Orphaned(d, G, D) ==
    Unmapped(d.files \cap (G \cup {d.mappings[k] : k \in DOMAIN d.mappings \cap HiddenOf(D)}),
             Without(d.mappings, HiddenOf(D)))

Removed(d, G, H, e, D, F, S) ==
    /\ e.mappings = Without(d.mappings, HiddenOf(D)) /\ e.saved = e.mappings
    /\ e.files = d.files \ (Orphaned(d, G, D) \ S)
    /\ (H \cup (Orphaned(d, G, D) \cap Contents)) \ F \subseteq D
    /\ e.faults = IF F = {} THEN d.faults ELSE d.faults + 1

\* Whichever folders a cleanup deletes, it goes on until none is left to delete
LEMMA RemovalsShape ==
    ASSUME NEW d, NEW G, NEW H, NEW e \in Removals(d, G, H)
    PROVE  \E D, F : \E S \in SUBSET F : Removed(d, G, H, e, D, F, S)
<1> DEFINE Closed(D, F) == (H \cup (Orphaned(d, G, D) \cap Contents)) \ F \subseteq D
           Deleted(F) == {D \in SUBSET Contents :
                            Closed(D, F) /\ \A E \in SUBSET Contents : Closed(E, F) => D \subseteq E}
           After(D, F, S) ==
             Server(Without(d.mappings, HiddenOf(D)), Without(d.mappings, HiddenOf(D)),
                    d.files \ (Orphaned(d, G, D) \ S), d.pending,
                    IF F = {} THEN d.faults ELSE d.faults + 1)
           Failures == IF d.faults < MaxFaults
                       THEN SUBSET (H \cup Orphaned(d, G, Contents)) ELSE {{}}
           Outcomes(F) == {After(D, F, S) : D \in Deleted(F), S \in SUBSET F}
<1>1. Removals(d, G, H) = UNION {Outcomes(F) : F \in Failures}
    BY DEF Removals, Orphaned
<1> HIDE DEF Failures, Outcomes
<1>2. PICK F \in Failures : e \in Outcomes(F)
    BY <1>1
<1> HIDE DEF After, Deleted
<1>3. PICK D \in Deleted(F), S \in SUBSET F : e = After(D, F, S)
    BY <1>2 DEF Outcomes
<1>4. Removed(d, G, H, e, D, F, S)
    BY <1>3 DEF Removed, Server, After, Deleted
<1> QED BY <1>4

-----------------------------------------------------------------------------
(* Each handler keeps the server sound *)

LEMMA SetMappingSound ==
    ASSUME NEW d, NEW L, NEW k, NEW h, Sound(d, L), Mappable(k, h, d.files \cup L)
    PROVE  AllSound(SetMapping(d, k, h), L)
<1>1. Stored(With(d.mappings, k, h), d.files \cup L)
    BY StoredWith DEF Sound
<1> QED BY <1>1 DEF SetMapping, AllSound, Sound, Failing, MaybeBake, BakeAll, Written,
        NotWritten, Server

\* Only files that nothing maps are removed
LEMMA RemovalsSound ==
    ASSUME NEW d, NEW L, NEW G, NEW H, Sound(d, L)
    PROVE  AllSound(Removals(d, G, H), L)
<1> SUFFICES ASSUME NEW e \in Removals(d, G, H) PROVE Sound(e, L)
    BY DEF AllSound
<1>1. PICK D, F : \E S \in SUBSET F : Removed(d, G, H, e, D, F, S)
    BY RemovalsShape
<1>2. PICK S \in SUBSET F : Removed(d, G, H, e, D, F, S)
    BY <1>1
<1>3. Stored(e.mappings, d.files \cup L)
    BY <1>2, StoredWithout DEF Removed, Sound
<1>4. \A k \in DOMAIN e.mappings : e.mappings[k] \notin Orphaned(d, G, D)
    BY <1>2 DEF Removed, Orphaned, Unmapped, Range
<1>5. Stored(e.mappings, e.files \cup L)
    BY <1>2, <1>3, <1>4 DEF Stored, Removed
<1> QED BY <1>2, <1>5 DEF Sound, Removed

LEMMA DeleteMappingsSound ==
    ASSUME NEW d, NEW L, NEW K, Sound(d, L)
    PROVE  AllSound(DeleteMappings(d, K), L)
<1> DEFINE gone == {d.mappings[k] : k \in K \cap DOMAIN d.mappings}
           first == Written(d, Without(d.mappings, K))
<1>1. Sound(first, L)
    BY StoredWithout DEF Sound, Written, Server
<1>2. Sound(NotWritten(d, d.mappings), L)
    BY DEF Sound, NotWritten, Server
<1> HIDE DEF first, gone
<1>3. AllSound(Removals(first, gone, {}), L)
    BY <1>1, RemovalsSound
<1> QED BY <1>2, <1>3 DEF DeleteMappings, AllSound, Failing, first, gone

LEMMA RenameMappingSound ==
    ASSUME NEW d, NEW L, NEW old \in Paths, NEW new \in Paths, Sound(d, L)
    PROVE  AllSound(RenameMapping(d, old, new), L)
<1> DEFINE rest == Without(d.mappings, {old})
           renamed == With(rest, new, d.mappings[old])
           restored == With(renamed, old, d.mappings[old])
<1>1. \A h : Mappable(old, h, d.files \cup L) /\ Mappable(new, h, d.files \cup L)
    BY AssetAssumption DEF Mappable
<1>2. Stored(rest, d.files \cup L)
    BY StoredWithout DEF Sound
<1>3. Stored(renamed, d.files \cup L)
    BY <1>1, <1>2, StoredWith
<1>4. Stored(restored, d.files \cup L)
    BY <1>1, <1>3, StoredWith
<1>5. Stored(Without(restored, {new}), d.files \cup L)
    BY <1>4, StoredWithout
<1> HIDE DEF rest, renamed, restored
<1>6. Sound(Written(d, renamed), L) /\ Sound(NotWritten(d, restored), L)
        /\ Sound(NotWritten(d, Without(restored, {new})), L)
    BY <1>3, <1>4, <1>5 DEF Sound, Written, NotWritten, Server
<1> QED BY <1>6 DEF RenameMapping, AllSound, Failing, rest, renamed, restored

\* Reading the bakes that are due changes neither map nor files
LEMMA BakeAllSound ==
    ASSUME NEW d, NEW L, NEW H, Sound(d, L)
    PROVE  Sound(BakeAll(d, H), L)
BY DEF BakeAll, Sound, Server

\* A bake is disabled by mapping it to its asset
LEMMA SetBakingEnabledSound ==
    ASSUME NEW d, NEW L, NEW p \in Paths, NEW enabled, Sound(d, L)
    PROVE  AllSound(SetBakingEnabled(d, p, enabled), L)
<1> DEFINE h == d.mappings[p]
           k == BakedKey(d, h)
<1>1. \A files : Mappable(k, h, files)
    BY DEF Mappable, BakedKey
<1> HIDE DEF h, k
<1>2. AllSound({MaybeBake(e, p, h) : e \in DeleteMappings(d, {k})}, L)
    BY DeleteMappingsSound, BakeAllSound DEF AllSound, MaybeBake
<1>3. AllSound(UNION {SetMapping(e, k, h) : e \in DeleteMappings(d, HiddenOf({h}))}, L)
    <2>1. ASSUME NEW e \in DeleteMappings(d, HiddenOf({h}))
          PROVE  AllSound(SetMapping(e, k, h), L)
        BY <1>1, DeleteMappingsSound, SetMappingSound DEF AllSound
    <2> QED BY <2>1 DEF AllSound
<1>4. AllSound({d}, L)
    BY DEF AllSound
<1> QED BY <1>2, <1>3, <1>4 DEF SetBakingEnabled, h, k

LEMMA HandleRequestSound ==
    ASSUME NEW d, NEW L, NEW r \in Requests, Sound(d, L)
    PROVE  AllSound(HandleRequest(d, r), L)
<1>1. CASE r \in [op : {"Set"}, path : Paths, hash : Contents]
    <2>1. Mappable(r.path, r.hash, d.files \cup L)
        BY <1>1, AssetAssumption DEF Mappable
    <2> QED BY <1>1, <2>1, SetMappingSound DEF HandleRequest
<1>2. CASE r \in [op : {"Delete"}, keys : SUBSET Paths \cup {Keys}]
    BY <1>2, DeleteMappingsSound DEF HandleRequest
<1>3. CASE r \in [op : {"Rename"}, from : Paths, to : Paths]
    BY <1>3, RenameMappingSound DEF HandleRequest
<1>4. CASE r \in [op : {"SetBaking"}, path : Paths, enabled : BOOLEAN]
    BY <1>4, SetBakingEnabledSound DEF HandleRequest
<1> QED BY <1>1, <1>2, <1>3, <1>4 DEF Requests

-----------------------------------------------------------------------------
(* The end of a bake stores what it maps *)

LEMMA WriteMetaFileSound ==
    ASSUME NEW d, NEW L, NEW h, NEW meta \in Metas, Sound(d, L)
    PROVE  AllSound(WriteMetaFile(d, h, meta), L)
<1> DEFINE e == Server(d.mappings, d.saved, d.files \cup {meta}, d.pending, d.faults)
<1>1. Sound(e, L)
    BY StoredInMore DEF Sound, Server
<1>2. Mappable(<<h, "meta">>, meta, e.files \cup L)
    BY DEF Mappable, Server
<1> HIDE DEF e
<1>3. AllSound(SetMapping(e, <<h, "meta">>, meta), L)
    BY <1>1, <1>2, SetMappingSound
<1>4. Sound(NotWritten(d, d.mappings), L)
    BY DEF Sound, NotWritten, Server
<1> QED BY <1>3, <1>4 DEF WriteMetaFile, e, Failing, AllSound

LEMMA MetaOfAsset ==
    ASSUME NEW d, NEW L, NEW h \in Contents, Sound(d, L)
    PROVE  MetaOf(d, h).target \in Contents \cup {None}
<1>1. <<h, "meta">> \in Hidden
    BY DEF Hidden
<1>2. CASE <<h, "meta">> \in DOMAIN d.mappings
    <2>1. d.mappings[<<h, "meta">>] \in Metas
        BY <1>1, <1>2 DEF Sound, Stored
    <2> QED BY <2>1 DEF MetaOf, Meta, Metas
<1>3. CASE <<h, "meta">> \notin DOMAIN d.mappings
    BY <1>3 DEF MetaOf, Meta
<1> QED BY <1>2, <1>3

LEMMA FailedBakeSound ==
    ASSUME NEW d, NEW L, NEW h \in Contents, Sound(d, L)
    PROVE  AllSound(FailedBake(d, h), L)
<1>1. Meta(TRUE, MetaOf(d, h).target) \in Metas
    BY MetaOfAsset DEF Meta, Metas
<1> QED BY <1>1, WriteMetaFileSound DEF FailedBake

LEMMA CompletedBakeSound ==
    ASSUME NEW d, NEW L, NEW h \in Contents, Sound(d, L)
    PROVE  AllSound(CompletedBake(d, h), L)
<1> DEFINE stored == Server(d.mappings, d.saved, d.files \cup {BakedHash[h]},
                            d.pending, d.faults)
<1>1. Sound(stored, L)
    BY StoredInMore DEF Sound, Server
<1>2. Mappable(<<h, "redirect">>, BakedHash[h], stored.files \cup L)
    BY DEF Mappable, Server
<1> HIDE DEF stored
<1>3. AllSound(MapBake(d, h), L)
    BY <1>1, <1>2, SetMappingSound DEF MapBake, stored
<1>4. ASSUME NEW e, Sound(e, L), NEW failed \in BOOLEAN, NEW target \in Contents \cup {None}
      PROVE  AllSound(WriteMetaFile(e, h, Meta(failed, target)), L)
    <2>1. Meta(failed, target) \in Metas
        BY DEF Meta, Metas
    <2> QED BY <1>4, <2>1, WriteMetaFileSound
<1>5. ASSUME NEW e \in MapBake(d, h)
      PROVE  /\ AllSound(WriteMetaFile(e, h, Meta(e.faults > d.faults, h)), L)
             /\ AllSound(WriteMetaFile(e, h, Meta(TRUE, None)), L)
    <2>1. Sound(e, L)
        BY <1>3 DEF AllSound
    <2>2. (e.faults > d.faults) \in BOOLEAN
        OBVIOUS
    <2>3. AllSound(WriteMetaFile(e, h, Meta(e.faults > d.faults, h)), L)
        BY <1>4, <2>1, <2>2
    <2> QED BY <1>4, <2>1, <2>3
<1>6. AllSound(WriteMetaFile(d, h, Meta(TRUE, None)), L)
    BY <1>4
<1> QED BY <1>5, <1>6 DEF CompletedBake, AllSound

-----------------------------------------------------------------------------
(* The setup, and every step *)

\* The two cleanups of the setup
Baseless(e) == {h \in Contents : HiddenOf({h}) \cap DOMAIN e.mappings # {}
                                    /\ h \notin Range(e.mappings)}

\* What the setup starts from
Read(d) == Server(d.saved, d.saved, d.files, Empty, d.faults)

LEMMA LoadedShape ==
    ASSUME NEW d, NEW f \in Loaded(d)
    PROVE  IF d.saved = Empty THEN f = Read(d)
           ELSE \E e \in Removals(Read(d), d.files, {}) :
                  \E g \in Removals(e, {}, Baseless(e)) : \E H : f = BakeAll(g, H)
BY DEF Loaded, Read, Baseless

LEMMA LoadedSound ==
    ASSUME NEW d, NEW L, Sound(d, L)
    PROVE  AllSound(Loaded(d), L)
<1> SUFFICES ASSUME NEW f \in Loaded(d) PROVE Sound(f, L)
    BY DEF AllSound
<1>1. Sound(Read(d), L)
    BY DEF Sound, Read, Server
<1>2. CASE d.saved = Empty
    BY <1>1, <1>2, LoadedShape
<1>3. CASE d.saved # Empty
    <2>1. PICK e \in Removals(Read(d), d.files, {}) :
            \E g \in Removals(e, {}, Baseless(e)) : \E H : f = BakeAll(g, H)
        BY <1>3, LoadedShape
    <2>2. Sound(e, L)
        BY <1>1, RemovalsSound DEF AllSound
    <2>3. PICK g \in Removals(e, {}, Baseless(e)) : \E H : f = BakeAll(g, H)
        BY <2>1
    <2>4. Sound(g, L)
        BY <2>2, RemovalsSound DEF AllSound
    <2> QED BY <2>3, <2>4, BakeAllSound
<1> QED BY <1>2, <1>3

\* What a crash keeps of a handler's outcome is sound as well
LEMMA BecomesSound ==
    ASSUME NEW outcomes, NEW next, AllSound(outcomes, lost), Becomes(outcomes, next)
    PROVE  Sound(server', lost')
<1>1. PICK d \in outcomes :
        \/ server' = d
        \/ \E kept : server' = Server(Empty, d.saved, d.files \cup kept, Empty, d.faults)
    BY DEF Becomes
<1>2. server'.files \cup lost \subseteq server'.files \cup lost'
    BY DEF Becomes
<1>3. CASE server' = d
    BY <1>2, <1>3, StoredInMore DEF AllSound, Sound
<1>4. ASSUME NEW kept,
             server' = Server(Empty, d.saved, d.files \cup kept, Empty, d.faults)
      PROVE  Sound(server', lost')
    <2>1. /\ server'.mappings = Empty /\ server'.saved = d.saved
          /\ server'.files = d.files \cup kept
        BY <1>4 DEF Server
    <2>2. d.files \cup lost \subseteq server'.files \cup lost'
        BY <1>2, <2>1
    <2> QED BY <2>1, <2>2, StoredInMore, NothingStored DEF AllSound, Sound
<1> QED BY <1>1, <1>3, <1>4

LEMMA InitSound == Init => Sound(server, lost)
BY NothingStored DEF Init, Sound, Server

\* The file that a failed upload removes is lost
LEMMA FailUploadSound ==
    ASSUME Sound(server, lost), NEW h \in Contents, FailUpload(h)
    PROVE  Sound(server', lost')
<1>1. server.files \cup lost \subseteq server'.files \cup lost'
    BY DEF FailUpload, Server
<1>2. server'.mappings = server.mappings /\ server'.saved = server.saved
    BY DEF FailUpload, Server
<1> QED BY <1>1, <1>2, StoredInMore DEF Sound

\* The one that another stores is not any more
LEMMA StartUploadSound ==
    ASSUME Sound(server, lost), NEW h \in Contents, StartUpload(h)
    PROVE  Sound(server', lost')
<1>1. server.files \cup lost \subseteq server'.files \cup lost'
    BY DEF StartUpload, Server
<1>2. server'.mappings = server.mappings /\ server'.saved = server.saved
    BY DEF StartUpload, Server
<1> QED BY <1>1, <1>2, StoredInMore DEF Sound

LEMMA HandleBakeSound ==
    ASSUME Sound(server, lost), NEW h \in Contents, HandleBake(h)
    PROVE  Sound(server', lost')
<1>1. AllSound(BakeOutcomes(h), lost)
    BY FailedBakeSound, CompletedBakeSound DEF BakeOutcomes, AllSound
<1>2. AllSound({NoLongerPending(d, h) : d \in BakeOutcomes(h)}, lost)
    BY <1>1 DEF AllSound, NoLongerPending, Sound, Server
<1> QED BY <1>2, BecomesSound DEF HandleBake

LEMMA StepSound == Sound(server, lost) /\ [Next]_vars => Sound(server, lost)'
<1> SUFFICES ASSUME Sound(server, lost), [Next]_vars PROVE Sound(server', lost')
    OBVIOUS
<1>1. CASE CompleteSetup
    BY <1>1, LoadedSound, BecomesSound DEF CompleteSetup
<1>2. CASE FailSetup
    BY <1>2, NothingStored DEF FailSetup, Sound, Server
<1>3. CASE Handle
    BY <1>3, HandleRequestSound, BecomesSound DEF Handle
<1>4. ASSUME NEW h \in Contents, StartUpload(h) PROVE Sound(server', lost')
    BY <1>4, StartUploadSound
<1>5. ASSUME NEW h \in Contents, FinishUpload(h) PROVE Sound(server', lost')
    BY <1>5 DEF FinishUpload
<1>6. ASSUME NEW h \in Contents, FailUpload(h) PROVE Sound(server', lost')
    BY <1>6, FailUploadSound
<1>7. ASSUME NEW h \in Contents, StartBake(h) PROVE Sound(server', lost')
    BY <1>7 DEF StartBake, Stage, Sound, Server
<1>8. ASSUME NEW h \in Contents, HandleBake(h) PROVE Sound(server', lost')
    BY <1>8, HandleBakeSound
<1>9. CASE Finish
    BY <1>9 DEF Finish, Sound, Server
<1>10. CASE Stop
    BY <1>10 DEF Stop
<1>11. CASE Restart \/ Crash
    <2>1. Reset
        BY <1>11 DEF Restart, Crash
    <2> QED BY <2>1, NothingStored DEF Reset, Sound, Server
<1>12. CASE UNCHANGED vars
    BY <1>12 DEF vars
<1> QED BY <1>1, <1>2, <1>3, <1>4, <1>5, <1>6, <1>7, <1>8, <1>9, <1>10, <1>11, <1>12
        DEF Next

(***************************************************************************)
(* No request is ever redirected to a bake that is not there, whatever     *)
(* writes of map.json and removals fail, whatever bakes share their file   *)
(* with an upload and wherever the server dies, unless an upload that      *)
(* failed has removed that very file (AssetServer::handleCompletedBake,    *)
(* writeMetaFile, removeBakedPathsForDeletedAsset).                        *)
(***************************************************************************)
THEOREM BakedFilesAlwaysStored == Spec => []BakedFilesStored
<1>1. Sound(server, lost) => BakedFilesStored
    BY DEF Sound, Stored, BakedFilesStored
<1> QED BY InitSound, StepSound, <1>1, PTL DEF Spec

-----------------------------------------------------------------------------
(* A handler that turns d into e keeps what is mapped afterwards, and one  *)
(* that only cleans up maps nothing new                                    *)

Keeps(d, e) == \A h \in d.files \ e.files : h \notin Mapped(e)

Cleans(d, e) == Keeps(d, e) /\ Mapped(e) \subseteq Mapped(d)

LEMMA CleansTransitive ==
    ASSUME NEW d, NEW e, NEW f, Keeps(d, e), Cleans(e, f)
    PROVE  Keeps(d, f)
BY DEF Keeps, Cleans

LEMMA CleansTwice ==
    ASSUME NEW d, NEW e, NEW f, Cleans(d, e), Cleans(e, f)
    PROVE  Cleans(d, f)
BY DEF Keeps, Cleans

LEMMA WithoutMapsLess == ASSUME NEW m, NEW S PROVE Range(Without(m, S)) \subseteq Range(m)
BY DEF Without, Restrict, Range

LEMMA SetMappingKeepsFiles ==
    ASSUME NEW d, NEW k, NEW h, NEW e \in SetMapping(d, k, h)
    PROVE  e.files = d.files
BY DEF SetMapping, MaybeBake, BakeAll, Written, NotWritten, Failing, Server

\* Beside the rest, the paths that users map stay as they are
LEMMA RemovalsCleans ==
    ASSUME NEW d, NEW G, NEW H, NEW e \in Removals(d, G, H)
    PROVE  /\ Cleans(d, e)
           /\ \A p \in Paths \cap DOMAIN d.mappings : d.mappings[p] \in Range(e.mappings)
<1>1. PICK D, F : \E S \in SUBSET F : Removed(d, G, H, e, D, F, S)
    BY RemovalsShape
<1>2. PICK S \in SUBSET F : Removed(d, G, H, e, D, F, S)
    BY <1>1
<1>3. Mapped(e) = Range(e.mappings)
    BY <1>2 DEF Removed, Mapped
<1>4. Range(e.mappings) \subseteq Range(d.mappings)
    BY <1>2, WithoutMapsLess DEF Removed
<1>5. d.files \ e.files \subseteq Orphaned(d, G, D)
    BY <1>2 DEF Removed
<1>6. Orphaned(d, G, D) \cap Range(e.mappings) = {}
    BY <1>2 DEF Removed, Orphaned, Unmapped
<1>7. Cleans(d, e)
    BY <1>3, <1>4, <1>5, <1>6 DEF Cleans, Keeps, Mapped
<1>8. \A p \in Paths \cap DOMAIN d.mappings : d.mappings[p] \in Range(e.mappings)
    BY <1>2, AssetAssumption DEF Removed, Without, Restrict, Range, HiddenOf
<1> QED BY <1>7, <1>8

LEMMA DeleteMappingsShape ==
    ASSUME NEW d, NEW K, NEW e \in DeleteMappings(d, K)
    PROVE  \/ e = NotWritten(d, d.mappings)
           \/ \E gone : e \in Removals(Written(d, Without(d.mappings, K)), gone, {})
BY DEF DeleteMappings, Failing

LEMMA DeleteMappingsCleans ==
    ASSUME NEW d, NEW K, NEW e \in DeleteMappings(d, K)
    PROVE  Cleans(d, e)
<1> DEFINE first == Written(d, Without(d.mappings, K))
<1>1. Cleans(d, first)
    BY WithoutMapsLess DEF Cleans, Keeps, Mapped, Written, Server
<1> HIDE DEF first
<1>2. ASSUME NEW gone, e \in Removals(first, gone, {}) PROVE Cleans(d, e)
    <2>1. Cleans(first, e)
        BY <1>2, RemovalsCleans
    <2> QED BY <1>1, <2>1, CleansTwice
<1>3. CASE e = NotWritten(d, d.mappings)
    BY <1>3 DEF NotWritten, Server, Cleans, Keeps, Mapped
<1> QED BY <1>2, <1>3, DeleteMappingsShape DEF first

LEMMA DeletingHiddenKeepsPaths ==
    ASSUME NEW d, NEW H, NEW e \in DeleteMappings(d, HiddenOf(H)),
           NEW p \in Paths \cap DOMAIN d.mappings
    PROVE  d.mappings[p] \in Range(e.mappings)
<1> DEFINE new == Without(d.mappings, HiddenOf(H))
           first == Written(d, new)
<1>1. p \in DOMAIN new /\ new[p] = d.mappings[p]
    BY AssetAssumption DEF Without, Restrict, HiddenOf
<1>2. first.mappings = new
    BY DEF Written, Server
<1> HIDE DEF first, new
<1>3. ASSUME NEW gone, e \in Removals(first, gone, {})
      PROVE  d.mappings[p] \in Range(e.mappings)
    BY <1>1, <1>2, <1>3, RemovalsCleans
<1>4. CASE e = NotWritten(d, d.mappings)
    BY <1>4 DEF NotWritten, Server, Range
<1> QED BY <1>3, <1>4, DeleteMappingsShape DEF first, new

LEMMA SetBakingEnabledKeeps ==
    ASSUME NEW d, NEW p \in Paths, NEW enabled, NEW f \in SetBakingEnabled(d, p, enabled)
    PROVE  Keeps(d, f)
<1> DEFINE h == d.mappings[p]
           k == BakedKey(d, h)
<1> HIDE DEF h, k
<1>1. \/ f = d
      \/ \E e \in DeleteMappings(d, {k}) : f = MaybeBake(e, p, h)
      \/ /\ p \in DOMAIN d.mappings
         /\ \E e \in DeleteMappings(d, HiddenOf({h})) : f \in SetMapping(e, k, h)
    <2> DEFINE disabled == k \in DOMAIN d.mappings /\ d.mappings[k] = h
               known == p \in DOMAIN d.mappings /\ p \in Bakeable
    <2>1. CASE known /\ enabled /\ disabled
        <3>1. SetBakingEnabled(d, p, enabled)
                = {MaybeBake(e, p, h) : e \in DeleteMappings(d, {k})}
            BY <2>1 DEF SetBakingEnabled, h, k
        <3> QED BY <2>1, <3>1
    <2>2. CASE known /\ ~enabled /\ ~disabled
        <3>1. SetBakingEnabled(d, p, enabled)
                = UNION {SetMapping(e, k, h) : e \in DeleteMappings(d, HiddenOf({h}))}
            BY <2>2 DEF SetBakingEnabled, h, k
        <3> QED BY <2>2, <3>1
    <2>3. CASE ~(known /\ enabled /\ disabled) /\ ~(known /\ ~enabled /\ ~disabled)
        <3>1. SetBakingEnabled(d, p, enabled) = {d}
            BY <2>3 DEF SetBakingEnabled, h, k
        <3> QED BY <3>1
    <2> QED BY <2>1, <2>2, <2>3
<1>2. CASE f = d
    BY <1>2 DEF Keeps
<1>3. ASSUME NEW e \in DeleteMappings(d, {k}), f = MaybeBake(e, p, h)
      PROVE  Keeps(d, f)
    <2>1. Cleans(d, e)
        BY DeleteMappingsCleans
    <2> QED BY <1>3, <2>1 DEF Cleans, Keeps, Mapped, MaybeBake, BakeAll, Server
<1>4. ASSUME NEW e \in DeleteMappings(d, HiddenOf({h})), f \in SetMapping(e, k, h),
             p \in DOMAIN d.mappings
      PROVE  Keeps(d, f)
    <2>1. Cleans(d, e) /\ h \in Range(e.mappings)
        BY <1>4, DeleteMappingsCleans, DeletingHiddenKeepsPaths DEF h
    <2>2. f.files = e.files
        BY <1>4, SetMappingKeepsFiles
    <2>3. Range(With(e.mappings, k, h)) \subseteq Range(e.mappings) \cup {h}
        BY DEF With, Range
    <2>4. Mapped(f) \subseteq Mapped(e) \cup {h}
        BY <1>4, <2>3 DEF SetMapping, MaybeBake, BakeAll, Written, NotWritten, Failing,
            Server, Mapped
    <2>5. h \in Mapped(e)
        BY <2>1 DEF Mapped
    <2> QED BY <2>1, <2>2, <2>4, <2>5 DEF Cleans, Keeps
<1> QED BY <1>1, <1>2, <1>3, <1>4

LEMMA HandleRequestKeeps ==
    ASSUME NEW d, NEW r \in Requests, NEW e \in HandleRequest(d, r)
    PROVE  Keeps(d, e)
<1>1. CASE r \in [op : {"Set"}, path : Paths, hash : Contents]
    BY <1>1, SetMappingKeepsFiles DEF HandleRequest, Keeps
<1>2. CASE r \in [op : {"Delete"}, keys : SUBSET Paths \cup {Keys}]
    BY <1>2, DeleteMappingsCleans DEF HandleRequest, Cleans
<1>3. CASE r \in [op : {"Rename"}, from : Paths, to : Paths]
    <2>1. e \in RenameMapping(d, r.from, r.to)
        BY <1>3 DEF HandleRequest
    <2>2. e.files = d.files
        BY <2>1 DEF RenameMapping, Written, NotWritten, Failing, Server
    <2> QED BY <2>2 DEF Keeps
<1>4. CASE r \in [op : {"SetBaking"}, path : Paths, enabled : BOOLEAN]
    BY <1>4, SetBakingEnabledKeeps DEF HandleRequest
<1> QED BY <1>1, <1>2, <1>3, <1>4 DEF Requests

LEMMA LoadedKeeps ==
    ASSUME NEW d, NEW f \in Loaded(d)
    PROVE  Keeps(d, f)
<1>1. Keeps(d, Read(d))
    BY DEF Keeps, Read, Server
<1>2. CASE d.saved = Empty
    BY <1>1, <1>2, LoadedShape
<1>3. CASE d.saved # Empty
    <2>1. PICK e \in Removals(Read(d), d.files, {}) :
            \E g \in Removals(e, {}, Baseless(e)) : \E H : f = BakeAll(g, H)
        BY <1>3, LoadedShape
    <2>2. PICK g \in Removals(e, {}, Baseless(e)) : \E H : f = BakeAll(g, H)
        BY <2>1
    <2>3. Cleans(Read(d), e) /\ Cleans(e, g)
        BY RemovalsCleans
    <2>4. Keeps(d, g)
        BY <1>1, <2>3, CleansTransitive
    <2> QED BY <2>2, <2>4 DEF Keeps, Mapped, BakeAll, Server
<1> QED BY <1>2, <1>3

LEMMA BakeKeeps ==
    ASSUME NEW h, NEW e \in BakeOutcomes(h)
    PROVE  server.files \subseteq e.files
<1>1. ASSUME NEW d, NEW meta, NEW f \in WriteMetaFile(d, h, meta)
      PROVE  d.files \subseteq f.files
    <2> DEFINE s == Server(d.mappings, d.saved, d.files \cup {meta}, d.pending, d.faults)
    <2>1. d.files \subseteq s.files
        BY DEF Server
    <2>2. f \in SetMapping(s, <<h, "meta">>, meta) \/ f = NotWritten(d, d.mappings)
        BY DEF WriteMetaFile, Failing
    <2> HIDE DEF s
    <2> QED BY <2>1, <2>2, SetMappingKeepsFiles DEF NotWritten, Server
<1>2. ASSUME NEW f \in CompletedBake(server, h) PROVE server.files \subseteq f.files
    <2> DEFINE stored == Server(server.mappings, server.saved,
                                server.files \cup {BakedHash[h]}, server.pending,
                                server.faults)
    <2>1. server.files \subseteq stored.files
        BY DEF Server
    <2>2. \/ \E meta : f \in WriteMetaFile(server, h, meta)
          \/ \E g \in MapBake(server, h) : \E meta : f \in WriteMetaFile(g, h, meta)
        BY <1>2 DEF CompletedBake
    <2> HIDE DEF stored
    <2>3. \A g \in MapBake(server, h) : g.files = stored.files
        BY SetMappingKeepsFiles DEF MapBake, stored
    <2> QED BY <1>1, <2>1, <2>2, <2>3
<1>3. ASSUME NEW f \in FailedBake(server, h) PROVE server.files \subseteq f.files
    BY <1>1 DEF FailedBake
<1> QED BY <1>2, <1>3 DEF BakeOutcomes

\* Dying in the middle of a handler, the server keeps more files and has less mapped
LEMMA BecomesKeeps ==
    ASSUME NEW d, NEW outcomes, NEW next, Becomes(outcomes, next),
           d.files = server.files, \A e \in outcomes : Keeps(d, e)
    PROVE  Keeps(server, server')
<1>1. PICK e \in outcomes :
        \/ server' = e
        \/ \E kept : server' = Server(Empty, e.saved, e.files \cup kept, Empty, e.faults)
    BY DEF Becomes
<1>2. CASE server' = e
    BY <1>2 DEF Keeps
<1>3. ASSUME NEW kept,
             server' = Server(Empty, e.saved, e.files \cup kept, Empty, e.faults)
      PROVE  Keeps(server, server')
    <2>1. Range(Empty) = {}
        BY DEF Empty, Range
    <2> QED BY <1>3, <2>1 DEF Keeps, Mapped, Server
<1> QED BY <1>1, <1>2, <1>3

LEMMA StepKeeps ==
    ASSUME [Next]_vars
    PROVE  Keeps(server, server') \/ \E h \in Contents : FailUpload(h)
<1>1. CASE CompleteSetup
    BY <1>1, LoadedKeeps, BecomesKeeps DEF CompleteSetup
<1>2. CASE FailSetup
    BY <1>2 DEF FailSetup, Keeps, Server
<1>3. CASE Handle
    BY <1>3, HandleRequestKeeps, BecomesKeeps DEF Handle
<1>4. ASSUME NEW h \in Contents, StartUpload(h) \/ FinishUpload(h) \/ StartBake(h)
      PROVE  Keeps(server, server')
    BY <1>4 DEF StartUpload, FinishUpload, StartBake, Stage, Keeps, Server
<1>5. ASSUME NEW h \in Contents, HandleBake(h) PROVE Keeps(server, server')
    <2>1. \A e \in {NoLongerPending(d, h) : d \in BakeOutcomes(h)} : Keeps(server, e)
        BY BakeKeeps DEF NoLongerPending, Keeps, Server
    <2> QED BY <1>5, <2>1, BecomesKeeps DEF HandleBake
<1>6. CASE Finish \/ Stop \/ Restart \/ Crash
    BY <1>6 DEF Finish, Stop, Restart, Crash, Reset, Keeps, Server
<1>7. CASE UNCHANGED vars
    BY <1>7 DEF vars, Keeps
<1> QED BY <1>1, <1>2, <1>3, <1>4, <1>5, <1>6, <1>7 DEF Next

(***************************************************************************)
(* However paths, bakes and map.json come to share a file, and whatever    *)
(* fails half way, what is and stays mapped is not removed                 *)
(* (AssetServer::deleteMappings, cleanupUnmappedFiles,                     *)
(* removeBakedPathsForDeletedAsset).                                       *)
(***************************************************************************)
THEOREM MappedFilesAreKept == Spec => FilesKeptWhileMapped
<1>1. ASSUME [Next]_vars,
             NEW h \in (server.files \ server'.files) \cap Mapped(server) \cap Mapped(server')
      PROVE  FailUpload(h)
    <2>1. ~Keeps(server, server')
        BY DEF Keeps
    <2>2. PICK g \in Contents : FailUpload(g)
        BY <1>1, <2>1, StepKeeps
    <2>3. server'.files = server.files \ {g}
        BY <2>2 DEF FailUpload, Server
    <2> QED BY <2>2, <2>3
<1>2. [Next]_vars =>
        [\A h \in (server.files \ server'.files) \cap Mapped(server) \cap Mapped(server') :
            FailUpload(h)]_vars
    BY <1>1
<1> QED BY <1>2, PTL DEF Spec, FilesKeptWhileMapped
-----------------------------------------------------------------------------
(* A setup in which nothing fails cleans up.  That nothing failed is that  *)
(* faults, which a handler can only raise, is what it was                  *)

Raises(d, e) == e.faults \in Nat /\ e.faults >= d.faults

\* A failed write counts as one fault, and so does a cleanup in which something fails
LEMMA SetMappingRaises ==
    ASSUME NEW d, d.faults \in Nat, NEW k, NEW h, NEW e \in SetMapping(d, k, h)
    PROVE  Raises(d, e)
BY DEF SetMapping, MaybeBake, BakeAll, Written, NotWritten, Failing, Server, Raises

LEMMA RemovalsRaises ==
    ASSUME NEW d, d.faults \in Nat, NEW G, NEW H, NEW e \in Removals(d, G, H)
    PROVE  /\ Raises(d, e)
           /\ e.faults = d.faults => \E D : Removed(d, G, H, e, D, {}, {})
<1>1. PICK D, F : \E S \in SUBSET F : Removed(d, G, H, e, D, F, S)
    BY RemovalsShape
<1>2. PICK S \in SUBSET F : Removed(d, G, H, e, D, F, S)
    BY <1>1
<1>3. e.faults = IF F = {} THEN d.faults ELSE d.faults + 1
    BY <1>2 DEF Removed
<1>4. Raises(d, e)
    BY <1>3 DEF Raises
<1>5. e.faults = d.faults => F = {}
    BY <1>3
<1> QED BY <1>2, <1>4, <1>5

LEMMA DeleteMappingsRaises ==
    ASSUME NEW d, d.faults \in Nat, NEW K, NEW e \in DeleteMappings(d, K)
    PROVE  Raises(d, e)
<1> DEFINE first == Written(d, Without(d.mappings, K))
<1>1. first.faults = d.faults
    BY DEF Written, Server
<1> HIDE DEF first
<1>2. ASSUME NEW gone, e \in Removals(first, gone, {}) PROVE Raises(d, e)
    BY <1>1, <1>2, RemovalsRaises DEF Raises
<1>3. CASE e = NotWritten(d, d.mappings)
    BY <1>3 DEF NotWritten, Server, Raises
<1> QED BY <1>2, <1>3, DeleteMappingsShape DEF first

LEMMA SetBakingEnabledRaises ==
    ASSUME NEW d, d.faults \in Nat, NEW p, NEW enabled, NEW f \in SetBakingEnabled(d, p, enabled)
    PROVE  Raises(d, f)
<1>1. \/ f = d
      \/ \E K, h : \E e \in DeleteMappings(d, K) : f = MaybeBake(e, p, h)
      \/ \E K, h, k : \E e \in DeleteMappings(d, K) : f \in SetMapping(e, k, h)
    BY DEF SetBakingEnabled
<1>2. CASE f = d
    BY <1>2 DEF Raises
<1>3. ASSUME NEW K, NEW h, NEW e \in DeleteMappings(d, K), f = MaybeBake(e, p, h)
      PROVE  Raises(d, f)
    <2>1. Raises(d, e)
        BY DeleteMappingsRaises
    <2> QED BY <1>3, <2>1 DEF MaybeBake, BakeAll, Server, Raises
<1>4. ASSUME NEW K, NEW h, NEW k, NEW e \in DeleteMappings(d, K), f \in SetMapping(e, k, h)
      PROVE  Raises(d, f)
    <2>1. Raises(d, e)
        BY DeleteMappingsRaises
    <2>2. Raises(e, f)
        BY <1>4, <2>1, SetMappingRaises DEF Raises
    <2> QED BY <2>1, <2>2 DEF Raises
<1> QED BY <1>1, <1>2, <1>3, <1>4

LEMMA HandleRequestRaises ==
    ASSUME NEW d, d.faults \in Nat, NEW r \in Requests, NEW e \in HandleRequest(d, r)
    PROVE  Raises(d, e)
<1>1. CASE r \in [op : {"Set"}, path : Paths, hash : Contents]
    BY <1>1, SetMappingRaises DEF HandleRequest
<1>2. CASE r \in [op : {"Delete"}, keys : SUBSET Paths \cup {Keys}]
    BY <1>2, DeleteMappingsRaises DEF HandleRequest
<1>3. CASE r \in [op : {"Rename"}, from : Paths, to : Paths]
    <2>1. e \in RenameMapping(d, r.from, r.to)
        BY <1>3 DEF HandleRequest
    <2> QED BY <2>1 DEF RenameMapping, Written, NotWritten, Failing, Server, Raises
<1>4. CASE r \in [op : {"SetBaking"}, path : Paths, enabled : BOOLEAN]
    BY <1>4, SetBakingEnabledRaises DEF HandleRequest
<1> QED BY <1>1, <1>2, <1>3, <1>4 DEF Requests

LEMMA BakeRaises ==
    ASSUME server.faults \in Nat, NEW h, NEW e \in BakeOutcomes(h)
    PROVE  e.faults \in Nat
<1>1. ASSUME NEW d, d.faults \in Nat, NEW meta, NEW f \in WriteMetaFile(d, h, meta)
      PROVE  f.faults \in Nat
    <2> DEFINE s == Server(d.mappings, d.saved, d.files \cup {meta}, d.pending, d.faults)
    <2>1. s.faults = d.faults
        BY DEF Server
    <2>2. f \in SetMapping(s, <<h, "meta">>, meta) \/ f = NotWritten(d, d.mappings)
        BY DEF WriteMetaFile, Failing
    <2> HIDE DEF s
    <2>3. CASE f \in SetMapping(s, <<h, "meta">>, meta)
        BY <1>1, <2>1, <2>3, SetMappingRaises DEF Raises
    <2>4. CASE f = NotWritten(d, d.mappings)
        BY <1>1, <2>4 DEF NotWritten, Server
    <2> QED BY <2>2, <2>3, <2>4
<1>2. ASSUME NEW f \in CompletedBake(server, h) PROVE f.faults \in Nat
    <2> DEFINE stored == Server(server.mappings, server.saved,
                                server.files \cup {BakedHash[h]}, server.pending,
                                server.faults)
    <2>1. stored.faults = server.faults
        BY DEF Server
    <2>2. \/ \E meta : f \in WriteMetaFile(server, h, meta)
          \/ \E g \in MapBake(server, h) : \E meta : f \in WriteMetaFile(g, h, meta)
        BY <1>2 DEF CompletedBake
    <2> HIDE DEF stored
    <2>3. \A g \in MapBake(server, h) : g.faults \in Nat
        BY <2>1, SetMappingRaises DEF MapBake, stored, Raises
    <2> QED BY <1>1, <2>2, <2>3
<1>3. ASSUME NEW f \in FailedBake(server, h) PROVE f.faults \in Nat
    BY <1>1 DEF FailedBake
<1> QED BY <1>2, <1>3 DEF BakeOutcomes

-----------------------------------------------------------------------------
\* Every file is mapped, and every baked folder is that of an asset that is mapped or
\* was lost
Clean(d, gone) ==
    /\ d.files \subseteq Range(d.mappings)
    /\ \A k \in Hidden \cap DOMAIN d.mappings : k[1] \in Range(d.mappings) \cup gone

\* When nothing fails, what is left without a mapping by a cleanup is gone
LEMMA RemovedLeavesMapped ==
    ASSUME NEW d, NEW G, NEW H, NEW e, NEW D, Removed(d, G, H, e, D, {}, {}),
           d.files \subseteq G \cup Range(d.mappings)
    PROVE  /\ e.files \subseteq Range(e.mappings)
           /\ DOMAIN e.mappings = DOMAIN d.mappings \ HiddenOf(D)
           /\ \A k \in DOMAIN e.mappings : e.mappings[k] = d.mappings[k]
           /\ H \subseteq D
           /\ e.files \subseteq d.files
           /\ \A h \in d.files \cap Contents : \A k \in DOMAIN d.mappings \cap HiddenOf(D) :
                d.mappings[k] = h => h \in D \cup Range(e.mappings)
<1>1. /\ DOMAIN e.mappings = DOMAIN d.mappings \ HiddenOf(D)
      /\ \A k \in DOMAIN e.mappings : e.mappings[k] = d.mappings[k]
    BY DEF Removed, Without, Restrict
<1>2. e.files = d.files \ Orphaned(d, G, D) /\ (H \cup (Orphaned(d, G, D) \cap Contents)) \subseteq D
    BY DEF Removed
<1> DEFINE of == {d.mappings[k] : k \in DOMAIN d.mappings \cap HiddenOf(D)}
<1>3. Orphaned(d, G, D) = (d.files \cap (G \cup of)) \ Range(e.mappings)
    BY DEF Removed, Orphaned, Unmapped
<1>4. Range(d.mappings) \subseteq of \cup Range(e.mappings)
    BY <1>1 DEF Range
<1>5. \A k \in DOMAIN d.mappings \cap HiddenOf(D) : d.mappings[k] \in of
    OBVIOUS
<1> HIDE DEF of
<1>6. e.files \subseteq Range(e.mappings)
    BY <1>2, <1>3, <1>4
<1>7. \A h \in d.files \cap Contents : h \in of => h \in D \cup Range(e.mappings)
    BY <1>2, <1>3
<1> QED BY <1>1, <1>2, <1>5, <1>6, <1>7

\* The first cleanup removes the folders of assets that are gone with their file, the
\* second those of all the others.  What maps a content it takes away maps the bake of
\* an asset to itself, which is that asset; or a file, which then goes with its folder;
\* or what has been lost.
LEMMA LoadedCleans ==
    ASSUME NEW d, NEW L, Sound(d, L), d.faults \in Nat, NEW f \in Loaded(d)
    PROVE  /\ Raises(d, f)
           /\ d.saved # Empty /\ f.faults = d.faults => Clean(f, L \ f.files)
<1>1. Sound(Read(d), L) /\ Read(d).faults = d.faults /\ Read(d).files = d.files
    BY DEF Sound, Read, Server
<1>2. CASE d.saved = Empty
    BY <1>1, <1>2, LoadedShape DEF Raises
<1>3. CASE d.saved # Empty
    <2>1. PICK e \in Removals(Read(d), d.files, {}) :
            \E g \in Removals(e, {}, Baseless(e)) : \E H : f = BakeAll(g, H)
        BY <1>3, LoadedShape
    <2>2. PICK g \in Removals(e, {}, Baseless(e)) : \E H : f = BakeAll(g, H)
        BY <2>1
    <2>3. f.mappings = g.mappings /\ f.files = g.files /\ f.faults = g.faults
        BY <2>2 DEF BakeAll, Server
    <2>4. Sound(e, L)
        BY <1>1, RemovalsSound DEF AllSound
    <2>5. Raises(Read(d), e)
        BY <1>1, RemovalsRaises
    <2>6. Raises(e, g)
        BY <2>5, RemovalsRaises DEF Raises
    <2>7. Raises(d, f)
        BY <1>1, <2>3, <2>5, <2>6 DEF Raises
    <2>8. ASSUME f.faults = d.faults PROVE Clean(f, L \ f.files)
        <3>1. e.faults = Read(d).faults /\ g.faults = e.faults /\ e.faults \in Nat
            BY <1>1, <2>3, <2>5, <2>6, <2>8 DEF Raises
        <3>2. PICK D : Removed(Read(d), d.files, {}, e, D, {}, {})
            BY <1>1, <3>1, RemovalsRaises
        <3>3. PICK E : Removed(e, {}, Baseless(e), g, E, {}, {})
            BY <3>1, RemovalsRaises
        <3>4. e.files \subseteq Range(e.mappings)
            BY <1>1, <3>2, RemovedLeavesMapped
        <3>5. /\ g.files \subseteq Range(g.mappings)
              /\ DOMAIN g.mappings = DOMAIN e.mappings \ HiddenOf(E)
              /\ \A k \in DOMAIN g.mappings : g.mappings[k] = e.mappings[k]
              /\ Baseless(e) \subseteq E
              /\ g.files \subseteq e.files
            BY <3>3, <3>4, RemovedLeavesMapped
        <3>6. \A h \in e.files \cap Contents : \A k \in DOMAIN e.mappings \cap HiddenOf(E) :
                e.mappings[k] = h => h \in E \cup Range(g.mappings)
            BY <3>3, <3>4, RemovedLeavesMapped
        <3>7. ASSUME NEW k \in Hidden \cap DOMAIN g.mappings
              PROVE  k[1] \in Range(g.mappings) \cup (L \ g.files)
            <4>1. k \in DOMAIN e.mappings /\ k[1] \in Contents /\ k[1] \notin E
                BY <3>5 DEF HiddenOf, Hidden
            <4>2. k \in HiddenOf({k[1]})
                BY DEF HiddenOf
            <4>3. k[1] \in Range(e.mappings)
                BY <3>5, <4>1, <4>2 DEF Baseless
            <4>4. PICK x \in DOMAIN e.mappings : e.mappings[x] = k[1]
                BY <4>3 DEF Range
            <4>5. CASE x \notin HiddenOf(E)
                BY <3>5, <4>4, <4>5 DEF Range
            <4>6. CASE x \in HiddenOf(E)
                <5>1. x \in Hidden /\ x[1] \in E
                    BY <4>6 DEF HiddenOf
                <5>2. e.mappings[x] = x[1] \/ e.mappings[x] \in e.files \cup L
                    BY <2>4, <4>4, <5>1 DEF Sound, Stored
                <5>3. k[1] \in e.files \cup L
                    BY <4>1, <4>4, <5>1, <5>2
                <5>4. CASE k[1] \in e.files
                    BY <3>6, <4>1, <4>4, <4>6, <5>4
                <5>5. CASE k[1] \in L \ e.files
                    BY <3>5, <5>5
                <5> QED BY <5>3, <5>4, <5>5
            <4> QED BY <4>5, <4>6
        <3> QED BY <2>3, <3>5, <3>7 DEF Clean
    <2> QED BY <2>7, <2>8
<1> QED BY <1>2, <1>3

LEMMA BecomesCounted ==
    ASSUME NEW outcomes, NEW next, Becomes(outcomes, next), \A e \in outcomes : e.faults \in Nat
    PROVE  server'.faults \in Nat
BY DEF Becomes, Server

LEMMA StepCounted ==
    ASSUME Sound(server, lost), server.faults \in Nat, [Next]_vars
    PROVE  server'.faults \in Nat
<1>1. CASE CompleteSetup
    BY <1>1, LoadedCleans, BecomesCounted DEF CompleteSetup, Raises
<1>2. CASE FailSetup
    BY <1>2 DEF FailSetup, Server
<1>3. CASE Handle
    BY <1>3, HandleRequestRaises, BecomesCounted DEF Handle, Raises
<1>4. ASSUME NEW h \in Contents,
             StartUpload(h) \/ FinishUpload(h) \/ FailUpload(h) \/ StartBake(h)
      PROVE  server'.faults \in Nat
    BY <1>4 DEF StartUpload, FinishUpload, FailUpload, StartBake, Stage, Server
<1>5. ASSUME NEW h \in Contents, HandleBake(h) PROVE server'.faults \in Nat
    <2>1. \A e \in {NoLongerPending(d, h) : d \in BakeOutcomes(h)} : e.faults \in Nat
        BY BakeRaises DEF NoLongerPending, Server
    <2> QED BY <1>5, <2>1, BecomesCounted DEF HandleBake
<1>6. CASE Finish \/ Stop \/ Restart \/ Crash
    BY <1>6 DEF Finish, Stop, Restart, Crash, Reset, Server
<1>7. CASE UNCHANGED vars
    BY <1>7 DEF vars
<1> QED BY <1>1, <1>2, <1>3, <1>4, <1>5, <1>6, <1>7 DEF Next

\* Only the setup makes the server run
LEMMA SetupRuns ==
    ASSUME [Next]_vars, phase = "setup", phase' = "running"
    PROVE  server' \in Loaded(server) /\ lost' = lost \ server'.files
<1>1. CASE CompleteSetup
    BY <1>1 DEF CompleteSetup, Becomes
<1>2. CASE FailSetup
    BY <1>2 DEF FailSetup
<1>3. ASSUME NEW h \in Contents, FinishUpload(h) \/ FailUpload(h) \/ StartUpload(h) \/ StartBake(h)
      PROVE  FALSE
    BY <1>3 DEF FinishUpload, FailUpload, StartUpload, StartBake, Stage
<1>4. CASE Handle \/ Finish \/ Stop \/ Restart \/ Crash \/ UNCHANGED vars
    BY <1>4 DEF Handle, Accepting, Finish, Stop, Restart, Crash, Reset, vars
<1>5. ASSUME NEW h \in Contents, HandleBake(h) PROVE FALSE
    BY <1>5 DEF HandleBake
<1> QED BY <1>1, <1>2, <1>3, <1>4, <1>5 DEF Next

(***************************************************************************)
(* Whatever crashes, failed writes and late bakes have left, completeSetup *)
(* with a map, when nothing fails, leaves only files that are mapped and   *)
(* the bakes of assets that are, or whose file an upload has lost          *)
(* (cleanupUnmappedFiles, cleanupBakedFilesForDeletedAssets): one round of *)
(* each is enough.                                                         *)
(***************************************************************************)
THEOREM SetupAlwaysCleans == Spec => CleanAfterSetup
<1> DEFINE I == Sound(server, lost) /\ server.faults \in Nat
<1>1. Init => I
    BY InitSound DEF Init, Server
<1>2. I /\ [Next]_vars => I'
    BY StepSound, StepCounted
<1>3. I /\ [Next]_vars =>
        [phase = "setup" /\ phase' = "running" /\ server.saved # Empty
            /\ server'.faults = server.faults
         => LET m == server'.mappings
            IN /\ server'.files \subseteq Range(m)
               /\ \A k \in Hidden \cap DOMAIN m : k[1] \in Range(m) \cup lost']_vars
    <2> SUFFICES ASSUME I, [Next]_vars, phase = "setup", phase' = "running",
                        server.saved # Empty, server'.faults = server.faults
                 PROVE  Clean(server', lost')
        BY DEF Clean
    <2>1. server' \in Loaded(server) /\ lost' = lost \ server'.files
        BY SetupRuns
    <2>2. Clean(server', lost \ server'.files)
        BY <2>1, LoadedCleans
    <2> QED BY <2>1, <2>2
<1> QED BY <1>1, <1>2, <1>3, PTL DEF Spec, CleanAfterSetup
=============================================================================
