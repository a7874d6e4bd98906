------------------------------ MODULE Versions ------------------------------
(***************************************************************************)
(* The history of one file (server/internal/files: versions.go, PutFile and *)
(* the whole-file blobs of store.go, Upload, MigrateBlobs and the blob part *)
(* of CollectGarbage in service.go).  A version's content is a whole-file   *)
(* blob, with a counted row and bytes on disk, or a manifest of the         *)
(* content-addressed store, which CasStore models and which is only a row   *)
(* here.  Versions and blobs are numbered in the order they are created.    *)
(***************************************************************************)
EXTENDS Naturals, FiniteSets, TLC, FiniteSetsExt

CONSTANTS
  Data,            \* contents
  SizeOf,          \* their sizes
  Quota,           \* quota_bytes of the owner
  Keep,            \* KeepVersions
  Migrator,        \* migration passes: the API's loop and the operator's command
  MaxVersion,      \* bound on the versions ever created
  MaxPut,          \* bound on the uploads
  Cancels          \* may a request be cancelled between PutFile's commit and its answer?

ASSUME VersionAssumption ==
  /\ SizeOf \in [Data -> Nat] /\ "none" \notin Data /\ Quota \in Nat /\ Keep \in Nat
  /\ MaxVersion \in Nat /\ MaxPut \in Nat /\ Cancels \in BOOLEAN

VARIABLES
  file,            \* "live", "trashed" or "gone"
  created, puts,   \* how many versions and blobs were ever created
  versions,        \* file_versions: [blob, manifest, data] of the rows that exist
  head,            \* nodes.head_version_id
  aged,            \* versions past the retention; blobs are always past their grace
  blobs,           \* blobs: the refcount of the rows that exist
  disk,            \* the blobs whose bytes exist, with those bytes
  manifests,       \* contents that have a manifest
  upload,          \* the upload in flight
  restore,         \* the restore in flight
  migration,       \* the migrations in flight
  collector        \* the blob collection in flight

versionVars == <<file, created, puts, versions, head, aged, blobs, disk, manifests,
                 upload, restore, migration, collector>>
versionWork == <<upload, restore, migration, collector>>

NoBlob == 0
NoData == "none"
Waiting == [at |-> "idle"]

Pointing(vs, b) == {v \in DOMAIN vs : vs[v].blob = b}

\* Mutant: the trigger fires on INSERT and DELETE only, as it did before migration 00008.
BumpedByRows(new) ==
  [b \in DOMAIN blobs |->
     (blobs[b] + Cardinality(Pointing(new, b) \ DOMAIN versions))
               - Cardinality(Pointing(versions, b) \ DOMAIN new)]

\* blob_refcount_bump: the count follows the rows that start or stop to point to a blob.
Bumped(new) ==
  [b \in DOMAIN blobs |->
     (blobs[b] + Cardinality(Pointing(new, b) \ Pointing(versions, b)))
               - Cardinality(Pointing(versions, b) \ Pointing(new, b))]

\* usageBytes: each distinct content hash once; the two formats hash differently.
Hashes == {<<versions[v].blob # NoBlob, versions[v].data>> : v \in DOMAIN versions}
Used == FoldSet(LAMBDA h, n : n + SizeOf[h[2]], 0, Hashes)

\* checkQuota
WithinQuota(adding) == Used + adding <= Quota

\* The rows with one more version, which becomes the head.
With(row) ==
  [v \in DOMAIN versions \cup {created + 1} |-> IF v = created + 1 THEN row ELSE versions[v]]

-----------------------------------------------------------------------------
(***************************************************************************)
(* Upload over the file                                                    *)
(***************************************************************************)

\* Upload: refused at the limit before a byte is read, then blobs.Put.
PutBlob(d) ==
  /\ upload = Waiting /\ puts < MaxPut /\ WithinQuota(0)
  /\ puts' = puts + 1
  /\ upload' = [at |-> "putfile", blob |-> puts + 1, data |-> d]
  /\ disk' = [b \in DOMAIN disk \cup {puts + 1} |-> IF b = puts + 1 THEN d ELSE disk[b]]
  /\ UNCHANGED <<file, created, versions, head, aged, blobs, manifests,
                 restore, migration, collector>>

\* PutFile's transaction: the blob row, the version, the head.
Commits ==
  LET b == upload.blob IN
  /\ file = "live" /\ created < MaxVersion /\ WithinQuota(SizeOf[upload.data])
  /\ versions' = With([blob |-> b, manifest |-> NoData, data |-> upload.data])
  /\ blobs' = [x \in DOMAIN blobs \cup {b} |-> IF x = b THEN 1 ELSE blobs[x]]
  /\ created' = created + 1 /\ head' = created + 1

PutFile ==
  /\ upload.at = "putfile" /\ Commits
  /\ upload' = Waiting
  /\ UNCHANGED <<file, puts, aged, disk, manifests, restore, migration, collector>>

\* PutFile returns an error and Upload deletes the bytes: nothing was committed, or the
\* request was cancelled after the commit, before the node was read back.
PutFileFails ==
  /\ upload.at = "putfile"
  /\ UNCHANGED <<versions, head, blobs, created>> \/ (Cancels /\ Commits)
  /\ disk' = [b \in DOMAIN disk \ {upload.blob} |-> disk[b]]
  /\ upload' = Waiting
  /\ UNCHANGED <<file, puts, aged, manifests, restore, migration, collector>>

\* The process dies between the bytes and the row: the bytes are left for fsck.
UploadDies ==
  /\ upload # Waiting
  /\ upload' = Waiting
  /\ UNCHANGED <<file, created, puts, versions, head, aged, blobs, disk, manifests,
                 restore, migration, collector>>

-----------------------------------------------------------------------------
(***************************************************************************)
(* Restore of an old version                                               *)
(***************************************************************************)

\* RestoreVersion reads the version it is to bring back; only growth over the head is
\* charged.
ReadVersion(v) ==
  /\ restore = Waiting /\ file = "live" /\ created < MaxVersion
  /\ v \in DOMAIN versions
  /\ LET grown == SizeOf[versions[v].data] - SizeOf[versions[head].data]
     IN SizeOf[versions[v].data] > SizeOf[versions[head].data] => WithinQuota(grown)
  /\ restore' = [at |-> "insert", row |-> versions[v]]
  /\ UNCHANGED <<file, created, puts, versions, head, aged, blobs, disk, manifests,
                 upload, migration, collector>>

\* A new version with the same content pointers; the foreign keys refuse a pointer that
\* is gone by now.
RestoreVersion ==
  LET row == restore.row IN
  /\ restore.at = "insert"
  /\ restore' = Waiting
  /\ IF /\ file # "gone" /\ created < MaxVersion
        /\ row.blob \in DOMAIN blobs \/ row.manifest \in manifests
     THEN /\ versions' = With(row)
          /\ blobs' = Bumped(With(row))
          /\ created' = created + 1 /\ head' = created + 1
     ELSE UNCHANGED <<versions, blobs, created, head>>
  /\ UNCHANGED <<file, puts, aged, disk, manifests, upload, migration, collector>>

-----------------------------------------------------------------------------
(***************************************************************************)
(* Migration of blobs to manifests                                         *)
(***************************************************************************)

\* MigratableVersions: versions that are blobs.
ListMigratable(m) ==
  /\ migration[m] = Waiting
  /\ \E v \in DOMAIN versions :
       /\ versions[v].blob # NoBlob
       /\ migration' = [migration EXCEPT ![m] =
            [at |-> "write", version |-> v, blob |-> versions[v].blob]]
  /\ UNCHANGED <<file, created, puts, versions, head, aged, blobs, disk, manifests,
                 upload, restore, collector>>

\* migrateOne opens the blob, skips it when its bytes are gone, and has cas.Write make a
\* manifest of what it read, or find the one there is.
WriteManifest(m) ==
  LET b == migration[m].blob IN
  /\ migration[m].at = "write"
  /\ IF b \in DOMAIN disk
     THEN /\ manifests' = manifests \cup {disk[b]}
          /\ migration' = [migration EXCEPT ![m] =
               [at |-> "switch", version |-> @.version, blob |-> b, manifest |-> disk[b],
                reused |-> disk[b] \in manifests]]
     ELSE /\ migration' = [migration EXCEPT ![m] = Waiting]
          /\ UNCHANGED manifests
  /\ UNCHANGED <<file, created, puts, versions, head, aged, blobs, disk,
                 upload, restore, collector>>

\* SwitchToManifest: only if the version still points to the blob that was read.
Switchable(m) ==
  LET g == migration[m] IN
  /\ g.version \in DOMAIN versions /\ versions[g.version].blob = g.blob
  /\ g.manifest \in manifests

\* Mutant: the blob pointer is left in place.
SwitchedKeepsBlob(m) ==
  [versions EXCEPT ![migration[m].version].manifest = migration[m].manifest]

Switched(m) ==
  [versions EXCEPT ![migration[m].version].blob = NoBlob,
                   ![migration[m].version].manifest = migration[m].manifest]

Unreferenced(d) == \A v \in DOMAIN versions : versions[v].manifest # d

\* dropOrphanManifest leaves a reused manifest and one that a version points to.
Dropped(m) ==
  IF ~migration[m].reused /\ Unreferenced(migration[m].manifest)
  THEN manifests \ {migration[m].manifest} ELSE manifests

SwitchToManifest(m) ==
  /\ migration[m].at = "switch"
  /\ migration' = [migration EXCEPT ![m] = Waiting]
  /\ IF Switchable(m)
     THEN versions' = Switched(m) /\ blobs' = Bumped(Switched(m)) /\ UNCHANGED manifests
     ELSE manifests' = Dropped(m) /\ UNCHANGED <<versions, blobs>>
  /\ UNCHANGED <<file, created, puts, head, aged, disk, upload, restore, collector>>

\* The pass is interrupted; a manifest it made is left for the collector.
MigrationDies(m) ==
  /\ migration[m] # Waiting
  /\ migration' = [migration EXCEPT ![m] = Waiting]
  /\ UNCHANGED <<file, created, puts, versions, head, aged, blobs, disk, manifests,
                 upload, restore, collector>>

-----------------------------------------------------------------------------
(***************************************************************************)
(* Retention and collection                                                *)
(***************************************************************************)

\* A version's created_at passes the retention.
VersionAges(v) ==
  /\ v \in DOMAIN versions \ aged
  /\ aged' = aged \cup {v}
  /\ UNCHANGED <<file, created, puts, versions, head, blobs, disk, manifests, versionWork>>

Rank(v) == Cardinality({w \in DOMAIN versions : w >= v})

\* Mutant: one version too many is pruned.
PrunesOneMore ==
  LET pruned == {v \in DOMAIN versions \cap aged : v # head /\ Rank(v) >= Keep}
      kept == [v \in DOMAIN versions \ pruned |-> versions[v]]
  IN /\ pruned # {}
     /\ versions' = kept /\ blobs' = Bumped(kept)
     /\ UNCHANGED <<file, created, puts, head, aged, disk, manifests, versionWork>>

\* PruneVersions, one statement: old versions past the newest Keep, never the head.
PruneVersions ==
  LET pruned == {v \in DOMAIN versions \cap aged : v # head /\ Rank(v) > Keep}
      kept == [v \in DOMAIN versions \ pruned |-> versions[v]]
  IN /\ pruned # {}
     /\ versions' = kept /\ blobs' = Bumped(kept)
     /\ UNCHANGED <<file, created, puts, head, aged, disk, manifests, versionWork>>

\* UnreferencedBlobs.  The grace counts from the creation of the row, so a blob that
\* loses its last version after that is listed at once.
ListBlobs ==
  /\ collector = Waiting
  /\ \E b \in DOMAIN blobs :
       /\ blobs[b] = 0
       /\ collector' = [at |-> "row", blob |-> b]
  /\ UNCHANGED <<file, created, puts, versions, head, aged, blobs, disk, manifests,
                 upload, restore, migration>>

\* Mutant: the bytes go before the refcount is checked again.
DeletesBytesFirst ==
  LET b == collector.blob IN
  /\ collector.at = "row"
  /\ disk' = [x \in DOMAIN disk \ {b} |-> disk[x]]
  /\ blobs' = [x \in {y \in DOMAIN blobs : y # b \/ blobs[y] # 0} |-> blobs[x]]
  /\ collector' = Waiting
  /\ UNCHANGED <<file, created, puts, versions, head, aged, manifests,
                 upload, restore, migration>>

\* DeleteBlobRow, with the refcount checked again; a claimed blob is skipped.
DeleteBlobRow ==
  LET b == collector.blob IN
  /\ collector.at = "row"
  /\ IF b \in DOMAIN blobs /\ blobs[b] = 0
     THEN /\ blobs' = [x \in DOMAIN blobs \ {b} |-> blobs[x]]
          /\ collector' = [collector EXCEPT !.at = "bytes"]
     ELSE /\ collector' = Waiting
          /\ UNCHANGED blobs
  /\ UNCHANGED <<file, created, puts, versions, head, aged, disk, manifests,
                 upload, restore, migration>>

\* Then its bytes; if that fails, or the process dies, they are an orphan for fsck.
DeleteBlobBytes ==
  /\ collector.at = "bytes"
  /\ disk' \in {disk, [b \in DOMAIN disk \ {collector.blob} |-> disk[b]]}
  /\ collector' = Waiting
  /\ UNCHANGED <<file, created, puts, versions, head, aged, blobs, manifests,
                 upload, restore, migration>>

\* collectManifests, of CasStore: a manifest no version points to.
CollectManifest(d) ==
  /\ d \in manifests /\ Unreferenced(d)
  /\ manifests' = manifests \ {d}
  /\ UNCHANGED <<file, created, puts, versions, head, aged, blobs, disk, versionWork>>

\* The file goes to the trash, comes back, or is purged with its versions.
TrashFile ==
  /\ file = "live" /\ file' = "trashed"
  /\ UNCHANGED <<created, puts, versions, head, aged, blobs, disk, manifests, versionWork>>

RestoreFile ==
  /\ file = "trashed" /\ file' = "live"
  /\ UNCHANGED <<created, puts, versions, head, aged, blobs, disk, manifests, versionWork>>

PurgeFile ==
  /\ file = "trashed" /\ file' = "gone"
  /\ versions' = << >> /\ blobs' = Bumped(<< >>) /\ head' = NoBlob
  /\ UNCHANGED <<created, puts, aged, disk, manifests, versionWork>>

-----------------------------------------------------------------------------
VersionInit ==
  /\ file = "live" /\ created = 1 /\ puts = 1 /\ head = 1
  /\ \E d \in Data : /\ versions = [v \in {1} |-> [blob |-> 1, manifest |-> NoData, data |-> d]]
                     /\ disk = [b \in {1} |-> d]
  /\ aged = {} /\ blobs = [b \in {1} |-> 1] /\ manifests = {}
  /\ upload = Waiting /\ restore = Waiting /\ collector = Waiting
  /\ migration = [m \in Migrator |-> Waiting]

VersionNext ==
  \/ \E d \in Data : PutBlob(d) \/ CollectManifest(d)
  \/ PutFile \/ PutFileFails \/ UploadDies
  \/ \E v \in 1..created : ReadVersion(v) \/ VersionAges(v)
  \/ RestoreVersion
  \/ \E m \in Migrator : \/ ListMigratable(m) \/ WriteManifest(m)
                         \/ SwitchToManifest(m) \/ MigrationDies(m)
  \/ PruneVersions \/ ListBlobs \/ DeleteBlobRow \/ DeleteBlobBytes
  \/ TrashFile \/ RestoreFile \/ PurgeFile

VersionSpec == VersionInit /\ [][VersionNext]_versionVars

-----------------------------------------------------------------------------
(***************************************************************************)
(* Properties                                                              *)
(***************************************************************************)

\* Every version is a blob or a manifest and not both, and a file that exists has a head
\* among its versions: the head is moved in the transaction that adds it and is never
\* pruned (PruneVersions).
VersionTypeOK ==
  /\ file \in {"live", "trashed", "gone"}
  /\ \A v \in DOMAIN versions : (versions[v].blob = NoBlob) # (versions[v].manifest = NoData)
  /\ IF file = "gone" THEN versions = << >> ELSE head \in DOMAIN versions

\* The refcount of a blob is the number of versions that point to it, through uploads,
\* restores that share it, migration away from it, pruning and purging: the trigger
\* blob_refcount_bump keeps it, and the collector trusts it.
BlobRefsExact == \A b \in DOMAIN blobs : blobs[b] = Cardinality(Pointing(versions, b))

\* Every version of the history can be served with the content it was made with: its
\* blob has a row and those bytes, or its manifest exists.  A restore, a migration, a
\* prune and a collection may interleave (RestoreVersion, migrateOne, CollectGarbage).
VersionsServed ==
  \A v \in DOMAIN versions :
    LET row == versions[v] IN
    IF row.blob # NoBlob
    THEN row.blob \in DOMAIN blobs /\ row.blob \in DOMAIN disk /\ disk[row.blob] = row.data
    ELSE row.manifest = row.data /\ row.manifest \in manifests

\* Rolling back loses nothing recent: the Keep newest versions ever made of a file that
\* exists are all there, whatever was restored or pruned (PruneVersions).
NewestKept ==
  file # "gone" => \A v \in 1..created : created - v < Keep => v \in DOMAIN versions

\* The history of a file is exact, can be served, and reaches back as far as promised.
HistorySound == BlobRefsExact /\ VersionsServed /\ NewestKept
=============================================================================
