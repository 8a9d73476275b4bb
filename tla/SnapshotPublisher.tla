-------------------------- MODULE SnapshotPublisher --------------------------
(***************************************************************************)
(* AtomicSnapshotPublisher of domain_graph/github_sync.py, run by several  *)
(* sync jobs, and load_github_snapshots() of github_import.py, which reads *)
(* the same directories at any time.  publish() builds the snapshot in a   *)
(* temporary directory and renames it to its place; whatever fails on the  *)
(* way leaves the temporary directory behind.                              *)
(*                                                                         *)
(* The file system: rename() onto a directory that is not empty fails, and *)
(* is atomic otherwise.  Different snapshots have different digests, so a  *)
(* snapshot stands for its sourceRevision.                                 *)
(*                                                                         *)
(* A definition named X_Y is X with the bug Y; no specification uses it.   *)
(***************************************************************************)
EXTENDS FiniteSets

CONSTANTS
  Job,           \* the processes that publish
  SyncId,        \* the directories SYNC-* of one repository
  Snapshot,      \* payloads with the keys of _SNAPSHOT_FIELDS, and their sourceRevision
  ValidSnapshot, \* those whose states, dates, URLs, SHAs and references the loader accepts
  Approval,      \* approvalStatus values of the manifest
  Fields,        \* retrieved_at and sync_mode, as they are given
  ValidFields,   \* those that the loader accepts
  Absent         \* no directory, or no file

VARIABLES
  dest,     \* sync id -> its directory, or Absent
  pc,       \* per job: "idle", or the next step of publish()
  call,     \* per job: the arguments of its last call, Absent before the first
  temp,     \* per job: its temporary directory, or Absent
  result,   \* per job: how its last call ended
  lpc,      \* the loader: "idle", "manifest", "snapshot" or "failed"
  scan,     \* the loader: sync ids of the glob that it has still to read
  manifest, \* the loader: the manifest it has read, and of which directory
  loaded    \* the loader: what it has loaded since it began

jobVars    == <<pc, call, temp, result>>
loaderVars == <<lpc, scan, manifest, loaded>>
vars       == <<dest, jobVars, loaderVars>>

Manifest == [sourceRevision : Snapshot, approvalStatus : Approval, fields : Fields]
Directory == [snapshot : Snapshot \cup {Absent}, manifest : Manifest \cup {Absent}]
Call == [sync : SyncId, snapshot : Snapshot, approval : Approval, fields : Fields]
Results == {"none", "published", "reused", "conflicting_record", "os_error"}

EmptyDir == [snapshot |-> Absent, manifest |-> Absent]

\* The manifest that publish() builds from its arguments.
ManifestOf(c) ==
  [sourceRevision |-> c.snapshot, approvalStatus |-> c.approval, fields |-> c.fields]

ASSUME AbsentAssumption == Absent \notin Snapshot \cup Manifest \cup Directory

ASSUME ValidAssumption == ValidSnapshot \subseteq Snapshot /\ ValidFields \subseteq Fields

Init ==
  /\ dest = [s \in SyncId |-> Absent]
  /\ pc = [j \in Job |-> "idle"]
  /\ call = [j \in Job |-> Absent]
  /\ temp = [j \in Job |-> Absent]
  /\ result = [j \in Job |-> "none"]
  /\ lpc = "idle" /\ scan = {} /\ manifest = Absent /\ loaded = {}

-----------------------------------------------------------------------------
\* publish() refuses, with no effect, ids, a URL, an approval or an updated_by
\* that are malformed, and a payload of other keys or with an unsafe title.  It
\* looks at nothing else: all that Call holds gets through.
Publish(j, c) ==
  /\ pc[j] = "idle"
  /\ pc' = [pc EXCEPT ![j] = "check"]
  /\ call' = [call EXCEPT ![j] = c]
  /\ UNCHANGED <<dest, temp, result, loaderVars>>

Return(j, r) ==
  /\ pc' = [pc EXCEPT ![j] = "idle"]
  /\ result' = [result EXCEPT ![j] = r]

\* Whatever directory is there is good enough.
FoundExisting_AnyRevision(j) ==
  /\ pc[j] = "check" /\ dest[call[j].sync] # Absent
  /\ Return(j, "reused")
  /\ UNCHANGED <<dest, call, temp, loaderVars>>

\* if destination.exists(): the same revision is returned, another refused.
FoundExisting(j) ==
  /\ pc[j] = "check" /\ dest[call[j].sync] # Absent
  /\ LET existing == dest[call[j].sync].manifest
     IN  IF existing # Absent /\ existing.sourceRevision = call[j].snapshot
         THEN Return(j, "reused")
         ELSE Return(j, "conflicting_record")
  /\ UNCHANGED <<dest, call, temp, loaderVars>>

\* tempfile.mkdtemp(prefix=".SYNC-...")
MakeTemp(j) ==
  /\ pc[j] = "check" /\ dest[call[j].sync] = Absent
  /\ temp' = [temp EXCEPT ![j] = EmptyDir]
  /\ pc' = [pc EXCEPT ![j] = "snapshot.json"]
  /\ UNCHANGED <<dest, call, result, loaderVars>>

WriteSnapshot(j) ==
  /\ pc[j] = "snapshot.json"
  /\ temp' = [temp EXCEPT ![j].snapshot = call[j].snapshot]
  /\ pc' = [pc EXCEPT ![j] = "manifest.json"]
  /\ UNCHANGED <<dest, call, result, loaderVars>>

\* The manifest is written where the loader already looks.
WriteManifest_Early(j) ==
  /\ pc[j] = "manifest.json"
  /\ dest' = [dest EXCEPT ![call[j].sync] = temp[j]]
  /\ temp' = [temp EXCEPT ![j].manifest = ManifestOf(call[j])]
  /\ pc' = [pc EXCEPT ![j] = "replace"]
  /\ UNCHANGED <<call, result, loaderVars>>

\* The approval is written where the revision belongs.
WriteManifest_Swapped(j) ==
  /\ pc[j] = "manifest.json"
  /\ temp' = [temp EXCEPT ![j].manifest =
                [ManifestOf(call[j]) EXCEPT !.sourceRevision = call[j].approval]]
  /\ pc' = [pc EXCEPT ![j] = "replace"]
  /\ UNCHANGED <<dest, call, result, loaderVars>>

WriteManifest(j) ==
  /\ pc[j] = "manifest.json"
  /\ temp' = [temp EXCEPT ![j].manifest = ManifestOf(call[j])]
  /\ pc' = [pc EXCEPT ![j] = "replace"]
  /\ UNCHANGED <<dest, call, result, loaderVars>>

\* shutil.move-like: what is there is replaced.
Replace_Clobbering(j) ==
  /\ pc[j] = "replace"
  /\ dest' = [dest EXCEPT ![call[j].sync] = temp[j]]
  /\ temp' = [temp EXCEPT ![j] = Absent]
  /\ pc' = [pc EXCEPT ![j] = "fsync"]
  /\ UNCHANGED <<call, result, loaderVars>>

\* os.replace(temp, destination)
Replace(j) ==
  /\ pc[j] = "replace"
  /\ IF dest[call[j].sync] \in {Absent, EmptyDir}
     THEN /\ dest' = [dest EXCEPT ![call[j].sync] = temp[j]]
          /\ temp' = [temp EXCEPT ![j] = Absent]
          /\ pc' = [pc EXCEPT ![j] = "fsync"]
          /\ UNCHANGED <<call, result, loaderVars>>
     ELSE Return(j, "os_error") /\ UNCHANGED <<dest, call, temp, loaderVars>>

FsyncParent(j) ==
  /\ pc[j] = "fsync"
  /\ Return(j, "published")
  /\ UNCHANGED <<dest, call, temp, loaderVars>>

Fail_CleansUp(j) ==
  /\ pc[j] # "idle"
  /\ Return(j, "os_error")
  /\ dest' = [dest EXCEPT ![call[j].sync] = Absent]
  /\ temp' = [temp EXCEPT ![j] = Absent]
  /\ UNCHANGED <<call, loaderVars>>

\* An OSError of any step, or the death of the process: nothing is undone.
Fail(j) ==
  /\ pc[j] # "idle"
  /\ Return(j, "os_error")
  /\ UNCHANGED <<dest, call, temp, loaderVars>>

-----------------------------------------------------------------------------
\* sorted(Path(root).glob("*/SYNC-*"))
LoadBegin ==
  /\ lpc \in {"idle", "failed"}
  /\ scan' = { s \in SyncId : dest[s] # Absent }
  /\ lpc' = "manifest" /\ manifest' = Absent /\ loaded' = {}
  /\ UNCHANGED <<dest, jobVars>>

\* A directory at which the loader raises ends the load of the whole root.
LoadManifest(s) ==
  /\ lpc = "manifest" /\ s \in scan
  /\ LET file == dest[s].manifest
     IN  /\ manifest' = [sync |-> s, file |-> file]
         /\ lpc' = IF file # Absent /\ file.fields \in ValidFields THEN "snapshot" ELSE "failed"
  /\ UNCHANGED <<dest, jobVars, scan, loaded>>

\* The digest of what is read now is compared with the manifest read before;
\* then the values of its fields are looked at.
LoadSnapshot ==
  /\ lpc = "snapshot"
  /\ LET s == manifest.sync
         raw == dest[s].snapshot
     IN  IF raw \in ValidSnapshot /\ raw = manifest.file.sourceRevision
         THEN /\ loaded' = loaded \cup
                   {[sync |-> s, snapshot |-> raw, approval |-> manifest.file.approvalStatus,
                     fields |-> manifest.file.fields]}
              /\ scan' = scan \ {s}
              /\ lpc' = "manifest" /\ manifest' = Absent
         ELSE lpc' = "failed" /\ UNCHANGED <<loaded, scan, manifest>>
  /\ UNCHANGED <<dest, jobVars>>

LoadEnd ==
  /\ lpc = "manifest" /\ scan = {}
  /\ lpc' = "idle"
  /\ UNCHANGED <<dest, jobVars, scan, manifest, loaded>>

-----------------------------------------------------------------------------
Step(j) ==
  \/ FoundExisting(j) \/ MakeTemp(j) \/ WriteSnapshot(j) \/ WriteManifest(j)
  \/ Replace(j) \/ FsyncParent(j)

Load == LoadBegin \/ (\E s \in SyncId : LoadManifest(s)) \/ LoadSnapshot \/ LoadEnd

Next ==
  \/ \E j \in Job : (\E c \in Call : Publish(j, c)) \/ Step(j) \/ Fail(j)
  \/ Load

Spec == Init /\ [][Next]_vars
-----------------------------------------------------------------------------
TypeOK ==
  /\ dest \in [SyncId -> Directory \cup {Absent}]
  /\ pc \in [Job -> {"idle", "check", "snapshot.json", "manifest.json", "replace", "fsync"}]
  /\ call \in [Job -> Call \cup {Absent}]
  /\ temp \in [Job -> Directory \cup {Absent}]
  /\ result \in [Job -> Results]
  /\ lpc \in {"idle", "manifest", "snapshot", "failed"}
  /\ scan \subseteq SyncId /\ loaded \subseteq Call
  /\ manifest \in [sync : SyncId, file : Manifest \cup {Absent}] \cup {Absent}

(***************************************************************************)
(* A directory that the loader can see holds both files, and the snapshot  *)
(* is the one whose digest the manifest names (issue-6: no partial         *)
(* snapshot is published).                                                 *)
(***************************************************************************)
OnlyWholeVisible ==
  \A s \in SyncId : dest[s] # Absent =>
    /\ dest[s].manifest # Absent
    /\ dest[s].snapshot = dest[s].manifest.sourceRevision

(***************************************************************************)
(* A published snapshot is never changed and never removed, whichever jobs *)
(* collide on its id and wherever they fail (issue-6).                     *)
(***************************************************************************)
WriteOnce ==
  [][ \A s \in SyncId : dest[s] # Absent => dest'[s] = dest[s] ]_dest

(***************************************************************************)
(* The loader reads the manifest and the snapshot of a directory in two    *)
(* steps while jobs publish.  What it has loaded is what is published, and *)
(* it fails at nothing but a whole directory with fields or values that    *)
(* publish() let through without a look (github_sync.py:109-121, 142-147): *)
(* never at a directory that is missing a file or mixes two publications.  *)
(***************************************************************************)
LoaderConsistent ==
  /\ lpc = "failed" =>
       LET d == dest[manifest.sync]
       IN  /\ d # Absent /\ d.manifest # Absent
           /\ d.snapshot = d.manifest.sourceRevision
           /\ d.manifest.fields \notin ValidFields \/ d.snapshot \notin ValidSnapshot
  /\ \A l \in loaded : dest[l.sync] = [snapshot |-> l.snapshot, manifest |-> ManifestOf(l)]

(***************************************************************************)
(* When publish() has returned, whether it published or found the snapshot *)
(* there, the snapshot it was given is the published one.                  *)
(***************************************************************************)
SuccessMeansPublished ==
  \A j \in Job :
    pc[j] = "idle" /\ result[j] \in {"published", "reused"} =>
      /\ dest[call[j].sync] # Absent
      /\ dest[call[j].sync].snapshot = call[j].snapshot
=============================================================================
