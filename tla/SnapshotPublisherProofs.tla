----------------------- MODULE SnapshotPublisherProofs -----------------------
(***************************************************************************)
(* What SnapshotPublisher promises to whoever reads its directories, for   *)
(* any jobs, sync ids, payloads and approvals.                             *)
(*                                                                         *)
(* Everything hangs on two facts: a job that is about to rename has a      *)
(* whole directory (JobsPrepared), and a whole directory is never renamed  *)
(* over (DirectoriesStay).  The loader can then read in two steps, and     *)
(* fails only at fields and values that publish() does not look at.        *)
(***************************************************************************)
EXTENDS SnapshotPublisher, TLAPS

\* How far the running call of a job has got, in terms of its arguments.
JobPrepared(j) ==
  /\ pc[j] # "idle" => call[j] \in Call
  /\ pc[j] \in {"snapshot.json", "manifest.json", "replace"} => temp[j] \in Directory
  /\ pc[j] \in {"manifest.json", "replace"} => temp[j].snapshot = call[j].snapshot
  /\ pc[j] = "replace" => temp[j].manifest = ManifestOf(call[j])
  /\ pc[j] = "fsync" => /\ dest[call[j].sync] # Absent
                        /\ dest[call[j].sync].snapshot = call[j].snapshot
  /\ result[j] \in {"published", "reused"} => call[j] \in Call

JobsPrepared == \A j \in Job : JobPrepared(j)

\* What the loader has found is still there.
LoaderInformed ==
  /\ \A s \in scan : dest[s] # Absent
  /\ lpc = "snapshot" => /\ manifest.sync \in scan
                         /\ manifest.file \in Manifest
                         /\ dest[manifest.sync].manifest = manifest.file
                         /\ manifest.file.fields \in ValidFields
  /\ lpc \in {"snapshot", "failed"} =>
       manifest \in [sync : SyncId, file : Manifest \cup {Absent}]

Inductive ==
  /\ TypeOK /\ OnlyWholeVisible /\ LoaderConsistent /\ SuccessMeansPublished
  /\ JobsPrepared /\ LoaderInformed

\* The body of WriteOnce.
DirectoriesStay == \A s \in SyncId : dest[s] # Absent => dest'[s] = dest[s]

LEMMA PublisherStart == Init => Inductive
BY DEF Init, Inductive, TypeOK, OnlyWholeVisible, LoaderConsistent, SuccessMeansPublished,
       JobsPrepared, JobPrepared, LoaderInformed, Results

LEMMA Typed ==
  ASSUME Inductive
  PROVE  /\ EmptyDir \in Directory /\ EmptyDir # Absent
         /\ \A c \in Call : ManifestOf(c) \in Manifest /\ ManifestOf(c) # Absent
         /\ \A s \in SyncId : dest[s] # EmptyDir
<1>1. EmptyDir \in Directory /\ EmptyDir # Absent
  BY AbsentAssumption DEF EmptyDir, Directory
<1>2. \A c \in Call : ManifestOf(c) \in Manifest /\ ManifestOf(c) # Absent
  BY AbsentAssumption DEF ManifestOf, Call, Manifest
<1>3. \A s \in SyncId : dest[s] # EmptyDir
  BY <1>1 DEF Inductive, OnlyWholeVisible, EmptyDir
<1> QED
  BY <1>1, <1>2, <1>3

\* The only step that changes a directory: a rename to where there was none.
LEMMA RenameStays ==
  ASSUME Inductive, NEW j \in Job, Replace(j)
  PROVE  \/ UNCHANGED <<dest, call, temp, loaderVars>> /\ Return(j, "os_error")
         \/ /\ dest[call[j].sync] = Absent
            /\ dest' = [dest EXCEPT ![call[j].sync] = temp[j]]
            /\ temp' = [temp EXCEPT ![j] = Absent]
            /\ pc' = [pc EXCEPT ![j] = "fsync"]
            /\ UNCHANGED <<call, result, loaderVars>>
            /\ call[j] \in Call /\ temp[j] \in Directory /\ temp[j] # Absent
            /\ temp[j].snapshot = call[j].snapshot
            /\ temp[j].manifest = ManifestOf(call[j])
<1>1. call[j] \in Call /\ call[j].sync \in SyncId
  BY DEF Inductive, JobsPrepared, JobPrepared, Replace, Call
<1>2. dest[call[j].sync] # EmptyDir
  BY <1>1, Typed
<1>3. temp[j] \in Directory /\ temp[j].snapshot = call[j].snapshot /\ temp[j].manifest = ManifestOf(call[j])
  BY DEF Inductive, JobsPrepared, JobPrepared, Replace
<1>4. temp[j] # Absent
  BY <1>3, AbsentAssumption
<1> QED
  BY <1>1, <1>2, <1>3, <1>4 DEF Replace

LEMMA StepStays == Inductive /\ [Next]_vars => DirectoriesStay
<1> SUFFICES ASSUME Inductive, [Next]_vars PROVE DirectoriesStay
  OBVIOUS
<1>1. ASSUME NEW j \in Job, Replace(j) PROVE DirectoriesStay
  BY <1>1, RenameStays DEF Inductive, TypeOK, DirectoriesStay, loaderVars
<1>2. CASE UNCHANGED dest
  BY <1>2 DEF DirectoriesStay
<1> QED
  BY <1>1, <1>2 DEF Next, Step, Load, vars, Publish, FoundExisting, MakeTemp, WriteSnapshot, WriteManifest,
     FsyncParent, Fail, LoadBegin, LoadManifest, LoadSnapshot, LoadEnd

-----------------------------------------------------------------------------
\* What one job has been told, the conjunct of SuccessMeansPublished.
Told(j) ==
  pc[j] = "idle" /\ result[j] \in {"published", "reused"} =>
    /\ dest[call[j].sync] # Absent
    /\ dest[call[j].sync].snapshot = call[j].snapshot

\* A job that does not move keeps its facts while directories stay.
LEMMA OthersKeep ==
  ASSUME Inductive, DirectoriesStay, NEW i \in Job,
         pc'[i] = pc[i], call'[i] = call[i], temp'[i] = temp[i], result'[i] = result[i]
  PROVE  JobPrepared(i)' /\ Told(i)'
<1>1. JobPrepared(i) /\ Told(i)
  BY DEF Inductive, JobsPrepared, SuccessMeansPublished, Told
<1>2. ASSUME call[i] \in Call PROVE dest[call[i].sync] # Absent => dest'[call[i].sync] = dest[call[i].sync]
  BY <1>2 DEF DirectoriesStay, Call
<1> QED
  BY <1>1, <1>2 DEF JobPrepared, Told, ManifestOf

\* So does a loader that does not move.
LEMMA LoaderKeeps ==
  ASSUME Inductive, DirectoriesStay, UNCHANGED loaderVars
  PROVE  LoaderInformed' /\ LoaderConsistent'
<1>1. LoaderInformed'
  BY DEF Inductive, TypeOK, LoaderInformed, DirectoriesStay, loaderVars
<1>2. LoaderConsistent'
  <2>0. ASSUME lpc = "failed" PROVE dest'[manifest.sync] = dest[manifest.sync]
    BY <2>0 DEF Inductive, LoaderInformed, LoaderConsistent, DirectoriesStay
  <2> SUFFICES ASSUME NEW l \in loaded
               PROVE  dest'[l.sync] = dest[l.sync]
    BY <2>0 DEF Inductive, LoaderConsistent, ManifestOf, loaderVars
  <2>1. l.sync \in SyncId
    BY DEF Inductive, TypeOK, Call
  <2>2. dest[l.sync] = [snapshot |-> l.snapshot, manifest |-> ManifestOf(l)]
    BY DEF Inductive, LoaderConsistent
  <2>3. dest[l.sync] \in Directory
    <3>1. l \in Call /\ l.snapshot \in Snapshot
      BY DEF Inductive, TypeOK, Call
    <3> QED
      BY <2>2, <3>1, Typed DEF Directory
  <2> QED
    BY <2>1, <2>3, AbsentAssumption DEF DirectoriesStay
<1> QED
  BY <1>1, <1>2

\* A step of one job that leaves the directories alone.
LEMMA QuietJobStep ==
  ASSUME Inductive, NEW j \in Job, UNCHANGED <<dest, loaderVars>>, TypeOK',
         \A i \in Job \ {j} : /\ pc'[i] = pc[i] /\ call'[i] = call[i]
                              /\ temp'[i] = temp[i] /\ result'[i] = result[i],
         JobPrepared(j)', Told(j)'
  PROVE  Inductive'
<1>1. DirectoriesStay
  BY DEF DirectoriesStay
<1>2. \A i \in Job : JobPrepared(i)' /\ Told(i)'
  BY <1>1, OthersKeep
<1>3. JobsPrepared' /\ SuccessMeansPublished'
  BY <1>2 DEF JobsPrepared, SuccessMeansPublished, Told
<1>4. OnlyWholeVisible'
  BY DEF Inductive, OnlyWholeVisible
<1> QED
  BY <1>1, <1>3, <1>4, LoaderKeeps DEF Inductive

LEMMA JobStep ==
  ASSUME Inductive, NEW j \in Job,
         (\E c \in Call : Publish(j, c)) \/ Step(j) \/ Fail(j)
  PROVE  Inductive'
<1> USE DEF Inductive
<1>0. /\ pc[j] # "idle" => call[j] \in Call
      /\ JobPrepared(j)
  BY DEF JobsPrepared, JobPrepared
<1>1. ASSUME NEW c \in Call, Publish(j, c) PROVE Inductive'
  <2>1. TypeOK'
    BY <1>1 DEF Publish, TypeOK, loaderVars
  <2>2. JobPrepared(j)' /\ Told(j)'
    BY <1>1, <1>0 DEF Publish, TypeOK, JobPrepared, Told
  <2> QED
    BY <1>1, <2>1, <2>2, QuietJobStep DEF Publish, TypeOK
<1>2. CASE FoundExisting(j)
  <2>1. TypeOK'
    BY <1>2 DEF FoundExisting, Return, TypeOK, Results, loaderVars
  <2>2. JobPrepared(j)' /\ Told(j)'
    <3>1. call[j] \in Call /\ call[j].sync \in SyncId /\ dest[call[j].sync] # Absent
      BY <1>0, <1>2 DEF FoundExisting, Call
    <3>2. dest[call[j].sync].snapshot = dest[call[j].sync].manifest.sourceRevision
      BY <3>1 DEF OnlyWholeVisible
    <3> QED
      BY <1>2, <3>1, <3>2 DEF FoundExisting, Return, TypeOK, JobPrepared, Told
  <2> QED
    BY <1>2, <2>1, <2>2, QuietJobStep DEF FoundExisting, Return, TypeOK
<1>3. CASE MakeTemp(j)
  <2>1. TypeOK'
    BY <1>3, Typed DEF MakeTemp, TypeOK, loaderVars
  <2>2. JobPrepared(j)' /\ Told(j)'
    BY <1>0, <1>3, Typed DEF MakeTemp, TypeOK, JobPrepared, Told
  <2> QED
    BY <1>3, <2>1, <2>2, QuietJobStep DEF MakeTemp, TypeOK
<1>4. CASE WriteSnapshot(j)
  <2>0. temp[j] \in Directory /\ call[j] \in Call
    BY <1>0, <1>4 DEF WriteSnapshot, JobPrepared
  <2>1. [temp[j] EXCEPT !.snapshot = call[j].snapshot] \in Directory
    BY <2>0 DEF Directory, Call
  <2>2. TypeOK'
    BY <1>4, <2>1 DEF WriteSnapshot, TypeOK, loaderVars
  <2>3. temp'[j] = [temp[j] EXCEPT !.snapshot = call[j].snapshot]
    BY <1>4 DEF WriteSnapshot, TypeOK
  <2>4. temp'[j].snapshot = call[j].snapshot
    BY <2>0, <2>3 DEF Directory
  <2>5. JobPrepared(j)' /\ Told(j)'
    BY <1>0, <1>4, <2>1, <2>3, <2>4 DEF WriteSnapshot, TypeOK, JobPrepared, Told
  <2> QED
    BY <1>4, <2>2, <2>5, QuietJobStep DEF WriteSnapshot, TypeOK
<1>5. CASE WriteManifest(j)
  <2>0. temp[j] \in Directory /\ call[j] \in Call /\ temp[j].snapshot = call[j].snapshot
    BY <1>0, <1>5 DEF WriteManifest, JobPrepared
  <2>1. [temp[j] EXCEPT !.manifest = ManifestOf(call[j])] \in Directory
    BY <2>0, Typed DEF Directory
  <2>2. temp' = [temp EXCEPT ![j] = [temp[j] EXCEPT !.manifest = ManifestOf(call[j])]]
    BY <1>5 DEF WriteManifest, ManifestOf
  <2>3. TypeOK'
    BY <1>5, <2>1, <2>2 DEF WriteManifest, TypeOK, loaderVars
  <2>4. temp'[j] = [temp[j] EXCEPT !.manifest = ManifestOf(call[j])]
    BY <2>2 DEF TypeOK
  <2>5. temp'[j].snapshot = call[j].snapshot /\ temp'[j].manifest = ManifestOf(call[j])
    BY <2>0, <2>4 DEF Directory
  <2>6. JobPrepared(j)' /\ Told(j)'
    BY <1>0, <1>5, <2>1, <2>4, <2>5 DEF WriteManifest, TypeOK, JobPrepared, Told, ManifestOf
  <2> QED
    BY <1>5, <2>2, <2>3, <2>6, QuietJobStep DEF WriteManifest, TypeOK
<1>6. CASE Replace(j) /\ UNCHANGED <<dest, call, temp, loaderVars>> /\ Return(j, "os_error")
  <2>1. TypeOK'
    BY <1>6 DEF Return, TypeOK, Results, loaderVars
  <2>2. JobPrepared(j)' /\ Told(j)'
    BY <1>0, <1>6 DEF Return, TypeOK, JobPrepared, Told
  <2> QED
    BY <1>6, <2>1, <2>2, QuietJobStep DEF Return, TypeOK
<1>7. CASE Replace(j) /\ ~ (UNCHANGED <<dest, call, temp, loaderVars>> /\ Return(j, "os_error"))
  <2> DEFINE s == call[j].sync
  <2>1. /\ s \in SyncId /\ dest' = [dest EXCEPT ![s] = temp[j]]
        /\ temp' = [temp EXCEPT ![j] = Absent] /\ pc' = [pc EXCEPT ![j] = "fsync"]
        /\ UNCHANGED <<call, result, loaderVars>>
        /\ call[j] \in Call /\ temp[j] \in Directory /\ temp[j] # Absent
        /\ temp[j].snapshot = call[j].snapshot
        /\ temp[j].manifest = ManifestOf(call[j])
    BY <1>7, RenameStays DEF Call
  <2>2. DirectoriesStay
    BY <1>7, StepStays DEF Next, Step
  <2>3. TypeOK'
    BY <2>1 DEF TypeOK, loaderVars
  <2>4. dest'[s] = temp[j] /\ \A t \in SyncId \ {s} : dest'[t] = dest[t]
    BY <2>1 DEF TypeOK
  <2>5. OnlyWholeVisible'
    <3>1. dest'[s].manifest # Absent /\ dest'[s].snapshot = dest'[s].manifest.sourceRevision
      BY <2>1, <2>4, Typed DEF ManifestOf
    <3> QED
      BY <2>4, <3>1 DEF OnlyWholeVisible
  <2>6. JobPrepared(j)' /\ Told(j)'
    BY <1>0, <2>1, <2>4 DEF TypeOK, JobPrepared, Told
  <2>7. \A i \in Job \ {j} : JobPrepared(i)' /\ Told(i)'
    BY <2>1, <2>2, OthersKeep DEF TypeOK
  <2>8. JobsPrepared' /\ SuccessMeansPublished'
    BY <2>6, <2>7 DEF JobsPrepared, SuccessMeansPublished, Told
  <2> QED
    BY <2>1, <2>2, <2>3, <2>5, <2>8, LoaderKeeps
<1>8. CASE FsyncParent(j)
  <2>1. TypeOK'
    BY <1>8 DEF FsyncParent, Return, TypeOK, Results, loaderVars
  <2>2. JobPrepared(j)' /\ Told(j)'
    BY <1>0, <1>8 DEF FsyncParent, Return, TypeOK, JobPrepared, Told
  <2> QED
    BY <1>8, <2>1, <2>2, QuietJobStep DEF FsyncParent, Return, TypeOK
<1>9. CASE Fail(j)
  <2>1. TypeOK'
    BY <1>9 DEF Fail, Return, TypeOK, Results, loaderVars
  <2>2. JobPrepared(j)' /\ Told(j)'
    BY <1>0, <1>9 DEF Fail, Return, TypeOK, JobPrepared, Told
  <2> QED
    BY <1>9, <2>1, <2>2, QuietJobStep DEF Fail, Return, TypeOK
<1> QED
  BY <1>1, <1>2, <1>3, <1>4, <1>5, <1>6, <1>7, <1>8, <1>9 DEF Step

LEMMA LoaderStep == Inductive /\ Load => Inductive'
<1> SUFFICES ASSUME Inductive, Load PROVE Inductive'
  OBVIOUS
<1> USE DEF Inductive
<1>1. UNCHANGED <<dest, jobVars>>
  BY DEF Load, LoadBegin, LoadManifest, LoadSnapshot, LoadEnd
<1>2. OnlyWholeVisible' /\ SuccessMeansPublished' /\ JobsPrepared'
  BY <1>1 DEF jobVars, OnlyWholeVisible, SuccessMeansPublished, JobsPrepared, JobPrepared, ManifestOf
<1>3. CASE LoadBegin
  BY <1>1, <1>2, <1>3 DEF LoadBegin, TypeOK, jobVars, LoaderInformed, LoaderConsistent
<1>4. ASSUME NEW s \in SyncId, LoadManifest(s) PROVE Inductive'
  <2> DEFINE file == dest[s].manifest
  <2>1. /\ dest[s] # Absent /\ dest[s] \in Directory /\ file \in Manifest /\ file # Absent
        /\ dest[s].snapshot = file.sourceRevision
    BY <1>4 DEF LoadManifest, TypeOK, LoaderInformed, OnlyWholeVisible, Directory
  <2>2. /\ manifest' = [sync |-> s, file |-> file] /\ s \in scan
        /\ lpc' = IF file.fields \in ValidFields THEN "snapshot" ELSE "failed"
    BY <1>4, <2>1 DEF LoadManifest
  <2>3. TypeOK'
    BY <1>1, <1>4, <2>1, <2>2 DEF LoadManifest, TypeOK, jobVars
  <2>4. LoaderInformed' /\ LoaderConsistent'
    BY <1>1, <1>4, <2>1, <2>2 DEF LoadManifest, LoaderInformed, LoaderConsistent
  <2> QED
    BY <1>2, <2>3, <2>4
<1>5. CASE LoadSnapshot
  <2> DEFINE s == manifest.sync
             f == manifest.file
             item == [sync |-> s, snapshot |-> f.sourceRevision, approval |-> f.approvalStatus,
                      fields |-> f.fields]
  <2>1. /\ s \in scan /\ s \in SyncId /\ f \in Manifest /\ dest[s] # Absent
        /\ dest[s].manifest = f /\ manifest \in [sync : SyncId, file : Manifest \cup {Absent}]
    BY <1>5, AbsentAssumption DEF LoadSnapshot, TypeOK, LoaderInformed
  <2>2. /\ dest[s] \in Directory /\ dest[s].snapshot = f.sourceRevision
        /\ f.sourceRevision \in Snapshot /\ f.approvalStatus \in Approval /\ f.fields \in Fields
        /\ f # Absent
    BY <2>1, AbsentAssumption DEF TypeOK, OnlyWholeVisible, Manifest
  <2>3. CASE f.sourceRevision \in ValidSnapshot
    <3>1. /\ loaded' = loaded \cup {item} /\ scan' = scan \ {s}
          /\ lpc' = "manifest" /\ manifest' = Absent
      BY <1>5, <2>2, <2>3 DEF LoadSnapshot
    <3>2. item \in Call
      BY <2>1, <2>2 DEF Call
    <3>3. dest[s] = [snapshot |-> item.snapshot, manifest |-> ManifestOf(item)]
      BY <2>1, <2>2 DEF Directory, Manifest, ManifestOf
    <3>4. TypeOK'
      BY <1>1, <3>1, <3>2 DEF TypeOK, jobVars
    <3>5. LoaderInformed'
      BY <1>1, <3>1 DEF LoaderInformed
    <3>6. LoaderConsistent'
      BY <1>1, <3>1, <3>3 DEF LoaderConsistent, ManifestOf
    <3> QED
      BY <1>2, <3>4, <3>5, <3>6
  <2>4. CASE f.sourceRevision \notin ValidSnapshot
    <3>1. lpc' = "failed" /\ UNCHANGED <<loaded, scan, manifest>>
      BY <1>5, <2>2, <2>4 DEF LoadSnapshot
    <3>2. TypeOK'
      BY <1>1, <3>1 DEF TypeOK, jobVars
    <3>3. LoaderInformed'
      BY <1>1, <2>1, <3>1 DEF LoaderInformed
    <3>4. LoaderConsistent'
      BY <1>1, <2>1, <2>2, <2>4, <3>1 DEF LoaderConsistent, ManifestOf
    <3> QED
      BY <1>2, <3>2, <3>3, <3>4
  <2> QED
    BY <2>3, <2>4
<1>6. CASE LoadEnd
  BY <1>1, <1>2, <1>6 DEF LoadEnd, TypeOK, jobVars, LoaderInformed, LoaderConsistent
<1> QED
  BY <1>3, <1>4, <1>5, <1>6 DEF Load

LEMMA PublisherStep == Inductive /\ [Next]_vars => Inductive'
<1> SUFFICES ASSUME Inductive, [Next]_vars PROVE Inductive'
  OBVIOUS
<1>1. CASE UNCHANGED vars
  BY <1>1 DEF Inductive, TypeOK, OnlyWholeVisible, LoaderConsistent, SuccessMeansPublished, JobsPrepared,
     JobPrepared, ManifestOf, LoaderInformed, vars, jobVars, loaderVars
<1> QED
  BY <1>1, JobStep, LoaderStep DEF Next

LEMMA AlwaysInductive == Spec => []Inductive
BY PublisherStart, PublisherStep, PTL DEF Spec

-----------------------------------------------------------------------------
(***************************************************************************)
(* The variables of the jobs and of the loader have their types.           *)
(***************************************************************************)
THEOREM PublisherTypeCorrect == Spec => []TypeOK
BY AlwaysInductive, PTL DEF Inductive

(***************************************************************************)
(* Whatever any number of jobs do, and wherever they fail, a directory the *)
(* loader can see holds a manifest and the snapshot whose digest it names. *)
(***************************************************************************)
THEOREM PublishedWhole == Spec => []OnlyWholeVisible
BY AlwaysInductive, PTL DEF Inductive

(***************************************************************************)
(* A published snapshot is never changed and never removed: publish()      *)
(* renames only to where nothing is, because a directory it could find     *)
(* empty is never published.                                               *)
(***************************************************************************)
THEOREM PublishedOnce == Spec => WriteOnce
<1>1. Inductive /\ [Next]_vars => [\A s \in SyncId : dest[s] # Absent => dest'[s] = dest[s]]_dest
  BY StepStays DEF DirectoriesStay
<1> QED
  BY <1>1, AlwaysInductive, PTL DEF Spec, WriteOnce

(***************************************************************************)
(* The loader, which reads the manifest and the snapshot in two steps,     *)
(* never meets a directory that is half written or mixed: where it fails,  *)
(* the directory is whole and holds what publish() did not check, and what *)
(* it has loaded is what is published.                                     *)
(***************************************************************************)
THEOREM LoaderFailsOnlyAtUnchecked == Spec => []LoaderConsistent
BY AlwaysInductive, PTL DEF Inductive

(***************************************************************************)
(* A job that was told "published" or "reused" finds its payload there.    *)
(***************************************************************************)
THEOREM SuccessIsTrue == Spec => []SuccessMeansPublished
BY AlwaysInductive, PTL DEF Inductive
=============================================================================
