----------------------------- MODULE FilesProofs -----------------------------
(***************************************************************************)
(* Two parts that live on files.  First the safety of an order's files,    *)
(* for every set of files, documents, orders, clerks and syncing           *)
(* processes, and any number of failures.  Then imports of spreadsheets:   *)
(* that nothing is created twice and an undo takes only its own, for every *)
(* set of workbooks and any number of requests.                            *)
(***************************************************************************)
EXTENDS OrderFiles, Imports, WellFoundedInduction, TLAPS

Kept == {"live", "removed"}   \* the rows that are in the table

(* A row is there only when its upload is over, its bytes before the row.    *)
UploadsAgree ==
    \A f \in Files :
        /\ row[f] # "none" => up[f].at = "over"
        /\ row[f] \notin Kept => f \notin working
        /\ up[f].at = "stored" => f \in stored

(* Only removed rows grow ripe, and only ripe ones are deleted.              *)
RipeAgree ==
    \A f \in Files :
        /\ f \in ripe => row[f] \in {"removed", "gone"}
        /\ row[f] = "gone" => f \in ripe

(* What a clerk read is still in the table, inside its retention period.     *)
ClerksAgree == \A c \in Clerks : \A f \in clerk[c].files : row[f] \in Kept /\ f \notin ripe

(* A row that is in the table knows of its working copy.                     *)
CopiesKnown == \A f \in copies : row[f] \in Kept => f \in working

(* What the purge's transaction has listed and done so far.                  *)
PurgeAgrees ==
    /\ purge.at = "idle" => purge = NoPurge
    /\ purge.at = "removing" =>
          purge.dropped = {} /\ \A f \in purge.todo : row[f] = "removed" /\ f \in ripe
    /\ purge.at = "dropping" => \A f \in purge.todo : row[f] \in Kept
    /\ \A f \in purge.gone :
          row[f] = "removed" /\ f \in ripe /\ f \notin stored /\ f \notin copies
    /\ \A f \in purge.dropped : row[f] \in Kept /\ f \notin copies
    /\ \A f \in purge.orphans : row[f] \in Kept

(* What a sync has listed and copied is live, in the order it has locked;    *)
(* no two syncs have the same order.                                         *)
SyncsAgree ==
    /\ \A s \in Syncers : \A f \in sync[s].batch \cup sync[s].done :
          /\ row[f] = "live" /\ on[f] \in Documents
          /\ OrderOf[on[f]] = sync[s].order
    /\ \A s \in Syncers : \A f \in sync[s].batch : f \notin sync[s].done /\ f \notin inDrive
    /\ \A s, t \in Syncers : s # t /\ sync[s].order # None => sync[s].order # sync[t].order

FileFacts ==
    UploadsAgree /\ RipeAgree /\ ClerksAgree /\ CopiesKnown /\ PurgeAgrees
    /\ Recoverable /\ PurgeLeavesNothing

SyncFacts == SyncsAgree /\ CopiedOnce

IInv == TypeOK /\ FileFacts /\ SyncFacts

SyncRecord == [order : Orders \cup {None}, batch : SUBSET Files, done : SUBSET Files]
-----------------------------------------------------------------------------

(* The files of which some row keeps the copy made in Drive.                 *)
Recorded(f) == f \in inDrive \/ \E s \in Syncers : f \in sync[s].done

LEMMA CopiedOnceUnfolded ==
    CopiedOnce <=>
        \A f \in Files : driveCopies[f] <= unrecorded[f] + (IF Recorded(f) THEN 1 ELSE 0)
  BY DEF CopiedOnce, Recorded

LEMMA CopiedOnceUnfoldedNext ==
    CopiedOnce' <=>
        \A f \in Files : driveCopies'[f] <= unrecorded'[f] + (IF Recorded(f)' THEN 1 ELSE 0)
  BY DEF CopiedOnce, Recorded

LEMMA LockedUnfolded ==
    \A f : f \in Locked <=> \E s \in Syncers : f \in sync[s].batch \/ f \in sync[s].done
  BY DEF Locked

LEMMA LockedAreFiles == TypeOK => Locked \subseteq Files
  BY LockedUnfolded DEF TypeOK

LEMMA TroubleCounts == TypeOK /\ Trouble => left' \in 0..MaxTroubles
  BY FilesAssumptions DEF TypeOK, Trouble

LEMMA InitEstablishes == Init => IInv
  <1> SUFFICES ASSUME Init PROVE IInv
    OBVIOUS
  <1> USE FilesAssumptions
  <1>1. TypeOK
    BY DEF Init, TypeOK, Free, NoPurge, NoSync
  <1>2. FileFacts
    BY DEF Init, Free, NoPurge, FileFacts, UploadsAgree, RipeAgree, ClerksAgree, CopiesKnown,
       PurgeAgrees, Recoverable, PurgeLeavesNothing, Kept
  <1>3. SyncsAgree
    BY DEF Init, SyncsAgree, NoSync
  <1>4. CopiedOnce
    BY CopiedOnceUnfolded DEF Init, NoSync, Recorded
  <1> QED
    BY <1>1, <1>2, <1>3, <1>4 DEF IInv, SyncFacts

-----------------------------------------------------------------------------
(* What a step that does not touch them keeps. *)

LEMMA FileFactsKept ==
    ASSUME FileFacts, UNCHANGED <<row, working, ripe, storageVars, up, clerk, purge>>
    PROVE  FileFacts'
  BY DEF FileFacts, storageVars, UploadsAgree, RipeAgree, ClerksAgree, CopiesKnown, PurgeAgrees,
     Recoverable, PurgeLeavesNothing, Kept

(* No step writes a row that a sync has locked. *)
LEMMA SyncFactsKept ==
    ASSUME SyncFacts, UNCHANGED driveVars,
           \A f \in Locked : row'[f] = row[f] /\ on'[f] = on[f]
    PROVE  SyncFacts'
  <1>1. SyncsAgree'
    BY LockedUnfolded DEF SyncFacts, SyncsAgree, driveVars
  <1>2. CopiedOnce'
    BY DEF SyncFacts, CopiedOnce, driveVars
  <1> QED
    BY <1>1, <1>2 DEF SyncFacts

-----------------------------------------------------------------------------
(* Uploading. *)

LEMMA BeginUploadPreserves ==
    ASSUME IInv, NEW f \in Files, NEW d \in Documents, BeginUpload(f, d)
    PROVE  IInv'
  <1>1. TypeOK'
    BY FilesAssumptions DEF IInv, TypeOK, BeginUpload, officeVars, rowVars, storageVars, driveVars
  <1>2. FileFacts'
    BY FilesAssumptions DEF IInv, TypeOK, FileFacts, UploadsAgree, RipeAgree, ClerksAgree,
       CopiesKnown, PurgeAgrees, Recoverable, PurgeLeavesNothing, Kept, BeginUpload, officeVars,
       rowVars, storageVars, driveVars
  <1>3. SyncFacts'
    BY SyncFactsKept DEF IInv, BeginUpload, officeVars, rowVars, storageVars, driveVars
  <1> QED
    BY <1>1, <1>2, <1>3 DEF IInv

LEMMA PutWorkingPreserves ==
    ASSUME IInv, NEW f \in Files, PutWorking(f)
    PROVE  IInv'
  <1>1. TypeOK'
    BY FilesAssumptions DEF IInv, TypeOK, PutWorking, officeVars, rowVars, storageVars,
       driveVars, UploadGoes, Trouble
  <1>2. FileFacts'
    BY FilesAssumptions DEF IInv, TypeOK, FileFacts, UploadsAgree, RipeAgree, ClerksAgree,
       CopiesKnown, PurgeAgrees, Recoverable, PurgeLeavesNothing, Kept, PutWorking, officeVars,
       rowVars, storageVars, driveVars, UploadGoes, Trouble
  <1>3. SyncFacts'
    BY SyncFactsKept DEF IInv, PutWorking, officeVars, rowVars, storageVars, driveVars,
       UploadGoes, Trouble
  <1> QED
    BY <1>1, <1>2, <1>3 DEF IInv

LEMMA PutWorkingFailsPreserves ==
    ASSUME IInv, NEW f \in Files, PutWorkingFails(f)
    PROVE  IInv'
  <1>1. TypeOK'
    BY FilesAssumptions DEF IInv, TypeOK, PutWorkingFails, officeVars, rowVars, storageVars,
       driveVars, UploadGoes, Trouble
  <1>2. FileFacts'
    BY FilesAssumptions DEF IInv, TypeOK, FileFacts, UploadsAgree, RipeAgree, ClerksAgree,
       CopiesKnown, PurgeAgrees, Recoverable, PurgeLeavesNothing, Kept, PutWorkingFails,
       officeVars, rowVars, storageVars, driveVars, UploadGoes, Trouble
  <1>3. SyncFacts'
    BY SyncFactsKept DEF IInv, PutWorkingFails, officeVars, rowVars, storageVars, driveVars,
       UploadGoes, Trouble
  <1> QED
    BY <1>1, <1>2, <1>3 DEF IInv

LEMMA StoreFilePreserves ==
    ASSUME IInv, NEW f \in Files, StoreFile(f)
    PROVE  IInv'
  <1>1. TypeOK'
    BY FilesAssumptions DEF IInv, TypeOK, StoreFile, officeVars, rowVars, storageVars,
       driveVars, UploadGoes, Trouble, ReadyToStore
  <1>2. FileFacts'
    BY FilesAssumptions DEF IInv, TypeOK, FileFacts, UploadsAgree, RipeAgree, ClerksAgree,
       CopiesKnown, PurgeAgrees, Recoverable, PurgeLeavesNothing, Kept, StoreFile, officeVars,
       rowVars, storageVars, driveVars, UploadGoes, Trouble, ReadyToStore
  <1>3. SyncFacts'
    BY SyncFactsKept DEF IInv, StoreFile, officeVars, rowVars, storageVars, driveVars,
       UploadGoes, Trouble, ReadyToStore
  <1> QED
    BY <1>1, <1>2, <1>3 DEF IInv

LEMMA StoreFailsPreserves ==
    ASSUME IInv, NEW f \in Files, StoreFails(f)
    PROVE  IInv'
  <1>1. TypeOK'
    BY FilesAssumptions DEF IInv, TypeOK, StoreFails, officeVars, rowVars, storageVars,
       driveVars, UploadGoes, Trouble, ReadyToStore
  <1>2. FileFacts'
    BY FilesAssumptions DEF IInv, TypeOK, FileFacts, UploadsAgree, RipeAgree, ClerksAgree,
       CopiesKnown, PurgeAgrees, Recoverable, PurgeLeavesNothing, Kept, StoreFails, officeVars,
       rowVars, storageVars, driveVars, UploadGoes, Trouble, ReadyToStore
  <1>3. SyncFacts'
    BY SyncFactsKept DEF IInv, StoreFails, officeVars, rowVars, storageVars, driveVars,
       UploadGoes, Trouble, ReadyToStore
  <1> QED
    BY <1>1, <1>2, <1>3 DEF IInv

LEMMA RecordFilePreserves ==
    ASSUME IInv, NEW f \in Files, RecordFile(f)
    PROVE  IInv'
  <1>1. TypeOK'
    <2>1. CASE up[f].to \in documents
      <3>1. /\ row' \in [Files -> {"none", "live", "removed", "gone"}]
            /\ on' \in [Files -> Documents \cup {None}]
        BY <2>1 DEF IInv, TypeOK, RecordFile
      <3>2. working' \subseteq InVault
        BY <2>1 DEF IInv, TypeOK, RecordFile, WorkingKey
      <3> QED
        BY <2>1, <3>1, <3>2 DEF IInv, TypeOK, RecordFile, UploadGoes, officeVars, storageVars,
           driveVars
    <2>2. CASE up[f].to \notin documents
      BY <2>2 DEF IInv, TypeOK, RecordFile, UploadGoes, officeVars, rowVars, storageVars,
         driveVars
    <2> QED
      BY <2>1, <2>2
  <1>2. FileFacts'
    <2>1. CASE up[f].to \in documents
      <3>1. row[f] = "none" /\ f \in stored /\ up' = [up EXCEPT ![f].at = "over"]
        BY DEF IInv, TypeOK, FileFacts, UploadsAgree, RecordFile, UploadGoes
      <3>2. \A g \in Files : row'[g] = IF g = f THEN "live" ELSE row[g]
        BY <2>1 DEF IInv, TypeOK, RecordFile
      <3>3. UploadsAgree' /\ CopiesKnown'
        <4>1. \A g \in Files : up'[g].at = IF g = f THEN "over" ELSE up[g].at
          BY <3>1 DEF IInv, TypeOK
        <4>2. /\ working' = working \cup ({f} \cap InVault) /\ UNCHANGED <<stored, copies>>
              /\ copies \subseteq InVault /\ copies \subseteq Files
          BY <2>1, FilesAssumptions DEF IInv, TypeOK, RecordFile, WorkingKey, storageVars
        <4> QED
          BY <3>1, <3>2, <4>1, <4>2 DEF IInv, FileFacts, UploadsAgree, CopiesKnown, Kept
      <3>4. RipeAgree' /\ ClerksAgree' /\ Recoverable' /\ PurgeLeavesNothing'
        BY <2>1, <3>1, <3>2 DEF IInv, TypeOK, FileFacts, RipeAgree, ClerksAgree, Recoverable,
           PurgeLeavesNothing,
           RecordFile, UploadGoes, storageVars, Kept
      <3>5. PurgeAgrees'
        BY <2>1, <3>1, <3>2 DEF IInv, TypeOK, FileFacts, PurgeAgrees, RecordFile, UploadGoes,
           storageVars, Kept
      <3> QED
        BY <3>3, <3>4, <3>5 DEF FileFacts
    <2>2. CASE up[f].to \notin documents
      BY <2>2 DEF IInv, TypeOK, FileFacts, UploadsAgree, RipeAgree, ClerksAgree, CopiesKnown,
         PurgeAgrees, Recoverable, PurgeLeavesNothing, Kept, RecordFile, UploadGoes, rowVars,
         storageVars
    <2> QED
      BY <2>1, <2>2
  <1>3. SyncFacts'
    BY SyncFactsKept, LockedUnfolded DEF IInv, TypeOK, FileFacts, UploadsAgree, SyncFacts,
       SyncsAgree, RecordFile, officeVars, rowVars, storageVars, driveVars, UploadGoes, Trouble,
       WorkingKey
  <1> QED
    BY <1>1, <1>2, <1>3 DEF IInv

LEMMA UploadDiesPreserves ==
    ASSUME IInv, NEW f \in Files, UploadDies(f)
    PROVE  IInv'
  <1>1. TypeOK'
    BY FilesAssumptions DEF IInv, TypeOK, UploadDies, officeVars, rowVars, storageVars,
       driveVars, UploadGoes, Trouble
  <1>2. FileFacts'
    BY FilesAssumptions DEF IInv, TypeOK, FileFacts, UploadsAgree, RipeAgree, ClerksAgree,
       CopiesKnown, PurgeAgrees, Recoverable, PurgeLeavesNothing, Kept, UploadDies, officeVars,
       rowVars, storageVars, driveVars, UploadGoes, Trouble
  <1>3. SyncFacts'
    BY SyncFactsKept DEF IInv, UploadDies, officeVars, rowVars, storageVars, driveVars,
       UploadGoes, Trouble
  <1> QED
    BY <1>1, <1>2, <1>3 DEF IInv

-----------------------------------------------------------------------------
(* Staff. *)

LEMMA RemoveFilePreserves ==
    ASSUME IInv, NEW f \in Files, RemoveFile(f)
    PROVE  IInv'
  <1>1. TypeOK'
    BY FilesAssumptions DEF IInv, TypeOK, RemoveFile, Live, LiveOn, officeVars, rowVars,
       storageVars, driveVars
  <1>2. FileFacts'
    BY FilesAssumptions DEF IInv, TypeOK, FileFacts, UploadsAgree, RipeAgree, ClerksAgree,
       CopiesKnown, PurgeAgrees, Recoverable, PurgeLeavesNothing, Kept, RemoveFile, Live,
       LiveOn, officeVars, rowVars, storageVars, driveVars
  <1>3. SyncFacts'
    BY SyncFactsKept, LockedAreFiles DEF IInv, TypeOK, RemoveFile, Live, LiveOn, officeVars,
       rowVars, storageVars, driveVars
  <1> QED
    BY <1>1, <1>2, <1>3 DEF IInv

LEMMA ReadLinkPreserves ==
    ASSUME IInv, NEW c \in Clerks, NEW files \in SUBSET Files, NEW d \in Documents,
           ReadLink(c, files, d)
    PROVE  IInv'
  <1>1. TypeOK'
    BY FilesAssumptions DEF IInv, TypeOK, ReadLink, Reads, Trouble, LiveOn, Live, Free,
       officeVars, rowVars, storageVars, driveVars
  <1>2. FileFacts'
    BY FilesAssumptions DEF IInv, TypeOK, FileFacts, UploadsAgree, RipeAgree, ClerksAgree,
       CopiesKnown, PurgeAgrees, Recoverable, PurgeLeavesNothing, Kept, ReadLink, Reads,
       Trouble, LiveOn, Live, Free, officeVars, rowVars, storageVars, driveVars
  <1>3. SyncFacts'
    BY SyncFactsKept DEF IInv, ReadLink, Reads, Trouble, LiveOn, Live, Free, officeVars,
       rowVars, storageVars, driveVars
  <1> QED
    BY <1>1, <1>2, <1>3 DEF IInv

LEMMA LinkFilesPreserves ==
    ASSUME IInv, NEW c \in Clerks, LinkFiles(c)
    PROVE  IInv'
  <1>1. TypeOK'
    BY FilesAssumptions DEF IInv, TypeOK, LinkFiles, Free, officeVars, rowVars, storageVars,
       driveVars
  <1>2. FileFacts'
    BY FilesAssumptions DEF IInv, TypeOK, FileFacts, UploadsAgree, RipeAgree, ClerksAgree,
       CopiesKnown, PurgeAgrees, Recoverable, PurgeLeavesNothing, Kept, LinkFiles, Free,
       officeVars, rowVars, storageVars, driveVars
  <1>3. SyncFacts'
    BY SyncFactsKept, LockedAreFiles DEF IInv, TypeOK, LinkFiles, Free, officeVars, rowVars,
       storageVars, driveVars
  <1> QED
    BY <1>1, <1>2, <1>3 DEF IInv

LEMMA ReadDeleteDocumentPreserves ==
    ASSUME IInv, NEW c \in Clerks, NEW d \in Documents, ReadDeleteDocument(c, d)
    PROVE  IInv'
  <1>1. TypeOK'
    BY FilesAssumptions DEF IInv, TypeOK, ReadDeleteDocument, Reads, LiveOn, Live, Free,
       officeVars, rowVars, storageVars, driveVars
  <1>2. FileFacts'
    BY FilesAssumptions DEF IInv, TypeOK, FileFacts, UploadsAgree, RipeAgree, ClerksAgree,
       CopiesKnown, PurgeAgrees, Recoverable, PurgeLeavesNothing, Kept, ReadDeleteDocument,
       Reads, LiveOn, Live, Free, officeVars, rowVars, storageVars, driveVars
  <1>3. SyncFacts'
    BY SyncFactsKept DEF IInv, ReadDeleteDocument, Reads, LiveOn, Live, Free, officeVars,
       rowVars, storageVars, driveVars
  <1> QED
    BY <1>1, <1>2, <1>3 DEF IInv

LEMMA ReadDeleteOrderPreserves ==
    ASSUME IInv, NEW c \in Clerks, NEW o \in Orders, ReadDeleteOrder(c, o)
    PROVE  IInv'
  <1>1. TypeOK'
    BY FilesAssumptions DEF IInv, TypeOK, ReadDeleteOrder, Reads, LiveOn, Live, Free,
       officeVars, rowVars, storageVars, driveVars
  <1>2. FileFacts'
    BY FilesAssumptions DEF IInv, TypeOK, FileFacts, UploadsAgree, RipeAgree, ClerksAgree,
       CopiesKnown, PurgeAgrees, Recoverable, PurgeLeavesNothing, Kept, ReadDeleteOrder, Reads,
       LiveOn, Live, Free, officeVars, rowVars, storageVars, driveVars
  <1>3. SyncFacts'
    BY SyncFactsKept DEF IInv, ReadDeleteOrder, Reads, LiveOn, Live, Free, officeVars, rowVars,
       storageVars, driveVars
  <1> QED
    BY <1>1, <1>2, <1>3 DEF IInv

LEMMA DeleteDocumentPreserves ==
    ASSUME IInv, NEW c \in Clerks, DeleteDocument(c)
    PROVE  IInv'
  <1>1. TypeOK'
    BY FilesAssumptions DEF IInv, TypeOK, DeleteDocument, DeleteDocuments, Free, officeVars,
       rowVars, storageVars, driveVars
  <1>2. FileFacts'
    BY FilesAssumptions DEF IInv, TypeOK, FileFacts, UploadsAgree, RipeAgree, ClerksAgree,
       CopiesKnown, PurgeAgrees, Recoverable, PurgeLeavesNothing, Kept, DeleteDocument,
       DeleteDocuments, Free, officeVars, rowVars, storageVars, driveVars
  <1>3. SyncFacts'
    BY SyncFactsKept, LockedAreFiles DEF IInv, TypeOK, DeleteDocument, DeleteDocuments, Free,
       officeVars, rowVars, storageVars, driveVars
  <1> QED
    BY <1>1, <1>2, <1>3 DEF IInv

LEMMA DeleteOrderPreserves ==
    ASSUME IInv, NEW c \in Clerks, DeleteOrder(c)
    PROVE  IInv'
  <1>1. TypeOK'
    BY FilesAssumptions DEF IInv, TypeOK, DeleteOrder, DeleteDocuments, DocumentsOf, Free,
       officeVars, rowVars, storageVars, driveVars
  <1>2. FileFacts'
    BY FilesAssumptions DEF IInv, TypeOK, FileFacts, UploadsAgree, RipeAgree, ClerksAgree,
       CopiesKnown, PurgeAgrees, Recoverable, PurgeLeavesNothing, Kept, DeleteOrder,
       DeleteDocuments, DocumentsOf, Free, officeVars, rowVars, storageVars, driveVars
  <1>3. SyncFacts'
    BY SyncFactsKept, LockedAreFiles DEF IInv, TypeOK, DeleteOrder, DeleteDocuments,
       DocumentsOf, Free, officeVars, rowVars, storageVars, driveVars
  <1> QED
    BY <1>1, <1>2, <1>3 DEF IInv

LEMMA ChangeStatusPreserves ==
    ASSUME IInv, NEW o \in Orders, ChangeStatus(o)
    PROVE  IInv'
  <1>1. TypeOK'
    BY FilesAssumptions DEF IInv, TypeOK, ChangeStatus, Trouble, officeVars, rowVars,
       storageVars, driveVars
  <1>2. FileFacts'
    BY FileFactsKept DEF IInv, ChangeStatus, Trouble, officeVars, rowVars, storageVars, driveVars
  <1>3. SyncFacts'
    BY SyncFactsKept DEF IInv, ChangeStatus, Trouble, officeVars, rowVars, storageVars, driveVars
  <1> QED
    BY <1>1, <1>2, <1>3 DEF IInv

-----------------------------------------------------------------------------
(* Time, and the nightly purge. *)

LEMMA RipenPreserves ==
    ASSUME IInv, NEW f \in Files, Ripen(f)
    PROVE  IInv'
  <1>1. TypeOK'
    BY FilesAssumptions DEF IInv, TypeOK, Ripen, Free, officeVars, rowVars, storageVars, driveVars
  <1>2. FileFacts'
    BY FilesAssumptions DEF IInv, TypeOK, FileFacts, UploadsAgree, RipeAgree, ClerksAgree,
       CopiesKnown, PurgeAgrees, Recoverable, PurgeLeavesNothing, Kept, Ripen, Free, officeVars,
       rowVars, storageVars, driveVars
  <1>3. SyncFacts'
    BY SyncFactsKept DEF IInv, Ripen, Free, officeVars, rowVars, storageVars, driveVars
  <1> QED
    BY <1>1, <1>2, <1>3 DEF IInv

LEMMA GrowOldPreserves ==
    ASSUME IInv, NEW f \in Files, GrowOld(f)
    PROVE  IInv'
  <1>1. TypeOK'
    BY FilesAssumptions DEF IInv, TypeOK, GrowOld, officeVars, rowVars, storageVars, driveVars
  <1>2. FileFacts'
    BY FileFactsKept DEF IInv, GrowOld, officeVars, rowVars, storageVars, driveVars
  <1>3. SyncFacts'
    BY SyncFactsKept DEF IInv, GrowOld, officeVars, rowVars, storageVars, driveVars
  <1> QED
    BY <1>1, <1>2, <1>3 DEF IInv

LEMMA PurgeBeginsPreserves ==
    ASSUME IInv, PurgeBegins
    PROVE  IInv'
  <1>1. TypeOK'
    BY FilesAssumptions DEF IInv, TypeOK, PurgeBegins, NoPurge, DueForRemoval, Orphans, Live,
       officeVars, rowVars, storageVars, driveVars
  <1>2. FileFacts'
    BY FilesAssumptions DEF IInv, TypeOK, FileFacts, UploadsAgree, RipeAgree, ClerksAgree,
       CopiesKnown, PurgeAgrees, Recoverable, PurgeLeavesNothing, Kept, PurgeBegins, NoPurge,
       DueForRemoval, Orphans, Live, officeVars, rowVars, storageVars, driveVars
  <1>3. SyncFacts'
    BY SyncFactsKept DEF IInv, PurgeBegins, NoPurge, DueForRemoval, Orphans, Live, officeVars,
       rowVars, storageVars, driveVars
  <1> QED
    BY <1>1, <1>2, <1>3 DEF IInv

LEMMA PurgeFilePreserves ==
    ASSUME IInv, NEW f \in Files, PurgeFile(f)
    PROVE  IInv'
  <1>1. TypeOK'
    BY FilesAssumptions DEF IInv, TypeOK, PurgeFile, officeVars, rowVars, storageVars, driveVars
  <1>2. FileFacts'
    BY FilesAssumptions DEF IInv, TypeOK, FileFacts, UploadsAgree, RipeAgree, ClerksAgree,
       CopiesKnown, PurgeAgrees, Recoverable, PurgeLeavesNothing, Kept, PurgeFile, officeVars,
       rowVars, storageVars, driveVars
  <1>3. SyncFacts'
    BY SyncFactsKept DEF IInv, PurgeFile, officeVars, rowVars, storageVars, driveVars
  <1> QED
    BY <1>1, <1>2, <1>3 DEF IInv

LEMMA PurgeFileFailsPreserves ==
    ASSUME IInv, NEW f \in Files, PurgeFileFails(f)
    PROVE  IInv'
  <1>1. TypeOK'
    BY TroubleCounts DEF IInv, TypeOK, PurgeFileFails, RowGoes, officeVars, rowVars,
       storageVars, driveVars
  <1>2. FileFacts'
    BY FilesAssumptions DEF IInv, TypeOK, FileFacts, UploadsAgree, RipeAgree, ClerksAgree,
       CopiesKnown, PurgeAgrees, Recoverable, PurgeLeavesNothing, Kept, PurgeFileFails, Trouble,
       RowGoes, officeVars, rowVars, storageVars, driveVars
  <1>3. SyncFacts'
    BY SyncFactsKept DEF IInv, PurgeFileFails, Trouble, RowGoes, officeVars, rowVars,
       storageVars, driveVars
  <1> QED
    BY <1>1, <1>2, <1>3 DEF IInv

LEMMA DropCopyPreserves ==
    ASSUME IInv, NEW f \in Files, DropCopy(f)
    PROVE  IInv'
  <1>1. TypeOK'
    BY FilesAssumptions DEF IInv, TypeOK, DropCopy, officeVars, rowVars, storageVars, driveVars
  <1>2. FileFacts'
    BY FilesAssumptions DEF IInv, TypeOK, FileFacts, UploadsAgree, RipeAgree, ClerksAgree,
       CopiesKnown, PurgeAgrees, Recoverable, PurgeLeavesNothing, Kept, DropCopy, officeVars,
       rowVars, storageVars, driveVars
  <1>3. SyncFacts'
    BY SyncFactsKept DEF IInv, DropCopy, officeVars, rowVars, storageVars, driveVars
  <1> QED
    BY <1>1, <1>2, <1>3 DEF IInv

LEMMA DropCopyFailsPreserves ==
    ASSUME IInv, NEW f \in Files, DropCopyFails(f)
    PROVE  IInv'
  <1>1. TypeOK'
    BY TroubleCounts DEF IInv, TypeOK, DropCopyFails, officeVars, rowVars, storageVars, driveVars
  <1>2. FileFacts'
    BY FilesAssumptions DEF IInv, TypeOK, FileFacts, UploadsAgree, RipeAgree, ClerksAgree,
       CopiesKnown, PurgeAgrees, Recoverable, PurgeLeavesNothing, Kept, DropCopyFails, Trouble,
       officeVars, rowVars, storageVars, driveVars
  <1>3. SyncFacts'
    BY SyncFactsKept DEF IInv, DropCopyFails, Trouble, officeVars, rowVars, storageVars, driveVars
  <1> QED
    BY <1>1, <1>2, <1>3 DEF IInv

LEMMA PurgeTurnsToCopiesPreserves ==
    ASSUME IInv, PurgeTurnsToCopies
    PROVE  IInv'
  <1>1. TypeOK'
    BY FilesAssumptions DEF IInv, TypeOK, PurgeTurnsToCopies, officeVars, rowVars, storageVars,
       driveVars
  <1>2. FileFacts'
    BY FilesAssumptions DEF IInv, TypeOK, FileFacts, UploadsAgree, RipeAgree, ClerksAgree,
       CopiesKnown, PurgeAgrees, Recoverable, PurgeLeavesNothing, Kept, PurgeTurnsToCopies,
       officeVars, rowVars, storageVars, driveVars
  <1>3. SyncFacts'
    BY SyncFactsKept DEF IInv, PurgeTurnsToCopies, officeVars, rowVars, storageVars, driveVars
  <1> QED
    BY <1>1, <1>2, <1>3 DEF IInv

LEMMA PurgeCommitsPreserves ==
    ASSUME IInv, PurgeCommits
    PROVE  IInv'
  <1>1. TypeOK'
    BY FilesAssumptions DEF IInv, TypeOK, PurgeCommits, NoPurge, officeVars, rowVars,
       storageVars, driveVars
  <1>2. FileFacts'
    BY FilesAssumptions DEF IInv, TypeOK, FileFacts, UploadsAgree, RipeAgree, ClerksAgree,
       CopiesKnown, PurgeAgrees, Recoverable, PurgeLeavesNothing, Kept, PurgeCommits, NoPurge,
       officeVars, rowVars, storageVars, driveVars
  <1>3. SyncFacts'
    BY SyncFactsKept, LockedAreFiles DEF IInv, TypeOK, PurgeCommits, NoPurge, officeVars,
       rowVars, storageVars, driveVars
  <1> QED
    BY <1>1, <1>2, <1>3 DEF IInv

LEMMA PurgeDiesPreserves ==
    ASSUME IInv, PurgeDies
    PROVE  IInv'
  <1>1. TypeOK'
    BY FilesAssumptions DEF IInv, TypeOK, PurgeDies, Trouble, NoPurge, officeVars, rowVars,
       storageVars, driveVars
  <1>2. FileFacts'
    BY FilesAssumptions DEF IInv, TypeOK, FileFacts, UploadsAgree, RipeAgree, ClerksAgree,
       CopiesKnown, PurgeAgrees, Recoverable, PurgeLeavesNothing, Kept, PurgeDies, Trouble,
       NoPurge, officeVars, rowVars, storageVars, driveVars
  <1>3. SyncFacts'
    BY SyncFactsKept DEF IInv, PurgeDies, Trouble, NoPurge, officeVars, rowVars, storageVars,
       driveVars
  <1> QED
    BY <1>1, <1>2, <1>3 DEF IInv

-----------------------------------------------------------------------------
(* The mirror in Google Drive. *)

LEMMA BeginSyncPreserves ==
    ASSUME IInv, NEW s \in Syncers, NEW o \in Orders, BeginSync(s, o)
    PROVE  IInv'
  <1>1. TypeOK'
    BY FilesAssumptions DEF IInv, TypeOK, BeginSync, OrderFree, ToCopy, LiveOn, Live,
       DocumentsOf, NoSync, officeVars, rowVars, storageVars
  <1>2. FileFacts'
    BY FileFactsKept DEF IInv, BeginSync, OrderFree, ToCopy, LiveOn, Live, DocumentsOf, NoSync,
       officeVars, rowVars, storageVars
  <1>3. SyncFacts'
    <2>1. SyncsAgree'
      BY FilesAssumptions DEF IInv, TypeOK, SyncFacts, SyncsAgree, BeginSync, OrderFree, ToCopy,
         LiveOn, Live, DocumentsOf, NoSync, officeVars, rowVars, storageVars
    <2>2. CopiedOnce'
      BY CopiedOnceUnfolded, CopiedOnceUnfoldedNext DEF Recorded, IInv, TypeOK, SyncFacts,
         SyncsAgree, BeginSync, OrderFree, ToCopy, LiveOn, Live, DocumentsOf, NoSync,
         officeVars, rowVars, storageVars
    <2> QED
      BY <2>1, <2>2 DEF SyncFacts
  <1> QED
    BY <1>1, <1>2, <1>3 DEF IInv

LEMMA CopyToDrivePreserves ==
    ASSUME IInv, NEW s \in Syncers, NEW f \in Files, CopyToDrive(s, f)
    PROVE  IInv'
  <1>1. TypeOK'
    <2>1. sync' \in [Syncers -> SyncRecord]
      <3>1. sync \in [Syncers -> SyncRecord]
        BY DEF IInv, TypeOK, SyncRecord
      <3>2. sync' = [sync EXCEPT ![s].batch = @ \ {f},
                                 ![s].done = IF Readable(f) THEN @ \cup {f} ELSE @]
        BY DEF CopyToDrive
      <3> QED
        BY <3>1, <3>2 DEF SyncRecord
    <2>2. driveCopies' \in [Files -> Nat]
      BY DEF IInv, TypeOK, CopyToDrive
    <2> QED
      BY <2>1, <2>2 DEF IInv, TypeOK, SyncRecord, CopyToDrive, officeVars, rowVars, storageVars
  <1>2. FileFacts'
    BY FileFactsKept DEF IInv, CopyToDrive, officeVars, rowVars, storageVars
  <1>3. SyncFacts'
    <2>1. SyncsAgree'
      BY FilesAssumptions DEF IInv, TypeOK, SyncFacts, SyncsAgree, CopyToDrive, officeVars,
         rowVars, storageVars
    <2>2. CopiedOnce'
      <3>1. ~Recorded(f)
        BY FilesAssumptions DEF IInv, TypeOK, SyncFacts, SyncsAgree, CopyToDrive, Recorded
      <3>2. \A t \in Syncers : sync'[t].done =
               IF t = s /\ Readable(f) THEN sync[t].done \cup {f} ELSE sync[t].done
        BY DEF IInv, TypeOK, CopyToDrive
      <3>3. \A g \in Files : Recorded(g)' <=> Recorded(g) \/ (g = f /\ Readable(f))
        <4>1. UNCHANGED inDrive
          BY DEF CopyToDrive
        <4> QED
          BY <3>2, <4>1 DEF Recorded
      <3>4. /\ \A g \in Files : driveCopies'[g] =
                  IF g = f /\ Readable(f) THEN driveCopies[g] + 1 ELSE driveCopies[g]
            /\ \A g \in Files : driveCopies[g] \in Nat /\ unrecorded[g] \in Nat
            /\ UNCHANGED unrecorded
        BY DEF IInv, TypeOK, CopyToDrive
      <3>5. \A g \in Files : driveCopies[g] <= unrecorded[g] + (IF Recorded(g) THEN 1 ELSE 0)
        BY CopiedOnceUnfolded DEF IInv, SyncFacts
      <3> QED
        BY <3>1, <3>3, <3>4, <3>5, CopiedOnceUnfoldedNext
    <2> QED
      BY <2>1, <2>2 DEF SyncFacts
  <1> QED
    BY <1>1, <1>2, <1>3 DEF IInv

LEMMA DriveRefusesPreserves ==
    ASSUME IInv, NEW s \in Syncers, NEW f \in Files, DriveRefuses(s, f)
    PROVE  IInv'
  <1>1. TypeOK'
    <2>1. sync' \in [Syncers -> SyncRecord]
      <3>1. sync \in [Syncers -> SyncRecord]
        BY DEF IInv, TypeOK, SyncRecord
      <3>2. sync' = [sync EXCEPT ![s].batch = {}]
        BY DEF DriveRefuses
      <3> QED
        BY <3>1, <3>2 DEF SyncRecord
    <2>2. driveCopies' \in [Files -> Nat] /\ unrecorded' \in [Files -> Nat]
      BY DEF IInv, TypeOK, DriveRefuses
    <2>3. left' \in 0..MaxTroubles
      BY TroubleCounts DEF IInv, DriveRefuses
    <2> QED
      BY <2>1, <2>2, <2>3 DEF IInv, TypeOK, SyncRecord, DriveRefuses, officeVars,
         rowVars, storageVars
  <1>2. FileFacts'
    BY FileFactsKept DEF IInv, DriveRefuses, Trouble, officeVars, rowVars, storageVars
  <1>3. SyncFacts'
    <2>1. SyncsAgree'
      BY FilesAssumptions DEF IInv, TypeOK, SyncFacts, SyncsAgree, DriveRefuses, Trouble,
         officeVars, rowVars, storageVars
    <2>2. CopiedOnce'
      BY CopiedOnceUnfolded, CopiedOnceUnfoldedNext DEF Recorded, IInv, TypeOK, SyncFacts,
         SyncsAgree, DriveRefuses, Trouble, officeVars, rowVars, storageVars
    <2> QED
      BY <2>1, <2>2 DEF SyncFacts
  <1> QED
    BY <1>1, <1>2, <1>3 DEF IInv

LEMMA CommitSyncPreserves ==
    ASSUME IInv, NEW s \in Syncers, CommitSync(s)
    PROVE  IInv'
  <1>1. TypeOK'
    BY FilesAssumptions DEF IInv, TypeOK, CommitSync, NoSync, officeVars, rowVars, storageVars
  <1>2. FileFacts'
    BY FileFactsKept DEF IInv, CommitSync, NoSync, officeVars, rowVars, storageVars
  <1>3. SyncFacts'
    <2>1. SyncsAgree'
      BY FilesAssumptions DEF IInv, TypeOK, SyncFacts, SyncsAgree, CommitSync, NoSync,
         officeVars, rowVars, storageVars
    <2>2. CopiedOnce'
      BY CopiedOnceUnfolded, CopiedOnceUnfoldedNext DEF Recorded, IInv, TypeOK, SyncFacts,
         SyncsAgree, CommitSync, NoSync, officeVars, rowVars, storageVars
    <2> QED
      BY <2>1, <2>2 DEF SyncFacts
  <1> QED
    BY <1>1, <1>2, <1>3 DEF IInv

LEMMA SyncDiesPreserves ==
    ASSUME IInv, NEW s \in Syncers, SyncDies(s)
    PROVE  IInv'
  <1>1. TypeOK'
    BY FilesAssumptions DEF IInv, TypeOK, SyncDies, Trouble, NoSync, officeVars, rowVars,
       storageVars
  <1>2. FileFacts'
    BY FileFactsKept DEF IInv, SyncDies, Trouble, NoSync, officeVars, rowVars, storageVars
  <1>3. SyncFacts'
    <2>1. SyncsAgree'
      BY FilesAssumptions DEF IInv, TypeOK, SyncFacts, SyncsAgree, SyncDies, Trouble, NoSync,
         officeVars, rowVars, storageVars
    <2>2. CopiedOnce'
      BY CopiedOnceUnfolded, CopiedOnceUnfoldedNext DEF Recorded, IInv, TypeOK, SyncFacts,
         SyncsAgree, SyncDies, Trouble, NoSync, officeVars, rowVars, storageVars
    <2> QED
      BY <2>1, <2>2 DEF SyncFacts
  <1> QED
    BY <1>1, <1>2, <1>3 DEF IInv

-----------------------------------------------------------------------------
(* The invariant is inductive. *)

LEMMA NextPreserves == IInv /\ [Next]_vars => IInv'
  <1> SUFFICES ASSUME IInv, [Next]_vars PROVE IInv'
    OBVIOUS
  <1>1. ASSUME NEW f \in Files, Upload(f) PROVE IInv'
    BY <1>1, BeginUploadPreserves, PutWorkingPreserves, PutWorkingFailsPreserves,
       StoreFilePreserves,
       StoreFailsPreserves, RecordFilePreserves, UploadDiesPreserves
    DEF Upload
  <1>2. ASSUME NEW f \in Files, RemoveFile(f) \/ Ripen(f) \/ GrowOld(f) PROVE IInv'
    BY <1>2, RemoveFilePreserves, RipenPreserves, GrowOldPreserves
  <1>3. ASSUME NEW c \in Clerks, ClerkReads(c) \/ ClerkWrites(c) PROVE IInv'
    BY <1>3, ReadLinkPreserves, ReadDeleteDocumentPreserves, ReadDeleteOrderPreserves,
       LinkFilesPreserves, DeleteDocumentPreserves, DeleteOrderPreserves
    DEF ClerkReads, ClerkWrites
  <1>4. ASSUME NEW o \in Orders, ChangeStatus(o) PROVE IInv'
    BY <1>4, ChangeStatusPreserves
  <1>5. CASE PurgeWorks \/ PurgeCommits \/ PurgeTroubles
    BY <1>5, PurgeBeginsPreserves, PurgeTurnsToCopiesPreserves, PurgeFilePreserves,
       DropCopyPreserves,
       PurgeCommitsPreserves, PurgeDiesPreserves, PurgeFileFailsPreserves, DropCopyFailsPreserves
    DEF PurgeWorks, PurgeTroubles
  <1>6. ASSUME NEW s \in Syncers,
               SyncWorks(s) \/ SyncTroubles(s) \/ \E o \in Orders : BeginSync(s, o)
        PROVE  IInv'
    BY <1>6, CommitSyncPreserves, CopyToDrivePreserves, SyncDiesPreserves, DriveRefusesPreserves,
       BeginSyncPreserves
    DEF SyncWorks, SyncTroubles
  <1>7. CASE UNCHANGED vars
    <2>1. TypeOK'
      BY <1>7 DEF IInv, TypeOK, vars, officeVars, rowVars, storageVars, driveVars
    <2>2. FileFacts' /\ SyncFacts'
      BY <1>7, FileFactsKept, SyncFactsKept DEF IInv, vars, rowVars
    <2> QED
      BY <2>1, <2>2 DEF IInv
  <1> QED
    BY <1>1, <1>2, <1>3, <1>4, <1>5, <1>6, <1>7 DEF Next

(* Every reachable state satisfies the strengthened invariant.                *)
THEOREM Invariance == Spec => []IInv
  <1>1. Init => IInv
    BY InitEstablishes
  <1>2. IInv /\ [Next]_vars => IInv'
    BY NextPreserves
  <1> QED
    BY <1>1, <1>2, PTL DEF Spec

(* No upload, deletion, link, purge or sync, and no failure of one, leaves a  *)
(* row, a stored file or a transaction out of its type.                       *)
THEOREM TypeCorrect == Spec => []TypeOK
  <1>1. IInv => TypeOK
    BY DEF IInv
  <1> QED
    BY <1>1, Invariance, PTL

(* The purge deletes the bytes of a file only after its retention period: a   *)
(* file that was removed by mistake, or lost its document, can be restored    *)
(* until then, though purges roll back after deleting.                        *)
THEOREM RecoverableHolds == Spec => []Recoverable
  <1>1. IInv => Recoverable
    BY DEF IInv, FileFacts
  <1> QED
    BY <1>1, Invariance, PTL

(* When purge_order_files forgets a row, the archived bytes and the plain     *)
(* working copy are both gone.                                                *)
THEOREM PurgeLeavesNothingHolds == Spec => []PurgeLeavesNothing
  <1>1. IInv => PurgeLeavesNothing
    BY DEF IInv, FileFacts
  <1> QED
    BY <1>1, Invariance, PTL

(* However many processes sync an order, Drive holds more than one copy of a  *)
(* file only for a copy whose id could not be recorded.                       *)
THEOREM CopiedOnceHolds == Spec => []CopiedOnce
  <1>1. IInv => CopiedOnce
    BY DEF IInv, SyncFacts
  <1> QED
    BY <1>1, Invariance, PTL

(* The row locks of sync_order_drive keep a removed file out of Drive.        *)
THEOREM OnlyLiveIntoDriveHolds == Spec => OnlyLiveIntoDrive
  <1> DEFINE Copied == \A f \in Files : driveCopies'[f] > driveCopies[f] => row[f] = "live"
  <1>1. IInv /\ [Next]_vars => [Copied]_vars
    <2> SUFFICES ASSUME IInv, Next PROVE Copied
      OBVIOUS
    <2>1. ASSUME NEW s \in Syncers, NEW g \in Files, CopyToDrive(s, g) \/ DriveRefuses(s, g)
          PROVE  Copied
      <3>1. row[g] = "live"
        BY <2>1 DEF IInv, SyncFacts, SyncsAgree, CopyToDrive, DriveRefuses
      <3>2. \A f \in Files : f # g => driveCopies'[f] = driveCopies[f]
        BY <2>1 DEF IInv, TypeOK, CopyToDrive, DriveRefuses
      <3>3. \A f \in Files : driveCopies[f] \in Nat
        BY DEF IInv, TypeOK
      <3> QED
        BY <3>1, <3>2, <3>3
    <2>2. CASE UNCHANGED driveCopies
      <3>1. \A f \in Files : driveCopies[f] \in Nat
        BY DEF IInv, TypeOK
      <3> QED
        BY <2>2, <3>1
    <2>3. ASSUME NEW s \in Syncers,
                 CommitSync(s) \/ SyncDies(s) \/ \E o \in Orders : BeginSync(s, o)
          PROVE  Copied
      BY <2>2, <2>3 DEF CommitSync, SyncDies, BeginSync
    <2>4. ASSUME NEW f \in Files, Upload(f) \/ RemoveFile(f) \/ Ripen(f) \/ GrowOld(f)
          PROVE  Copied
      BY <2>2, <2>4 DEF Upload, BeginUpload, PutWorking, PutWorkingFails, StoreFile, StoreFails,
         RecordFile, UploadDies, UploadGoes, RemoveFile, Ripen, GrowOld, driveVars
    <2>5. ASSUME NEW c \in Clerks, ClerkReads(c) \/ ClerkWrites(c) PROVE Copied
      BY <2>2, <2>5 DEF ClerkReads, ReadLink, ReadDeleteDocument, ReadDeleteOrder, Reads,
         ClerkWrites, LinkFiles, DeleteDocument, DeleteOrder, DeleteDocuments, driveVars
    <2>6. CASE PurgeWorks \/ PurgeCommits \/ PurgeTroubles \/ \E o \in Orders : ChangeStatus(o)
      BY <2>2, <2>6 DEF PurgeWorks, PurgeBegins, PurgeTurnsToCopies, PurgeFile, DropCopy,
         PurgeCommits, PurgeTroubles, PurgeDies, PurgeFileFails, DropCopyFails, ChangeStatus, driveVars
    <2> QED
      BY <2>1, <2>3, <2>4, <2>5, <2>6 DEF Next, SyncWorks, SyncTroubles
  <1> QED
    BY <1>1, Invariance, PTL DEF Spec, OnlyLiveIntoDrive

-----------------------------------------------------------------------------
(***************************************************************************)
(* Imports.                                                                *)
(***************************************************************************)

(* What a judgement is made of. *)

Entries == [ref : Int, name : Texts, phone : Texts]

(* What an order can be about. *)
Matters == STRING \cup {"by hand"}

JudgedOrders == [client : Int, what : STRING, by : Int]

Judgements ==
    [seen : [Kinds -> Seq(Entries)], named : Seq(Entries), known : SUBSET (Int \X Matters),
     create : BOOLEAN, refs : BOOLEAN, people : Seq(PersonRows), orders : Seq(JudgedOrders)]

(* ref is someone of the kind the bureau has, or the file brings. *)
Names(people, ref, kind) ==
    \/ ref \in People /\ person[ref].kind = kind
    \/ -ref \in DOMAIN people /\ people[-ref].kind = kind

(* A place on a list is somebody's, or matches nothing. *)
ListFine(people, list, kind) ==
    \A i \in DOMAIN list :
        IF list[i].ref = 0 THEN list[i].name = Absent /\ list[i].phone = Absent
        ELSE Names(people, list[i].ref, kind)

ListsFine(j) ==
    /\ \A k \in Kinds : ListFine(j.people, j.seen[k], k)
    /\ ListFine(j.people, j.named, "translators")

OrdersRefer(j) ==
    \A i \in DOMAIN j.orders :
        /\ j.orders[i].client # 0 /\ Names(j.people, j.orders[i].client, "clients")
        /\ j.orders[i].by = 0 \/ Names(j.people, j.orders[i].by, "translators")

KeyOf(line) == OrderKey(line.client, line.what)

(* Every order is known, and none is taken twice. *)
OrdersKnown(j) ==
    /\ \A o \in OrderIds : Standing(o) => KeyOf(order[o]) \in j.known
    /\ \A i \in DOMAIN j.orders : KeyOf(j.orders[i]) \in j.known
    /\ \A i \in DOMAIN j.orders : \A o \in OrderIds : Standing(o) => KeyOf(order[o]) # KeyOf(j.orders[i])
    /\ \A i, k \in DOMAIN j.orders : i # k => KeyOf(j.orders[i]) # KeyOf(j.orders[k])

(* The list that tells whether someone of a kind is new. *)
Watched(j, kind) == IF kind = "translators" /\ j.create THEN j.named ELSE j.seen[kind]

OnList(list, q) ==
    /\ q.phone = Absent \/ \E i \in DOMAIN list : list[i].phone = q.phone
    /\ q.kind = "clients" \/ \E i \in DOMAIN list : list[i].name = q.name

OffList(list, q) ==
    /\ q.phone = Absent \/ \A i \in DOMAIN list : list[i].phone # q.phone
    /\ q.kind = "clients" \/ \A i \in DOMAIN list : list[i].name # q.name

PeopleSeen(j) ==
    /\ \A p \in People : person[p].kind \in Kinds /\ person[p].active =>
          OnList(Watched(j, person[p].kind), person[p])
    /\ \A n \in DOMAIN j.people : OnList(Watched(j, j.people[n].kind), j.people[n])

PeopleNew(j) ==
    /\ \A n \in DOMAIN j.people : \A p \in People : person[p] # Nobody => Apart(j.people[n], person[p])
    /\ \A n, m \in DOMAIN j.people : n # m => Apart(j.people[n], j.people[m])

JudgedFine(j) ==
    j \in Judgements /\ ListsFine(j) /\ OrdersRefer(j) /\ OrdersKnown(j) /\ PeopleSeen(j) /\ PeopleNew(j)

PersonTyped == person \in [People -> PersonRows \cup {Nobody}]

-----------------------------------------------------------------------------
(* Matching. *)

LEMMA Upwards ==
    ASSUME NEW good, 0 \in good, \A k \in Nat : k \in good => k + 1 \in good, NEW m \in Nat
    PROVE  m \in good
  <1> SUFFICES ASSUME m \notin good PROVE FALSE
    OBVIOUS
  <1>1. PICK less : less = {p \in Nat \X Nat : p[1] < p[2]}
    OBVIOUS
  <1>2. IsWellFoundedOn(less, Nat)
    <2>1. less = OpToRel(<, Nat)
      BY <1>1 DEF OpToRel
    <2> QED BY <2>1, NatLessThanWellFounded
  <1>3. PICK bad : bad = {n \in Nat : n \notin good}
    OBVIOUS
  <1>4. bad \subseteq Nat /\ bad # {}
    BY <1>3
  <1>5. PICK n \in bad : \A k \in bad : <<k, n>> \notin less
    BY <1>2, <1>4, WFMin
  <1>6. n \in Nat /\ n \notin good /\ n # 0 /\ n - 1 \in Nat /\ (n - 1) + 1 = n
    BY <1>3, <1>5
  <1>7. n - 1 \in good
    <2>1. PICK p : p = <<n - 1, n>>
      OBVIOUS
    <2>2. p \in Nat \X Nat /\ p[1] < p[2]
      BY <1>6, <2>1
    <2>3. p \in less
      BY <1>1, <2>2
    <2> QED BY <1>3, <1>5, <1>6, <2>1, <2>3
  <1> QED BY <1>6, <1>7

LEMMA MinIsIn == ASSUME NEW S, S \subseteq Nat, S # {} PROVE Min(S) \in S
  <1>1. PICK less : less = OpToRel(<, Nat)
    OBVIOUS
  <1>2. PICK i \in S : \A j \in S : <<j, i>> \notin less
    BY <1>1, NatLessThanWellFounded, WFMin
  <1>3. ASSUME NEW j \in S PROVE i <= j
    <2>1. i \in Nat /\ j \in Nat
      OBVIOUS
    <2>2. j < i => <<j, i>> \in less
      BY <1>1, <2>1 DEF OpToRel
    <2> QED BY <1>2, <2>1, <2>2
  <1> QED
    BY <1>3 DEF Min

LEMMA FirstOfIs ==
    ASSUME NEW list \in Seq(Entries), NEW hits, hits \subseteq DOMAIN list
    PROVE  /\ hits = {} => FirstOf(list, hits) = 0
           /\ hits # {} => \E i \in hits : FirstOf(list, hits) = list[i].ref
  <1>1. hits # {} => Min(hits) \in hits
    BY MinIsIn
  <1> QED BY <1>1 DEF FirstOf

(* Both searches find somebody of the list, or there is nobody to find. *)
LEMMA ByPhoneIs ==
    ASSUME NEW list \in Seq(Entries), NEW people, NEW kind, ListFine(people, list, kind), NEW phone \in Texts
    PROVE  /\ ByPhone(list, phone) \in Int
           /\ ByPhone(list, phone) # 0 => Names(people, ByPhone(list, phone), kind)
           /\ ByPhone(list, phone) = 0 => phone = Absent \/ \A i \in DOMAIN list : list[i].phone # phone
  <1>1. CASE phone = Absent
    BY <1>1 DEF ByPhone
  <1>2. CASE phone # Absent
    <2>1. PICK hits : hits = {i \in DOMAIN list : list[i].phone = phone}
      OBVIOUS
    <2>2. ByPhone(list, phone) = FirstOf(list, hits)
      BY <1>2, <2>1 DEF ByPhone
    <2>3. CASE hits = {}
      BY <2>1, <2>2, <2>3, FirstOfIs
    <2>4. CASE hits # {}
      <3>1. PICK i \in hits : ByPhone(list, phone) = list[i].ref
        BY <2>1, <2>2, <2>4, FirstOfIs
      <3>2. i \in DOMAIN list /\ list[i].phone = phone
        BY <2>1
      <3>3. list[i] \in Entries
        BY <3>2
      <3>4. list[i].ref \in Int
        BY <3>3 DEF Entries
      <3>5. list[i].ref # 0 /\ Names(people, list[i].ref, kind)
        BY <1>2, <3>2 DEF ListFine
      <3> QED BY <3>1, <3>4, <3>5
    <2> QED BY <2>3, <2>4
  <1> QED BY <1>1, <1>2

LEMMA ByNameIs ==
    ASSUME NEW list \in Seq(Entries), NEW people, NEW kind, ListFine(people, list, kind), NEW name \in Texts
    PROVE  /\ ByName(list, name) \in Int
           /\ ByName(list, name) # 0 => Names(people, ByName(list, name), kind)
           /\ ByName(list, name) = 0 => name = Absent \/ \A i \in DOMAIN list : list[i].name # name
  <1>1. CASE name = Absent
    BY <1>1 DEF ByName
  <1>2. CASE name # Absent
    <2>1. PICK hits : hits = {i \in DOMAIN list : list[i].name = name}
      OBVIOUS
    <2>2. ByName(list, name) = FirstOf(list, hits)
      BY <1>2, <2>1 DEF ByName
    <2>3. CASE hits = {}
      BY <2>1, <2>2, <2>3, FirstOfIs
    <2>4. CASE hits # {}
      <3>1. PICK i \in hits : ByName(list, name) = list[i].ref
        BY <2>1, <2>2, <2>4, FirstOfIs
      <3>2. i \in DOMAIN list /\ list[i].name = name
        BY <2>1
      <3>3. list[i] \in Entries
        BY <3>2
      <3>4. list[i].ref \in Int
        BY <3>3 DEF Entries
      <3>5. list[i].ref # 0 /\ Names(people, list[i].ref, kind)
        BY <1>2, <3>2 DEF ListFine
      <3> QED BY <3>1, <3>4, <3>5
    <2> QED BY <2>3, <2>4
  <1> QED BY <1>1, <1>2

LEMMA MatchRefIs ==
    ASSUME NEW list \in Seq(Entries), NEW people, NEW kind, ListFine(people, list, kind),
           NEW line \in Rows, NEW byName \in BOOLEAN, NEW hit, hit = MatchRef(list, line, byName)
    PROVE  /\ hit \in Int
           /\ hit # 0 => Names(people, hit, kind)
           /\ hit = 0 => /\ line.phone = Absent \/ \A i \in DOMAIN list : list[i].phone # line.phone
                         /\ ~byName \/ line.name = Absent \/ \A i \in DOMAIN list : list[i].name # line.name
  <1>1. PICK phone, name : phone = line.phone /\ name = line.name /\ phone \in Texts /\ name \in Texts
    BY DEF Rows
  <1>2. PICK a, b : a = ByPhone(list, phone) /\ b = ByName(list, name)
    OBVIOUS
  <1>3. /\ a \in Int /\ (a # 0 => Names(people, a, kind))
        /\ a = 0 => phone = Absent \/ \A i \in DOMAIN list : list[i].phone # phone
    BY <1>1, <1>2, ByPhoneIs
  <1>4. /\ b \in Int /\ (b # 0 => Names(people, b, kind))
        /\ b = 0 => name = Absent \/ \A i \in DOMAIN list : list[i].name # name
    BY <1>1, <1>2, ByNameIs
  <1>5. hit = IF a # 0 THEN a ELSE IF byName THEN b ELSE 0
    BY <1>1, <1>2 DEF MatchRef, Or
  <1> QED BY <1>1, <1>3, <1>4, <1>5

LEMMA FindPersonIs ==
    ASSUME NEW list \in Seq(Entries), NEW people, NEW kind, ListFine(people, list, kind),
           NEW line \in Rows, NEW hit, hit = FindPerson(list, line)
    PROVE  /\ hit \in Int
           /\ hit # 0 => Names(people, hit, kind)
           /\ hit = 0 => /\ line.phone = Absent \/ \A i \in DOMAIN list : list[i].phone # line.phone
                         /\ line.name = Absent \/ \A i \in DOMAIN list : list[i].name # line.name
  <1>1. PICK phone, name : phone = line.phone /\ name = line.name /\ phone \in Texts /\ name \in Texts
    BY DEF Rows
  <1>2. PICK a, b : a = ByPhone(list, phone) /\ b = ByName(list, name)
    OBVIOUS
  <1>3. /\ a \in Int /\ (a # 0 => Names(people, a, kind))
        /\ a = 0 => phone = Absent \/ \A i \in DOMAIN list : list[i].phone # phone
    BY <1>1, <1>2, ByPhoneIs
  <1>4. /\ b \in Int /\ (b # 0 => Names(people, b, kind))
        /\ b = 0 => name = Absent \/ \A i \in DOMAIN list : list[i].name # name
    BY <1>1, <1>2, ByNameIs
  <1>5. hit = IF b # 0 THEN b ELSE a
    BY <1>1, <1>2 DEF FindPerson, Or
  <1> QED BY <1>1, <1>3, <1>4, <1>5

-----------------------------------------------------------------------------
(* A person, or a spelling, is added to a judgement. *)

Longer(people, list, longer, kind) ==
    \/ longer = list
    \/ \E e \in Entries : e.ref # 0 /\ Names(people, e.ref, kind) /\ longer = Append(list, e)

LEMMA LongerIs ==
    ASSUME NEW list \in Seq(Entries), NEW people, NEW kind, NEW longer, Longer(people, list, longer, kind)
    PROVE  /\ longer \in Seq(Entries)
           /\ \A q : OnList(list, q) => OnList(longer, q)
           /\ ListFine(people, list, kind) => ListFine(people, longer, kind)
  <1>1. CASE longer = list
    BY <1>1
  <1>2. ASSUME NEW e \in Entries, e.ref # 0, Names(people, e.ref, kind), longer = Append(list, e)
        PROVE  /\ longer \in Seq(Entries)
               /\ \A q : OnList(list, q) => OnList(longer, q)
               /\ ListFine(people, list, kind) => ListFine(people, longer, kind)
    <2>1. /\ longer \in Seq(Entries) /\ DOMAIN list \subseteq DOMAIN longer
          /\ \A i \in DOMAIN list : longer[i] = list[i]
          /\ \A i \in DOMAIN longer : i \in DOMAIN list \/ longer[i] = e
      BY <1>2
    <2>2. \A q : OnList(list, q) => OnList(longer, q)
      BY <2>1 DEF OnList
    <2>3. ListFine(people, list, kind) => ListFine(people, longer, kind)
      BY <1>2, <2>1 DEF ListFine
    <2> QED BY <2>1, <2>2, <2>3
  <1> QED BY <1>1, <1>2 DEF Longer

LEMMA NamesMore ==
    ASSUME NEW people \in Seq(PersonRows), NEW new \in PersonRows
    PROVE  /\ \A ref, kind : Names(people, ref, kind) => Names(Append(people, new), ref, kind)
           /\ Names(Append(people, new), -(Len(people) + 1), new.kind)
  <1>1. PICK more : more = Append(people, new)
    OBVIOUS
  <1>2. /\ DOMAIN people \subseteq DOMAIN more /\ \A i \in DOMAIN people : more[i] = people[i]
        /\ Len(people) \in Nat /\ Len(people) + 1 \in DOMAIN more /\ more[Len(people) + 1] = new
    BY <1>1
  <1>3. -(-(Len(people) + 1)) = Len(people) + 1
    BY <1>2
  <1>4. Names(more, -(Len(people) + 1), new.kind)
    BY <1>2, <1>3 DEF Names
  <1> QED BY <1>1, <1>2, <1>4 DEF Names

LEMMA ListMore ==
    ASSUME NEW people \in Seq(PersonRows), NEW new \in PersonRows, NEW list, NEW kind, ListFine(people, list, kind)
    PROVE  ListFine(Append(people, new), list, kind)
  BY NamesMore DEF ListFine

LEMMA OnOffApart ==
    ASSUME NEW list, NEW p, NEW q, OnList(list, p), OffList(list, q)
    PROVE  p.kind = q.kind => Apart(p, q) /\ Apart(q, p)
  BY DEF OnList, OffList, Apart

LEMMA KindsOf ==
    ASSUME NEW people \in Seq(PersonRows) PROVE \A n \in DOMAIN people : people[n].kind \in Kinds
  <1> TAKE n \in DOMAIN people
  <1>1. people[n] \in PersonRows
    OBVIOUS
  <1> QED BY <1>1 DEF PersonRows

(* k is j with a person more, whom j had not seen and k has. *)
Grown(j, new, people, seen, named, k) ==
    /\ new \in PersonRows /\ new.active
    /\ people = Append(j.people, new)
    /\ seen \in [Kinds -> Seq(Entries)] /\ \A x \in Kinds : Longer(people, j.seen[x], seen[x], x)
    /\ Longer(people, j.named, named, "translators")
    /\ k = [j EXCEPT !.people = people, !.seen = seen, !.named = named]
    /\ OffList(Watched(j, new.kind), new) /\ OnList(Watched(k, new.kind), new)

LEMMA PersonAdded ==
    ASSUME PersonTyped, NEW j, JudgedFine(j), NEW new, NEW people, NEW seen, NEW named,
           NEW k, Grown(j, new, people, seen, named, k)
    PROVE  JudgedFine(k)
  <1>0. /\ new \in PersonRows /\ new.active
        /\ people = Append(j.people, new)
        /\ seen \in [Kinds -> Seq(Entries)] /\ \A x \in Kinds : Longer(people, j.seen[x], seen[x], x)
        /\ Longer(people, j.named, named, "translators")
        /\ k = [j EXCEPT !.people = people, !.seen = seen, !.named = named]
        /\ OffList(Watched(j, new.kind), new) /\ OnList(Watched(k, new.kind), new)
    BY DEF Grown
  <1>1. /\ j \in Judgements /\ j.people \in Seq(PersonRows) /\ j.named \in Seq(Entries)
        /\ j.seen \in [Kinds -> Seq(Entries)] /\ \A x \in Kinds : j.seen[x] \in Seq(Entries)
    BY <1>0 DEF JudgedFine, Judgements
  <1>2. /\ people \in Seq(PersonRows) /\ named \in Seq(Entries)
        /\ DOMAIN people = DOMAIN j.people \cup {Len(j.people) + 1} /\ Len(j.people) + 1 \notin DOMAIN j.people
        /\ \A n \in DOMAIN j.people : people[n] = j.people[n]
        /\ people[Len(j.people) + 1] = new
    BY <1>0, <1>1, LongerIs
  <1>3. /\ k.people = people /\ k.seen = seen /\ k.named = named /\ k.known = j.known /\ k.create = j.create
        /\ k.refs = j.refs /\ k.orders = j.orders /\ k \in Judgements
    BY <1>0, <1>1, <1>2 DEF Judgements
  <1>4. ListsFine(k)
    <2>1. ASSUME NEW x \in Kinds PROVE ListFine(people, seen[x], x)
      <3>1. ListFine(people, j.seen[x], x)
        BY <1>0, <1>1, ListMore DEF JudgedFine, ListsFine
      <3> QED BY <1>0, <1>1, <3>1, LongerIs
    <2>2. ListFine(people, named, "translators")
      <3>1. ListFine(people, j.named, "translators")
        BY <1>0, <1>1, ListMore DEF JudgedFine, ListsFine
      <3> QED BY <1>0, <1>1, <3>1, LongerIs
    <2> QED BY <1>0, <1>3, <2>1, <2>2 DEF ListsFine
  <1>5. OrdersRefer(k)
    <2>1. \A ref, kind : Names(j.people, ref, kind) => Names(people, ref, kind)
      BY <1>0, <1>1, NamesMore
    <2> QED BY <1>0, <1>3, <2>1 DEF JudgedFine, OrdersRefer
  <1>6. OrdersKnown(k)
    BY <1>0, <1>3 DEF JudgedFine, OrdersKnown
  <1>7. ASSUME NEW x \in Kinds, NEW q, OnList(Watched(j, x), q) PROVE OnList(Watched(k, x), q)
    <2>1. OnList(j.named, q) => OnList(named, q)
      BY <1>0, <1>1, LongerIs
    <2>2. OnList(j.seen[x], q) => OnList(seen[x], q)
      BY <1>0, <1>1, LongerIs
    <2> QED BY <1>0, <1>3, <1>7, <2>1, <2>2 DEF Watched
  <1>8. new.kind \in Kinds /\ \A n \in DOMAIN j.people : j.people[n].kind \in Kinds
    BY <1>0, <1>1, KindsOf DEF PersonRows
  <1>9. PeopleSeen(k)
    <2>1. \A p \in People : person[p].kind \in Kinds /\ person[p].active =>
             OnList(Watched(k, person[p].kind), person[p])
      BY <1>0, <1>7 DEF JudgedFine, PeopleSeen
    <2>2. \A n \in DOMAIN j.people : OnList(Watched(k, j.people[n].kind), j.people[n])
      BY <1>0, <1>7, <1>8 DEF JudgedFine, PeopleSeen
    <2>3. \A n \in DOMAIN people : OnList(Watched(k, people[n].kind), people[n])
      BY <1>0, <1>2, <2>2
    <2> QED BY <1>0, <1>3, <2>1, <2>3 DEF PeopleSeen
  <1>10. PeopleNew(k)
    <2>1. ASSUME NEW p \in People, person[p] # Nobody PROVE Apart(new, person[p])
      <3>1. PICK q : q = person[p] /\ q \in PersonRows /\ q.kind \in Kinds
        BY <1>0, <2>1 DEF PersonTyped, PersonRows
      <3>2. CASE q.active /\ q.kind = new.kind
        <4>1. OnList(Watched(j, new.kind), q)
          BY <1>0, <1>8, <3>1, <3>2 DEF JudgedFine, PeopleSeen
        <4> QED BY <1>0, <3>1, <3>2, <4>1, OnOffApart
      <3>3. CASE ~(q.active /\ q.kind = new.kind)
        BY <1>0, <3>1, <3>3 DEF Apart
      <3> QED BY <1>0, <3>2, <3>3
    <2>2. ASSUME NEW n \in DOMAIN j.people PROVE Apart(j.people[n], new) /\ Apart(new, j.people[n])
      <3>1. PICK q : q = j.people[n]
        OBVIOUS
      <3>2. OnList(Watched(j, q.kind), q)
        BY <1>0, <3>1 DEF JudgedFine, PeopleSeen
      <3>3. CASE q.kind = new.kind
        BY <1>0, <3>1, <3>2, <3>3, OnOffApart
      <3>4. CASE q.kind # new.kind
        BY <1>0, <3>1, <3>4 DEF Apart
      <3> QED BY <1>0, <3>3, <3>4
    <2>3. \A n \in DOMAIN people : \A p \in People : person[p] # Nobody => Apart(people[n], person[p])
      BY <1>0, <1>2, <2>1 DEF JudgedFine, PeopleNew
    <2>4. \A n, m \in DOMAIN people : n # m => Apart(people[n], people[m])
      BY <1>0, <1>2, <2>2 DEF JudgedFine, PeopleNew
    <2> QED BY <1>0, <1>3, <2>3, <2>4 DEF PeopleNew
  <1> QED
    BY <1>0, <1>3, <1>4, <1>5, <1>6, <1>9, <1>10 DEF JudgedFine

(* A translator of the file goes by a second spelling. *)
LEMMA SpellingAdded ==
    ASSUME PersonTyped, NEW j, JudgedFine(j), NEW named, Longer(j.people, j.named, named, "translators"),
           NEW k, k = [j EXCEPT !.named = named]
    PROVE  JudgedFine(k)
  <1>1. /\ j \in Judgements /\ j.named \in Seq(Entries) /\ j.people \in Seq(PersonRows)
        /\ \A n \in DOMAIN j.people : j.people[n].kind \in Kinds
    <2>1. j \in Judgements /\ j.named \in Seq(Entries) /\ j.people \in Seq(PersonRows)
      BY DEF JudgedFine, Judgements
    <2> QED BY <2>1, KindsOf
  <1>2. named \in Seq(Entries)
    BY <1>1, LongerIs
  <1>3. /\ k.people = j.people /\ k.seen = j.seen /\ k.named = named /\ k.known = j.known /\ k.create = j.create
        /\ k.refs = j.refs /\ k.orders = j.orders /\ k \in Judgements
    BY <1>1, <1>2 DEF Judgements
  <1>4. ListsFine(k)
    <2>1. ListFine(j.people, named, "translators")
      BY <1>1, LongerIs DEF JudgedFine, ListsFine
    <2> QED BY <1>3, <2>1 DEF JudgedFine, ListsFine
  <1>5. OrdersRefer(k) /\ OrdersKnown(k) /\ PeopleNew(k)
    BY <1>3 DEF JudgedFine, OrdersRefer, OrdersKnown, PeopleNew
  <1>6. ASSUME NEW x \in Kinds, NEW q, OnList(Watched(j, x), q) PROVE OnList(Watched(k, x), q)
    <2>1. OnList(j.named, q) => OnList(named, q)
      BY <1>1, LongerIs
    <2> QED BY <1>3, <1>6, <2>1 DEF Watched
  <1>7. PeopleSeen(k)
    BY <1>1, <1>3, <1>6 DEF JudgedFine, PeopleSeen
  <1> QED
    BY <1>3, <1>4, <1>5, <1>7 DEF JudgedFine

(* An order is taken. *)
LEMMA OrderTaken ==
    ASSUME NEW j, JudgedFine(j), NEW new \in JudgedOrders, KeyOf(new) \notin j.known,
           new.client # 0 /\ Names(j.people, new.client, "clients"),
           new.by = 0 \/ Names(j.people, new.by, "translators"),
           NEW k, k = AcceptOrder(j, new)
    PROVE  JudgedFine(k)
  <1>1. j \in Judgements /\ j.orders \in Seq(JudgedOrders) /\ KeyOf(new) \in Int \X Matters
    BY DEF JudgedFine, Judgements, JudgedOrders, KeyOf, OrderKey, Matters
  <1>2. PICK taken : taken = Append(j.orders, new)
    OBVIOUS
  <1>3. /\ taken \in Seq(JudgedOrders) /\ Len(j.orders) + 1 \notin DOMAIN j.orders
        /\ DOMAIN taken = DOMAIN j.orders \cup {Len(j.orders) + 1}
        /\ \A i \in DOMAIN j.orders : taken[i] = j.orders[i]
        /\ taken[Len(j.orders) + 1] = new
    BY <1>1, <1>2
  <1>4. k = [j EXCEPT !.known = j.known \cup {KeyOf(new)}, !.orders = taken]
    BY <1>1, <1>2 DEF AcceptOrder, KeyOf, Judgements
  <1>5. /\ k.people = j.people /\ k.seen = j.seen /\ k.named = j.named /\ k.known = j.known \cup {KeyOf(new)}
        /\ k.create = j.create /\ k.refs = j.refs /\ k.orders = taken /\ k \in Judgements
    <2>1. PICK known : known = j.known \cup {KeyOf(new)}
      OBVIOUS
    <2>2. known \in SUBSET (Int \X Matters)
      BY <1>1, <2>1 DEF Judgements
    <2>3. k = [j EXCEPT !.known = known, !.orders = taken]
      BY <1>4, <2>1
    <2> QED BY <1>1, <1>3, <2>1, <2>2, <2>3 DEF Judgements
  <1>6. ListsFine(k) /\ PeopleNew(k)
    BY <1>5 DEF JudgedFine, ListsFine, PeopleNew
  <1>7. PeopleSeen(k)
    BY <1>5 DEF JudgedFine, PeopleSeen, Watched
  <1>8. OrdersRefer(k)
    <2>1. \A i \in DOMAIN taken : /\ taken[i].client # 0 /\ Names(j.people, taken[i].client, "clients")
                                  /\ taken[i].by = 0 \/ Names(j.people, taken[i].by, "translators")
      BY <1>3 DEF JudgedFine, OrdersRefer
    <2> QED BY <1>5, <2>1 DEF OrdersRefer
  <1>9. OrdersKnown(k)
    <2>1. \A i \in DOMAIN j.orders : KeyOf(j.orders[i]) \in j.known /\ KeyOf(j.orders[i]) # KeyOf(new)
      BY DEF JudgedFine, OrdersKnown
    <2>2. \A i \in DOMAIN taken : KeyOf(taken[i]) \in j.known \cup {KeyOf(new)}
      BY <1>3, <2>1
    <2>3. \A i, m \in DOMAIN taken : i # m => KeyOf(taken[i]) # KeyOf(taken[m])
      BY <1>3, <2>1 DEF JudgedFine, OrdersKnown
    <2>4. \A i \in DOMAIN taken : \A o \in OrderIds : Standing(o) => KeyOf(order[o]) # KeyOf(taken[i])
      BY <1>3 DEF JudgedFine, OrdersKnown
    <2> QED BY <1>5, <2>2, <2>3, <2>4 DEF JudgedFine, OrdersKnown
  <1> QED
    BY <1>5, <1>6, <1>7, <1>8, <1>9 DEF JudgedFine

-----------------------------------------------------------------------------
(* Each kind of row. *)

NewPerson(kind, line) == [kind |-> kind, name |-> line.name, phone |-> line.phone, active |-> TRUE]

LEMMA NewPersonIs ==
    ASSUME NEW kind \in Kinds, NEW line \in Rows, line.name # Absent
    PROVE  /\ NewPerson(kind, line) \in PersonRows /\ NewPerson(kind, line).active
           /\ NewPerson(kind, line).kind = kind /\ NewPerson(kind, line).name = line.name
           /\ NewPerson(kind, line).phone = line.phone
  BY DEF NewPerson, PersonRows, Rows, Texts

(* The ref of the next person is nobody else's. *)
LEMMA NextRefIs ==
    ASSUME NEW j, j.people \in Seq(PersonRows), NEW new \in PersonRows
    PROVE  NextRef(j) \in Int /\ NextRef(j) # 0 /\ Names(Append(j.people, new), NextRef(j), new.kind)
  BY NamesMore DEF NextRef

(* A list to which one entry has been added. *)
WithEntry(list, ref, name, phone) == Append(list, [ref |-> ref, name |-> name, phone |-> phone])

LEMMA OneLonger ==
    ASSUME NEW list \in Seq(Entries), NEW people, NEW kind,
           NEW ref \in Int, ref # 0, Names(people, ref, kind), NEW name \in Texts, NEW phone \in Texts,
           NEW longer, longer = WithEntry(list, ref, name, phone)
    PROVE  /\ Longer(people, list, longer, kind)
           /\ \E i \in DOMAIN longer : longer[i].name = name /\ longer[i].phone = phone
  <1>1. PICK e : e = [ref |-> ref, name |-> name, phone |-> phone]
    OBVIOUS
  <1>2. e \in Entries /\ e.ref = ref /\ e.name = name /\ e.phone = phone
    BY <1>1 DEF Entries
  <1>3. longer = Append(list, e) /\ Len(list) + 1 \in DOMAIN longer /\ longer[Len(list) + 1] = e
    BY <1>1, <1>2 DEF WithEntry
  <1> QED BY <1>2, <1>3 DEF Longer

(* A row of a sheet of people is judged, as it is for its kind. *)
PersonJudged(j, kind, line, byName, seenName, k) ==
    /\ byName \in BOOLEAN /\ (byName \/ kind = "clients") /\ (kind # "translators" \/ ~j.create)
    /\ seenName \in Texts /\ (kind # "clients" => seenName = line.name)
    /\ k = JudgePerson(j, kind, line, byName, seenName)

LEMMA JudgePersonKeeps ==
    ASSUME ImportAssumptions, PersonTyped, NEW j, JudgedFine(j), NEW kind \in Kinds, NEW line \in Rows,
           NEW byName, NEW seenName, NEW k, PersonJudged(j, kind, line, byName, seenName, k)
    PROVE  /\ JudgedFine(k) /\ k.create = j.create /\ k.known = j.known /\ k.named = j.named
           /\ MatchRef(j.seen[kind], line, byName) = 0 /\ line.name # Absent => Names(k.people, NextRef(j), kind)
           /\ \A ref, x : Names(j.people, ref, x) => Names(k.people, ref, x)
  <1>0. /\ byName \in BOOLEAN /\ (byName \/ kind = "clients") /\ (kind # "translators" \/ ~j.create)
        /\ seenName \in Texts /\ (kind # "clients" => seenName = line.name)
        /\ k = JudgePerson(j, kind, line, byName, seenName)
    BY DEF PersonJudged
  <1>1. /\ j \in Judgements /\ j.people \in Seq(PersonRows) /\ j.named \in Seq(Entries)
        /\ j.seen \in [Kinds -> Seq(Entries)] /\ j.seen[kind] \in Seq(Entries)
        /\ ListFine(j.people, j.seen[kind], kind)
    BY <1>0 DEF JudgedFine, Judgements, ListsFine
  <1>2. PICK hit : hit = MatchRef(j.seen[kind], line, byName)
    OBVIOUS
  <1>3. CASE line.name = Absent \/ hit # 0
    <2>1. k = j
      BY <1>0, <1>2, <1>3 DEF JudgePerson
    <2> QED BY <1>0, <1>2, <1>3, <2>1
  <1>4. CASE line.name # Absent /\ hit = 0
    <2>1. PICK new : new = NewPerson(kind, line)
      OBVIOUS
    <2>2. /\ new \in PersonRows /\ new.active /\ new.kind = kind /\ new.name = line.name /\ new.phone = line.phone
          /\ line.phone \in Texts
      BY <1>0, <1>4, <2>1, NewPersonIs DEF Rows
    <2>3. PICK people, ref : people = Append(j.people, new) /\ ref = NextRef(j)
      OBVIOUS
    <2>4. ref \in Int /\ ref # 0 /\ Names(people, ref, kind)
      BY <1>0, <1>1, <2>2, <2>3, NextRefIs
    <2>5. PICK longer : longer = Append(j.seen[kind], [ref |-> ref, name |-> seenName, phone |-> line.phone])
      OBVIOUS
    <2>6. /\ Longer(people, j.seen[kind], longer, kind)
          /\ \E i \in DOMAIN longer : longer[i].name = seenName /\ longer[i].phone = line.phone
      <3>1. PICK list, phone : list = j.seen[kind] /\ phone = line.phone
        OBVIOUS
      <3>2. /\ list \in Seq(Entries) /\ phone \in Texts /\ longer = WithEntry(list, ref, seenName, phone)
        BY <1>0, <1>1, <2>2, <2>5, <3>1 DEF WithEntry
      <3> QED BY <1>0, <2>4, <3>1, <3>2, OneLonger
    <2>7. PICK seen : seen = [j.seen EXCEPT ![kind] = longer]
      OBVIOUS
    <2>8. /\ seen \in [Kinds -> Seq(Entries)] /\ seen[kind] = longer
          /\ \A x \in Kinds : Longer(people, j.seen[x], seen[x], x)
      <3>1. longer \in Seq(Entries)
        BY <1>0, <1>1, <2>6, LongerIs
      <3>2. \A x \in Kinds : seen[x] = IF x = kind THEN longer ELSE j.seen[x]
        BY <1>0, <1>1, <2>7
      <3> QED BY <1>0, <1>1, <2>6, <2>7, <3>1, <3>2 DEF Longer
    <2>9. k = [j EXCEPT !.people = people, !.seen = seen, !.named = j.named]
      <3>1. AddPerson(j, kind, line) = [j EXCEPT !.people = people]
        BY <1>0, <1>1, <2>1, <2>3 DEF AddPerson, NewPerson, Judgements
      <3>2. PICK added : added = [j EXCEPT !.people = people]
        OBVIOUS
      <3>3. k = [added EXCEPT !.seen[kind] = Append(@, [ref |-> ref, phone |-> line.phone, name |-> seenName])]
        BY <1>0, <1>2, <1>4, <2>3, <3>1, <3>2 DEF JudgePerson
      <3>4. added.seen = j.seen /\ [ref |-> ref, phone |-> line.phone, name |-> seenName]
                                   = [ref |-> ref, name |-> seenName, phone |-> line.phone]
        BY <1>0, <1>1, <3>2 DEF Judgements
      <3>5. k = [added EXCEPT !.seen = seen]
        BY <1>0, <1>1, <2>5, <2>7, <3>2, <3>3, <3>4 DEF Judgements
      <3> QED BY <1>0, <1>1, <3>2, <3>5 DEF Judgements
    <2>10. /\ k.people = people /\ k.seen = seen /\ k.named = j.named /\ k.create = j.create /\ k.known = j.known
      BY <1>0, <1>1, <2>9 DEF Judgements
    <2>11. OffList(Watched(j, kind), new)
      <3>1. Watched(j, kind) = j.seen[kind]
        BY <1>0 DEF Watched
      <3>2. /\ line.phone = Absent \/ \A i \in DOMAIN j.seen[kind] : j.seen[kind][i].phone # line.phone
            /\ ~byName \/ line.name = Absent \/ \A i \in DOMAIN j.seen[kind] : j.seen[kind][i].name # line.name
        BY <1>0, <1>1, <1>2, <1>4, MatchRefIs
      <3> QED BY <1>0, <1>4, <2>2, <3>1, <3>2 DEF OffList
    <2>12. OnList(Watched(k, kind), new)
      <3>1. Watched(k, kind) = longer
        BY <1>0, <2>8, <2>10 DEF Watched
      <3> QED BY <1>0, <2>2, <2>6, <3>1 DEF OnList
    <2>13. Longer(people, j.named, j.named, "translators")
      BY <1>0 DEF Longer
    <2>14. JudgedFine(k)
      <3>1. Grown(j, new, people, seen, j.named, k)
        BY <1>0, <2>2, <2>3, <2>8, <2>9, <2>11, <2>12, <2>13 DEF Grown
      <3> QED BY <1>0, <3>1, PersonAdded
    <2>15. \A r, x : Names(j.people, r, x) => Names(people, r, x)
      BY <1>0, <1>1, <2>2, <2>3, NamesMore
    <2> QED BY <1>0, <2>3, <2>4, <2>10, <2>14, <2>15
  <1> QED BY <1>0, <1>3, <1>4

(* The orders of the file create the translators they name: no sheet of translators does. *)
Creates(j) == j.create

LEMMA JudgeTranslatorKeeps ==
    ASSUME ImportAssumptions, PersonTyped, NEW j, JudgedFine(j), ~Creates(j), NEW line \in Rows,
           NEW k, k = JudgeTranslator(j, line)
    PROVE  JudgedFine(k) /\ k.create = j.create
  <1>1. PICK t : t = "translators" /\ t \in Kinds
    BY DEF Kinds
  <1>2. PICK hit, judged : /\ hit = MatchRef(j.seen[t], line, TRUE)
                           /\ judged = JudgePerson(j, t, line, TRUE, line.name)
    OBVIOUS
  <1>3. line.name \in Texts /\ line.phone \in Texts
    BY DEF Rows
  <1>4. /\ JudgedFine(judged) /\ judged.create = j.create /\ judged.named = j.named
        /\ hit = 0 /\ line.name # Absent => Names(judged.people, NextRef(j), t)
        /\ \A ref, x : Names(j.people, ref, x) => Names(judged.people, ref, x)
    <2>1. PICK byName, name : byName = TRUE /\ name = line.name
      OBVIOUS
    <2>2. t \in Kinds /\ PersonJudged(j, t, line, byName, name, judged)
      BY <1>1, <1>2, <1>3, <2>1 DEF PersonJudged, Creates
    <2>3. JudgedFine(judged) /\ judged.create = j.create /\ judged.named = j.named
      BY <2>2, JudgePersonKeeps
    <2>4. MatchRef(j.seen[t], line, byName) = 0 /\ line.name # Absent => Names(judged.people, NextRef(j), t)
      BY <2>2, JudgePersonKeeps
    <2>5. \A ref, x : Names(j.people, ref, x) => Names(judged.people, ref, x)
      BY <2>2, JudgePersonKeeps
    <2> QED BY <1>2, <2>1, <2>3, <2>4, <2>5
  <1>5. CASE line.name = Absent \/ ~j.refs
    <2>1. k = judged
      BY <1>1, <1>2, <1>5 DEF JudgeTranslator
    <2> QED BY <1>4, <2>1
  <1>6. CASE line.name # Absent /\ j.refs
    <2>1. /\ j.seen[t] \in Seq(Entries) /\ ListFine(j.people, j.seen[t], t) /\ j.named \in Seq(Entries)
          /\ judged \in Judgements /\ j.people \in Seq(PersonRows)
      BY <1>1, <1>4 DEF JudgedFine, Judgements, ListsFine
    <2>2. hit \in Int /\ (hit # 0 => Names(j.people, hit, t))
      <3>1. PICK list : list = j.seen[t]
        OBVIOUS
      <3> QED BY <1>2, <2>1, <3>1, MatchRefIs
    <2>3. PICK ref, phone : ref = Or(hit, NextRef(j)) /\ phone = IF hit = 0 THEN line.phone ELSE Absent
      OBVIOUS
    <2>4. phone \in Texts /\ ref \in Int /\ ref # 0 /\ Names(judged.people, ref, t)
      <3>1. NextRef(j) \in Int /\ NextRef(j) # 0
        BY <2>1 DEF NextRef
      <3> QED BY <1>3, <1>4, <1>6, <2>2, <2>3, <3>1 DEF Or, Texts
    <2>5. PICK list, named : list = judged.named /\ named = WithEntry(list, ref, line.name, phone)
      OBVIOUS
    <2>6. Longer(judged.people, judged.named, named, t)
      <3>1. PICK people, name : people = judged.people /\ name = line.name
        OBVIOUS
      <3>2. /\ list \in Seq(Entries) /\ name \in Texts /\ named = WithEntry(list, ref, name, phone)
            /\ Names(people, ref, t)
        BY <1>3, <1>4, <2>1, <2>4, <2>5, <3>1
      <3> QED BY <2>4, <2>5, <3>1, <3>2, OneLonger
    <2>7. k = [judged EXCEPT !.named = named]
      BY <1>1, <1>2, <1>6, <2>1, <2>3, <2>5 DEF JudgeTranslator, WithEntry, Judgements
    <2>8. JudgedFine(k)
      BY <1>1, <1>4, <2>6, <2>7, SpellingAdded
    <2>9. k.create = judged.create
      BY <2>1, <2>7 DEF Judgements
    <2> QED BY <1>4, <2>8, <2>9
  <1> QED BY <1>5, <1>6

LEMMA JudgeClientKeeps ==
    ASSUME ImportAssumptions, PersonTyped, NEW j, JudgedFine(j), NEW line \in Rows,
           NEW k, k = JudgeClient(j, line)
    PROVE  JudgedFine(k) /\ k.create = j.create
  <1>1. PICK t : t = "clients" /\ t \in Kinds /\ t # "translators"
    BY DEF Kinds
  <1>2. PICK byName, name : byName = FALSE /\ name = IF j.refs THEN line.name ELSE Absent
    OBVIOUS
  <1>3. t \in Kinds /\ PersonJudged(j, t, line, byName, name, k)
    BY <1>1, <1>2 DEF JudgeClient, Rows, Texts, PersonJudged
  <1> QED BY <1>3, JudgePersonKeeps

LEMMA JudgeNotaryKeeps ==
    ASSUME ImportAssumptions, PersonTyped, NEW j, JudgedFine(j), NEW line \in Rows,
           NEW k, k = JudgeNotary(j, line)
    PROVE  JudgedFine(k) /\ k.create = j.create
  <1>1. PICK t : t = "notaries" /\ t \in Kinds /\ t # "translators"
    BY DEF Kinds
  <1>2. PICK byName, name : byName = TRUE /\ name = line.name
    OBVIOUS
  <1>3. t \in Kinds /\ PersonJudged(j, t, line, byName, name, k)
    BY <1>1, <1>2 DEF JudgeNotary, Rows, PersonJudged
  <1> QED BY <1>3, JudgePersonKeeps

(* A row's translator is made only when the file has no sheet of them. *)
MadeBy(with, line, ref, k) ==
    k = [AddPerson(with, "translators", line) EXCEPT
           !.named = Append(@, [ref |-> ref, name |-> line.name, phone |-> line.phone])]

LEMMA TranslatorMade ==
    ASSUME ImportAssumptions, PersonTyped, NEW with, JudgedFine(with), Creates(with), NEW line \in Rows,
           line.name # Absent, FindPerson(with.named, line) = 0, NEW ref, ref = NextRef(with),
           NEW k, MadeBy(with, line, ref, k)
    PROVE  /\ JudgedFine(k) /\ k.create = with.create /\ k.known = with.known
           /\ ref \in Int /\ ref # 0 /\ Names(k.people, ref, "translators")
           /\ \A r, x : Names(with.people, r, x) => Names(k.people, r, x)
  <1>1. PICK t : t = "translators" /\ t \in Kinds
    BY DEF Kinds
  <1>2. PICK new, people : new = NewPerson(t, line) /\ people = Append(with.people, new)
    OBVIOUS
  <1>3. /\ new \in PersonRows /\ new.active /\ new.kind = t /\ new.name = line.name /\ new.phone = line.phone
        /\ line.phone \in Texts /\ line.name \in Texts
    BY <1>1, <1>2, NewPersonIs DEF Rows
  <1>4. /\ with \in Judgements /\ with.people \in Seq(PersonRows) /\ with.named \in Seq(Entries)
        /\ with.seen \in [Kinds -> Seq(Entries)] /\ ListFine(with.people, with.named, t)
    BY <1>1 DEF JudgedFine, Judgements, ListsFine
  <1>5. ref \in Int /\ ref # 0 /\ Names(people, ref, t)
    BY <1>2, <1>3, <1>4, NextRefIs
  <1>6. PICK list, name, phone : list = with.named /\ name = line.name /\ phone = line.phone
    OBVIOUS
  <1>7. PICK named : named = WithEntry(list, ref, name, phone)
    OBVIOUS
  <1>8. /\ Longer(people, list, named, t)
        /\ \E i \in DOMAIN named : named[i].name = name /\ named[i].phone = phone
    <2>1. list \in Seq(Entries) /\ name \in Texts /\ phone \in Texts
      BY <1>3, <1>4, <1>6
    <2> QED BY <1>5, <1>7, <2>1, OneLonger
  <1>9. k = [with EXCEPT !.people = people, !.seen = with.seen, !.named = named]
    <2>1. PICK added : added = [with EXCEPT !.people = people]
      OBVIOUS
    <2>2. added = AddPerson(with, "translators", line)
      BY <1>1, <1>2, <1>4, <2>1 DEF AddPerson, NewPerson, Judgements
    <2>3. added.named = list
      BY <1>4, <1>6, <2>1 DEF Judgements
    <2>4. k = [added EXCEPT !.named = Append(@, [ref |-> ref, name |-> line.name, phone |-> line.phone])]
      BY <2>2 DEF MadeBy
    <2>5. k = [added EXCEPT !.named = named]
      BY <1>4, <1>6, <1>7, <2>1, <2>3, <2>4 DEF WithEntry, Judgements
    <2> QED BY <1>4, <2>1, <2>5 DEF Judgements
  <1>10. /\ k.people = people /\ k.named = named /\ k.create = with.create /\ k.known = with.known
    BY <1>4, <1>9 DEF Judgements
  <1>11. OffList(Watched(with, t), new)
    <2>1. Watched(with, t) = list
      BY <1>1, <1>6 DEF Watched, Creates
    <2>2. /\ line.phone = Absent \/ \A i \in DOMAIN list : list[i].phone # line.phone
          /\ line.name = Absent \/ \A i \in DOMAIN list : list[i].name # line.name
      <3>1. PICK hit, all : hit = FindPerson(list, line) /\ hit = 0 /\ all = with.people
        BY <1>6
      <3>2. /\ list \in Seq(Entries) /\ ListFine(all, list, t)
        BY <1>4, <1>6, <3>1
      <3> QED BY <3>1, <3>2, FindPersonIs
    <2> QED BY <1>3, <2>1, <2>2 DEF OffList
  <1>12. OnList(Watched(k, t), new)
    <2>1. Watched(k, t) = named
      BY <1>1, <1>10 DEF Watched, Creates
    <2>2. PICK i \in DOMAIN named : named[i].name = new.name /\ named[i].phone = new.phone
      BY <1>3, <1>6, <1>8
    <2>3. OnList(named, new)
      BY <2>2 DEF OnList
    <2> QED BY <2>1, <2>3
  <1>13. \A x \in Kinds : Longer(people, with.seen[x], with.seen[x], x)
    BY DEF Longer
  <1>14. JudgedFine(k)
    <2>1. PICK seen : seen = with.seen /\ Grown(with, new, people, seen, named, k)
      BY <1>1, <1>2, <1>3, <1>4, <1>6, <1>8, <1>9, <1>11, <1>12, <1>13 DEF Grown
    <2> QED BY <2>1, PersonAdded
  <1>15. \A r, x : Names(with.people, r, x) => Names(people, r, x)
    BY <1>2, <1>3, <1>4, NamesMore
  <1> QED BY <1>1, <1>5, <1>10, <1>14, <1>15

LEMMA JudgeOrderKeeps ==
    ASSUME ImportAssumptions, PersonTyped, NEW j, JudgedFine(j), NEW line \in OrderRows,
           NEW k, k = JudgeOrder(j, line)
    PROVE  JudgedFine(k) /\ k.create = j.create
  <1>1. PICK t : t = "clients" /\ t \in Kinds /\ t # "translators"
    BY DEF Kinds
  <1>2. PICK who, whom, what : /\ who = line.client /\ whom = line.by /\ what = line.what
                               /\ who \in Rows /\ whom \in Rows /\ what \in STRING
    BY DEF OrderRows
  <1>3. PICK hit, client : hit = MatchRef(j.seen["clients"], who, TRUE) /\ client = Or(hit, NextRef(j))
    OBVIOUS
  <1>4. PICK with : with = IF hit # 0 THEN j
                           ELSE [AddPerson(j, "clients", who) EXCEPT
                                   !.seen["clients"] = Append(@, [ref |-> client, name |-> who.name,
                                                                  phone |-> who.phone])]
    OBVIOUS
  <1>5. PICK found, makes : found = FindPerson(j.named, whom) /\ makes = (whom.name # Absent /\ found = 0 /\ j.create)
    OBVIOUS
  <1>6. PICK by : by = IF makes THEN NextRef(with) ELSE found
    OBVIOUS
  <1>7. PICK full : full = IF ~makes THEN with
                           ELSE [AddPerson(with, "translators", whom) EXCEPT
                                   !.named = Append(@, [ref |-> by, name |-> whom.name, phone |-> whom.phone])]
    OBVIOUS
  <1>8. k = IF hit = 0 /\ who.name = Absent THEN j
            ELSE IF OrderKnown(j, OrderKey(client, what)) THEN j
            ELSE AcceptOrder(full, [client |-> client, what |-> what, by |-> by])
    BY <1>2, <1>3, <1>4, <1>5, <1>6, <1>7 DEF JudgeOrder
  <1>9. CASE (hit = 0 /\ who.name = Absent) \/ OrderKnown(j, OrderKey(client, what))
    BY <1>8, <1>9
  <1>10. CASE ~((hit = 0 /\ who.name = Absent) \/ OrderKnown(j, OrderKey(client, what)))
    <2>1. /\ j \in Judgements /\ j.people \in Seq(PersonRows) /\ j.seen["clients"] \in Seq(Entries)
          /\ ListFine(j.people, j.seen["clients"], t) /\ j.named \in Seq(Entries)
          /\ ListFine(j.people, j.named, "translators") /\ j.seen \in [Kinds -> Seq(Entries)]
      BY <1>1 DEF JudgedFine, Judgements, ListsFine
    <2>2. hit \in Int /\ (hit # 0 => Names(j.people, hit, t))
      <3>1. PICK list : list = j.seen["clients"]
        OBVIOUS
      <3> QED BY <1>2, <1>3, <2>1, <3>1, MatchRefIs
    <2>3. NextRef(j) \in Int /\ NextRef(j) # 0
      BY <2>1 DEF NextRef
    <2>4. client \in Int /\ client # 0
      BY <1>3, <2>2, <2>3 DEF Or
    <2>5. PICK byName, name : byName = TRUE /\ name = who.name
      OBVIOUS
    <2>6. with = JudgePerson(j, t, who, byName, name)
      <3>1. CASE hit # 0
        BY <1>1, <1>3, <1>4, <2>5, <3>1 DEF JudgePerson
      <3>2. CASE hit = 0
        <4>1. PICK e : e = [ref |-> client, name |-> who.name, phone |-> who.phone]
          OBVIOUS
        <4>2. e = [ref |-> NextRef(j), phone |-> who.phone, name |-> name]
          BY <1>3, <2>5, <3>2, <4>1 DEF Or
        <4>3. with = [AddPerson(j, t, who) EXCEPT !.seen[t] = Append(@, e)]
          BY <1>1, <1>4, <3>2, <4>1
        <4>4. who.name # Absent /\ MatchRef(j.seen[t], who, byName) = 0
          BY <1>1, <1>3, <1>10, <2>5, <3>2
        <4>5. JudgePerson(j, t, who, byName, name) = [AddPerson(j, t, who) EXCEPT !.seen[t] = Append(@, e)]
          BY <4>2, <4>4 DEF JudgePerson
        <4> QED BY <4>3, <4>5
      <3> QED BY <3>1, <3>2
    <2>7. PersonJudged(j, t, who, byName, name, with)
      BY <1>1, <1>2, <2>5, <2>6 DEF PersonJudged, Rows
    <2>8. JudgedFine(with) /\ with.create = j.create /\ with.known = j.known /\ with.named = j.named
      BY <1>1, <1>2, <2>7, JudgePersonKeeps
    <2>9. MatchRef(j.seen[t], who, byName) = 0 /\ who.name # Absent => Names(with.people, NextRef(j), t)
      BY <1>1, <1>2, <2>7, JudgePersonKeeps
    <2>10. \A ref, x : Names(j.people, ref, x) => Names(with.people, ref, x)
      BY <1>1, <1>2, <2>7, JudgePersonKeeps
    <2>11. Names(with.people, client, t)
      BY <1>1, <1>3, <1>10, <2>2, <2>5, <2>9, <2>10 DEF Or
    <2>12. found \in Int /\ (found # 0 => Names(j.people, found, "translators"))
      <3>1. PICK list, x : list = j.named /\ x = "translators"
        OBVIOUS
      <3>2. found \in Int /\ (found # 0 => Names(j.people, found, x))
        BY <1>2, <1>5, <2>1, <3>1, FindPersonIs
      <3> QED BY <3>1, <3>2
    <2>13. /\ JudgedFine(full) /\ full.create = j.create /\ full.known = j.known
           /\ by \in Int /\ (by = 0 \/ Names(full.people, by, "translators"))
           /\ Names(full.people, client, t)
      <3>1. CASE ~makes
        <4>1. full = with /\ by = found
          BY <1>6, <1>7, <3>1
        <4> QED BY <2>8, <2>10, <2>11, <2>12, <4>1
      <3>2. CASE makes
        <4>1. /\ whom.name # Absent /\ FindPerson(with.named, whom) = 0 /\ by = NextRef(with) /\ Creates(with)
              /\ MadeBy(with, whom, by, full)
          BY <1>5, <1>6, <1>7, <2>8, <3>2 DEF Creates, MadeBy
        <4>2. JudgedFine(full) /\ full.create = with.create /\ full.known = with.known
          BY <1>2, <2>8, <4>1, TranslatorMade
        <4>3. by \in Int /\ Names(full.people, by, "translators")
          BY <1>2, <2>8, <4>1, TranslatorMade
        <4>4. \A r, x : Names(with.people, r, x) => Names(full.people, r, x)
          BY <1>2, <2>8, <4>1, TranslatorMade
        <4> QED BY <2>8, <2>11, <4>2, <4>3, <4>4
      <3> QED BY <3>1, <3>2
    <2>14. PICK new : new = [client |-> client, what |-> what, by |-> by]
      OBVIOUS
    <2>15. new \in JudgedOrders /\ new.client = client /\ new.by = by /\ KeyOf(new) = OrderKey(client, what)
      BY <1>2, <2>4, <2>13, <2>14 DEF JudgedOrders, KeyOf
    <2>16. KeyOf(new) \notin full.known
      BY <1>10, <2>13, <2>15 DEF OrderKnown
    <2>17. k = AcceptOrder(full, new)
      BY <1>8, <1>10, <2>14
    <2>18. JudgedFine(k)
      BY <1>1, <2>4, <2>13, <2>15, <2>16, <2>17, OrderTaken
    <2>19. k.create = full.create
      BY <2>13, <2>17 DEF AcceptOrder, JudgedFine, Judgements
    <2> QED BY <2>13, <2>18, <2>19
  <1> QED BY <1>9, <1>10

-----------------------------------------------------------------------------
(* Rows, sheets and workbooks. *)

RowFits(kind, line) == IF kind = "orders" THEN line \in OrderRows ELSE kind \in Kinds /\ line \in Rows

LEMMA JudgeRowKeeps ==
    ASSUME ImportAssumptions, PersonTyped, NEW j, JudgedFine(j), NEW kind, NEW line, RowFits(kind, line),
           kind = "translators" => ~Creates(j), NEW k, k = JudgeRow(j, kind, line)
    PROVE  JudgedFine(k) /\ k.create = j.create
  <1>1. CASE kind = "orders"
    BY <1>1, JudgeOrderKeeps DEF RowFits, JudgeRow
  <1>2. CASE kind = "clients"
    BY <1>2, JudgeClientKeeps DEF RowFits, JudgeRow
  <1>3. CASE kind = "translators"
    BY <1>3, JudgeTranslatorKeeps DEF RowFits, JudgeRow
  <1>4. CASE kind = "notaries"
    BY <1>4, JudgeNotaryKeeps DEF RowFits, JudgeRow
  <1> QED BY <1>1, <1>2, <1>3, <1>4 DEF RowFits, Kinds

IsSheetJudged(f, j, sheet, m) ==
    f = [n \in 0..m |-> IF n = 0 THEN j
                        ELSE IF sheet.rows[n] = Heading THEN f[n - 1]
                        ELSE JudgeRow(f[n - 1], sheet.kind, sheet.rows[n])]

LEMMA SheetJudgedExists ==
    ASSUME NEW j, NEW sheet, NEW m \in Nat
    PROVE  \E f : IsSheetJudged(f, j, sheet, m)
  <1> DEFINE Is(f, k) == IsSheetJudged(f, j, sheet, k)
  <1> USE DEF IsSheetJudged
  <1>1. PICK good : good = {k \in Nat : \E f : Is(f, k)}
    OBVIOUS
  <1>2. 0 \in good
    <2>1. PICK f : f = [n \in 0..0 |-> j]
      OBVIOUS
    <2>2. Is(f, 0)
      BY <2>1
    <2> QED BY <1>1, <2>2
  <1>3. ASSUME NEW k \in Nat, k \in good PROVE k + 1 \in good
    <2>1. PICK f : Is(f, k)
      BY <1>1, <1>3
    <2>2. PICK g : g = [n \in 0..k + 1 |-> IF n <= k THEN f[n]
                                           ELSE IF sheet.rows[n] = Heading THEN f[k]
                                           ELSE JudgeRow(f[k], sheet.kind, sheet.rows[n])]
      OBVIOUS
    <2>3. \A n \in 0..k : g[n] = f[n]
      BY <2>2
    <2>4. \A n \in 0..k + 1 : g[n] = IF n = 0 THEN j
                                     ELSE IF sheet.rows[n] = Heading THEN g[n - 1]
                                     ELSE JudgeRow(g[n - 1], sheet.kind, sheet.rows[n])
      <3> TAKE n \in 0..k + 1
      <3>1. CASE n <= k
        <4>1. n \in 0..k /\ g[n] = f[n] /\ (n # 0 => n - 1 \in 0..k /\ g[n - 1] = f[n - 1])
          BY <2>3, <3>1
        <4>2. f[n] = IF n = 0 THEN j
                     ELSE IF sheet.rows[n] = Heading THEN f[n - 1]
                     ELSE JudgeRow(f[n - 1], sheet.kind, sheet.rows[n])
          BY <2>1, <4>1
        <4> QED BY <4>1, <4>2
      <3>2. CASE n = k + 1
        <4>1. n - 1 = k /\ n # 0 /\ k \in 0..k
          BY <3>2
        <4>2. g[n - 1] = f[k]
          BY <2>3, <4>1
        <4>3. g[n] = IF sheet.rows[n] = Heading THEN f[k] ELSE JudgeRow(f[k], sheet.kind, sheet.rows[n])
          BY <2>2, <3>2
        <4> QED BY <4>1, <4>2, <4>3
      <3> QED BY <3>1, <3>2
    <2>5. Is(g, k + 1)
      BY <2>2, <2>4
    <2>6. \E e : Is(e, k + 1)
      BY <2>5
    <2> HIDE DEF Is
    <2> QED BY <1>1, <2>6
  <1>4. m \in good
    BY <1>2, <1>3, Upwards
  <1> HIDE DEF IsSheetJudged
  <1> QED
    BY <1>1, <1>4

SheetFits(sheet) ==
    \/ sheet.kind = "orders" /\ sheet.rows \in Seq(OrderRows \cup {Heading})
    \/ sheet.kind \in Kinds /\ sheet.rows \in Seq(Rows \cup {Heading})

LEMMA JudgeSheetKeeps ==
    ASSUME ImportAssumptions, PersonTyped, NEW j, JudgedFine(j), NEW sheet, SheetFits(sheet),
           sheet.kind = "translators" => ~Creates(j), NEW k, k = JudgeSheet(j, sheet)
    PROVE  JudgedFine(k) /\ k.create = j.create
  <1>1. PICK m : m = Len(sheet.rows) /\ m \in Nat /\ DOMAIN sheet.rows = 1..m
    BY DEF SheetFits
  <1>2. PICK f : f = CHOOSE g : IsSheetJudged(g, j, sheet, m)
    OBVIOUS
  <1>3. IsSheetJudged(f, j, sheet, m)
    BY <1>1, <1>2, SheetJudgedExists
  <1>4. k = f[m]
    BY <1>1, <1>2 DEF JudgeSheet, IsSheetJudged
  <1>5. PICK good : good = {n \in Nat : n <= m => JudgedFine(f[n]) /\ f[n].create = j.create}
    OBVIOUS
  <1>6. \A n \in 0..m : f[n] = IF n = 0 THEN j
                               ELSE IF sheet.rows[n] = Heading THEN f[n - 1]
                               ELSE JudgeRow(f[n - 1], sheet.kind, sheet.rows[n])
    BY <1>3 DEF IsSheetJudged
  <1>7. 0 \in good
    <2>1. PICK z : z = 0 /\ z \in 0..m
      BY <1>1
    <2>2. f[z] = j
      BY <1>6, <2>1
    <2> QED BY <1>5, <2>1, <2>2
  <1>8. ASSUME NEW n \in Nat, n \in good PROVE n + 1 \in good
    <2>1. SUFFICES ASSUME n + 1 <= m PROVE JudgedFine(f[n + 1]) /\ f[n + 1].create = j.create
      BY <1>5
    <2>2. PICK u, line, kind : u = f[n] /\ line = sheet.rows[n + 1] /\ kind = sheet.kind
      OBVIOUS
    <2>3. JudgedFine(u) /\ u.create = j.create
      BY <1>1, <1>5, <1>8, <2>1, <2>2
    <2>4. f[n + 1] = IF line = Heading THEN u ELSE JudgeRow(u, kind, line)
      <3>1. n + 1 \in 0..m /\ n + 1 # 0 /\ (n + 1) - 1 = n
        BY <1>1, <2>1
      <3> QED BY <1>6, <2>2, <3>1
    <2>5. CASE line = Heading
      BY <2>3, <2>4, <2>5
    <2>6. CASE line # Heading
      <3>1. RowFits(kind, line)
        <4>1. n + 1 \in DOMAIN sheet.rows
          BY <1>1, <2>1
        <4> QED BY <2>2, <2>6, <4>1 DEF SheetFits, RowFits, Kinds
      <3>2. kind = "translators" => ~Creates(u)
        BY <2>2, <2>3 DEF Creates
      <3>3. PICK v : v = f[n + 1] /\ v = JudgeRow(u, kind, line)
        BY <2>4, <2>6
      <3>4. JudgedFine(v) /\ v.create = u.create
        BY <2>3, <3>1, <3>2, <3>3, JudgeRowKeeps
      <3> QED BY <2>3, <3>3, <3>4
    <2> QED BY <2>5, <2>6
  <1>9. m \in good
    BY <1>1, <1>7, <1>8, Upwards
  <1> QED
    BY <1>1, <1>4, <1>5, <1>9

LEMMA WorkbookFits ==
    ASSUME ImportAssumptions, NEW f \in Workbooks, NEW i \in DOMAIN Workbook[f]
    PROVE  /\ Len(Workbook[f]) \in Nat /\ DOMAIN Workbook[f] = 1..Len(Workbook[f])
           /\ Workbook[f][i].kind = Absent \/ SheetFits(Workbook[f][i])
  <1>1. PICK s, sheets : s = Workbook[f][i] /\ sheets = Workbook[f]
    OBVIOUS
  <1>2. PICK shapes : /\ shapes = [kind : Kinds, rows : Seq(Rows \cup {Heading})]
                               \cup [kind : {"orders"}, rows : Seq(OrderRows \cup {Heading})]
                               \cup [kind : {Absent}, rows : Seq({Heading})]
                      /\ sheets \in Seq(shapes)
    BY <1>1 DEF ImportAssumptions
  <1>3. s \in shapes /\ Len(sheets) \in Nat /\ DOMAIN sheets = 1..Len(sheets)
    BY <1>1, <1>2
  <1>4. s.kind = Absent \/ SheetFits(s)
    BY <1>2, <1>3 DEF SheetFits
  <1> QED BY <1>1, <1>3, <1>4

IsKindJudged(g, j, kind, f, chosen, m) ==
    g = [i \in 0..m |-> IF i = 0 THEN j
                        ELSE IF i \in chosen /\ Workbook[f][i].kind = kind THEN JudgeSheet(g[i - 1], Workbook[f][i])
                        ELSE g[i - 1]]

LEMMA KindJudgedExists ==
    ASSUME NEW j, NEW kind, NEW f, NEW chosen, NEW m \in Nat
    PROVE  \E g : IsKindJudged(g, j, kind, f, chosen, m)
  <1> DEFINE Is(g, k) == IsKindJudged(g, j, kind, f, chosen, k)
  <1> USE DEF IsKindJudged
  <1>1. PICK good : good = {k \in Nat : \E g : Is(g, k)}
    OBVIOUS
  <1>2. 0 \in good
    <2>1. PICK g : g = [i \in 0..0 |-> j]
      OBVIOUS
    <2>2. Is(g, 0)
      BY <2>1
    <2> QED BY <1>1, <2>2
  <1>3. ASSUME NEW k \in Nat, k \in good PROVE k + 1 \in good
    <2>1. PICK g : Is(g, k)
      BY <1>1, <1>3
    <2>2. PICK h : h = [i \in 0..k + 1 |-> IF i <= k THEN g[i]
                                           ELSE IF i \in chosen /\ Workbook[f][i].kind = kind
                                                THEN JudgeSheet(g[k], Workbook[f][i])
                                           ELSE g[k]]
      OBVIOUS
    <2>3. \A i \in 0..k : h[i] = g[i]
      BY <2>2
    <2>4. \A i \in 0..k + 1 : h[i] = IF i = 0 THEN j
                                     ELSE IF i \in chosen /\ Workbook[f][i].kind = kind
                                          THEN JudgeSheet(h[i - 1], Workbook[f][i])
                                     ELSE h[i - 1]
      <3> TAKE i \in 0..k + 1
      <3>1. CASE i <= k
        <4>1. i \in 0..k /\ h[i] = g[i] /\ (i # 0 => i - 1 \in 0..k /\ h[i - 1] = g[i - 1])
          BY <2>3, <3>1
        <4>2. g[i] = IF i = 0 THEN j
                     ELSE IF i \in chosen /\ Workbook[f][i].kind = kind
                          THEN JudgeSheet(g[i - 1], Workbook[f][i])
                     ELSE g[i - 1]
          BY <2>1, <4>1
        <4> QED BY <4>1, <4>2
      <3>2. CASE i = k + 1
        <4>1. i - 1 = k /\ i # 0 /\ k \in 0..k
          BY <3>2
        <4>2. h[i - 1] = g[k]
          BY <2>3, <4>1
        <4>3. h[i] = IF i \in chosen /\ Workbook[f][i].kind = kind THEN JudgeSheet(g[k], Workbook[f][i]) ELSE g[k]
          BY <2>2, <3>2
        <4> QED BY <4>1, <4>2, <4>3
      <3> QED BY <3>1, <3>2
    <2>5. Is(h, k + 1)
      BY <2>2, <2>4
    <2>6. \E e : Is(e, k + 1)
      BY <2>5
    <2> HIDE DEF Is
    <2> QED BY <1>1, <2>6
  <1>4. m \in good
    BY <1>2, <1>3, Upwards
  <1> HIDE DEF IsKindJudged
  <1> QED
    BY <1>1, <1>4

KindOfSheet(f, i) == Workbook[f][i].kind

LEMMA JudgeKindKeeps ==
    ASSUME ImportAssumptions, PersonTyped, NEW j, JudgedFine(j), NEW kind, kind # Absent, NEW f \in Workbooks,
           NEW chosen, chosen \subseteq DOMAIN Workbook[f],
           kind = "translators" /\ (\E i \in chosen : KindOfSheet(f, i) = kind) => ~Creates(j),
           NEW k, k = JudgeKind(j, kind, f, chosen)
    PROVE  JudgedFine(k) /\ k.create = j.create
  <1>1. PICK m : m = Len(Workbook[f]) /\ m \in Nat /\ DOMAIN Workbook[f] = 1..m
    <2>1. PICK sheets, shapes : sheets = Workbook[f] /\ sheets \in Seq(shapes)
      BY DEF ImportAssumptions
    <2> QED BY <2>1
  <1>2. PICK g : g = CHOOSE h : IsKindJudged(h, j, kind, f, chosen, m)
    OBVIOUS
  <1>3. IsKindJudged(g, j, kind, f, chosen, m)
    BY <1>1, <1>2, KindJudgedExists
  <1>4. k = g[m]
    BY <1>1, <1>2 DEF JudgeKind, IsKindJudged
  <1>5. PICK good : good = {n \in Nat : n <= m => JudgedFine(g[n]) /\ g[n].create = j.create}
    OBVIOUS
  <1>6. \A i \in 0..m : g[i] = IF i = 0 THEN j
                               ELSE IF i \in chosen /\ KindOfSheet(f, i) = kind
                                    THEN JudgeSheet(g[i - 1], Workbook[f][i])
                               ELSE g[i - 1]
    BY <1>3 DEF IsKindJudged, KindOfSheet
  <1>7. 0 \in good
    <2>1. PICK z : z = 0 /\ z \in 0..m
      BY <1>1
    <2>2. g[z] = j
      BY <1>6, <2>1
    <2> QED BY <1>5, <2>1, <2>2
  <1>8. ASSUME NEW n \in Nat, n \in good PROVE n + 1 \in good
    <2>1. SUFFICES ASSUME n + 1 <= m PROVE JudgedFine(g[n + 1]) /\ g[n + 1].create = j.create
      BY <1>5
    <2>2. PICK u, sheet, i : u = g[n] /\ i = n + 1 /\ sheet = Workbook[f][i]
      OBVIOUS
    <2>3. JudgedFine(u) /\ u.create = j.create
      BY <1>1, <1>5, <1>8, <2>1, <2>2
    <2>4. g[i] = IF i \in chosen /\ sheet.kind = kind THEN JudgeSheet(u, sheet) ELSE u
      <3>1. i \in 0..m /\ i # 0 /\ i - 1 = n
        BY <1>1, <2>1, <2>2
      <3> QED BY <1>6, <2>2, <3>1 DEF KindOfSheet
    <2>5. CASE ~(i \in chosen /\ sheet.kind = kind)
      BY <2>2, <2>3, <2>4, <2>5
    <2>6. CASE i \in chosen /\ sheet.kind = kind
      <3>1. SheetFits(sheet)
        <4>1. i \in DOMAIN Workbook[f]
          BY <2>6
        <4> QED BY <2>2, <2>6, <4>1, WorkbookFits
      <3>2. sheet.kind = "translators" => ~Creates(u)
        BY <2>2, <2>3, <2>6 DEF Creates, KindOfSheet
      <3>3. PICK v : v = g[i] /\ v = JudgeSheet(u, sheet)
        BY <2>4, <2>6
      <3>4. JudgedFine(v) /\ v.create = u.create
        BY <2>3, <3>1, <3>2, <3>3, JudgeSheetKeeps
      <3> QED BY <2>2, <2>3, <3>3, <3>4
    <2> QED BY <2>5, <2>6
  <1>9. m \in good
    BY <1>1, <1>7, <1>8, Upwards
  <1> QED
    BY <1>1, <1>4, <1>5, <1>9

-----------------------------------------------------------------------------
(* What a judgement begins with. *)

OrdersTyped == \A o \in OrderIds : Standing(o) => order[o].client \in Int /\ order[o].what \in Matters

LEMMA ListedIs ==
    ASSUME ImportAssumptions, PersonTyped, NEW who, who \subseteq People, NEW kind \in Kinds,
           \A p \in who : person[p].kind = kind, NEW list, list = Listed(who)
    PROVE  /\ list \in Seq(Entries) /\ \A people : ListFine(people, list, kind)
           /\ \A p \in who : OnList(list, person[p])
  <1>1. DOMAIN list = People /\ People = 1..MaxPeople /\ MaxPeople \in Nat
    BY DEF Listed, People, ImportAssumptions
  <1>2. \A p \in who : person[p] \in PersonRows
    BY DEF PersonTyped, Nobody, Kinds
  <1>3. ASSUME NEW p \in People
        PROVE  /\ list[p] \in Entries
               /\ p \in who => list[p].ref = p /\ list[p].name = person[p].name /\ list[p].phone = person[p].phone
               /\ p \notin who => list[p].ref = 0 /\ list[p].name = Absent /\ list[p].phone = Absent
    <2>1. list[p] = IF p \in who THEN [ref |-> p, name |-> person[p].name, phone |-> person[p].phone]
                    ELSE [ref |-> 0, name |-> Absent, phone |-> Absent]
      BY DEF Listed
    <2>2. p \in Int
      BY <1>1
    <2>3. CASE p \in who
      <3>1. person[p].name \in Texts /\ person[p].phone \in Texts
        BY <1>2, <2>3 DEF PersonRows, Texts
      <3> QED BY <2>1, <2>2, <2>3, <3>1 DEF Entries
    <2>4. CASE p \notin who
      BY <2>1, <2>4 DEF Entries, Texts
    <2> QED BY <2>3, <2>4
  <1>4. list \in Seq(Entries)
    <2>1. list = [p \in 1..MaxPeople |-> list[p]]
      BY <1>1 DEF Listed
    <2> QED BY <1>1, <1>3, <2>1
  <1>5. ASSUME NEW people PROVE ListFine(people, list, kind)
    <2>1. \A p \in who : p \in People /\ p # 0 /\ Names(people, p, kind)
      BY <1>1 DEF Names
    <2> QED BY <1>1, <1>3, <2>1 DEF ListFine
  <1>6. ASSUME NEW p \in who PROVE OnList(list, person[p])
    BY <1>1, <1>3 DEF OnList
  <1> QED BY <1>4, <1>5, <1>6

LEMMA BlankIsFine ==
    ASSUME ImportAssumptions, PersonTyped, OrdersTyped, NEW kinds, NEW combined \in BOOLEAN,
           NEW j, j = Blank(kinds, combined)
    PROVE  JudgedFine(j) /\ j.create = (combined /\ "translators" \notin kinds)
  <1>1. PICK seen : /\ seen = [k \in Kinds |-> Listed({p \in People : person[p].kind = k})]
    OBVIOUS
  <1>2. PICK active, named : /\ active = {p \in People : person[p].kind = "translators" /\ person[p].active}
                             /\ named = Listed(active)
    OBVIOUS
  <1>3. PICK known : known = {OrderKey(order[o].client, order[o].what) : o \in {x \in OrderIds : order[x] # NoOrder}}
    OBVIOUS
  <1>4. PICK create : create = (combined /\ "translators" \notin kinds) /\ create \in BOOLEAN
    OBVIOUS
  <1>5. PICK none : none = <<>> /\ none \in Seq(PersonRows) /\ none \in Seq(JudgedOrders) /\ DOMAIN none = {}
    <2>1. <<>> \in Seq(PersonRows) /\ <<>> \in Seq(JudgedOrders)
      OBVIOUS
    <2>2. DOMAIN <<>> = {}
      OBVIOUS
    <2> QED BY <2>1, <2>2
  <1>6. j = [seen |-> seen, named |-> named, known |-> known, create |-> create, refs |-> combined,
             people |-> none, orders |-> none]
    BY <1>1, <1>2, <1>3, <1>4, <1>5 DEF Blank
  <1>7. ASSUME NEW k \in Kinds
        PROVE  /\ seen[k] \in Seq(Entries) /\ ListFine(none, seen[k], k)
               /\ \A p \in People : person[p].kind = k => OnList(seen[k], person[p])
    <2>1. PICK who, list : who = {p \in People : person[p].kind = k} /\ list = Listed(who)
      OBVIOUS
    <2>2. seen[k] = list /\ who \subseteq People /\ \A p \in who : person[p].kind = k
      BY <1>1, <2>1
    <2>3. list \in Seq(Entries) /\ ListFine(none, list, k) /\ \A p \in who : OnList(list, person[p])
      BY <2>1, <2>2, ListedIs
    <2> QED BY <2>1, <2>2, <2>3
  <1>8. /\ named \in Seq(Entries) /\ ListFine(none, named, "translators")
        /\ \A p \in active : OnList(named, person[p])
    <2>1. PICK t : t = "translators" /\ t \in Kinds
      BY DEF Kinds
    <2>2. active \subseteq People /\ \A p \in active : person[p].kind = t
      BY <1>2, <2>1
    <2> QED BY <1>2, <2>1, <2>2, ListedIs
  <1>9. known \in SUBSET (Int \X Matters)
    BY <1>3 DEF OrdersTyped, Standing, OrderKey
  <1>10. /\ j.seen = seen /\ j.named = named /\ j.known = known /\ j.create = create
         /\ j.people = none /\ j.orders = none
    BY <1>6
  <1>11. j \in Judgements
    <2>1. seen \in [Kinds -> Seq(Entries)]
      BY <1>1, <1>7
    <2> QED BY <1>4, <1>5, <1>6, <1>8, <1>9, <2>1 DEF Judgements
  <1>12. ListsFine(j)
    BY <1>7, <1>8, <1>10 DEF ListsFine
  <1>13. OrdersRefer(j) /\ PeopleNew(j)
    BY <1>5, <1>10 DEF OrdersRefer, PeopleNew
  <1>14. OrdersKnown(j)
    BY <1>3, <1>5, <1>10 DEF OrdersKnown, KeyOf, Standing
  <1>15. PeopleSeen(j)
    <2>1. ASSUME NEW p \in People, person[p].kind \in Kinds /\ person[p].active
          PROVE  OnList(Watched(j, person[p].kind), person[p])
      BY <1>2, <1>7, <1>8, <1>10, <2>1 DEF Watched
    <2> QED BY <1>5, <1>10, <2>1 DEF PeopleSeen
  <1> QED
    BY <1>4, <1>10, <1>11, <1>12, <1>13, <1>14, <1>15 DEF JudgedFine

LEMMA WorkbookJudged ==
    ASSUME ImportAssumptions, PersonTyped, OrdersTyped, NEW f \in Workbooks,
           NEW chosen, chosen \subseteq DOMAIN Workbook[f], NEW j, j = JudgeWorkbook(f, chosen)
    PROVE  JudgedFine(j)
  <1>1. PICK kinds, combined : kinds = {Workbook[f][i].kind : i \in chosen} /\ combined = Combined(f)
    OBVIOUS
  <1>2. PICK none : none = Blank(kinds, combined)
    OBVIOUS
  <1>3. combined \in BOOLEAN
    BY <1>1 DEF Combined
  <1>4. JudgedFine(none) /\ none.create = (combined /\ "translators" \notin kinds)
    BY <1>2, <1>3, BlankIsFine
  <1>5. \A i \in chosen : KindOfSheet(f, i) \in kinds
    BY <1>1 DEF KindOfSheet
  <1>6. "notaries" # Absent /\ "translators" # Absent /\ "clients" # Absent /\ "orders" # Absent
    <2>1. Absent \notin Kinds \cup {"orders"}
      BY DEF ImportAssumptions
    <2> QED BY <2>1 DEF Kinds
  <1>7. PICK notaries : notaries = JudgeKind(none, "notaries", f, chosen)
    OBVIOUS
  <1>8. JudgedFine(notaries) /\ notaries.create = none.create
    <2>1. PICK kind :
            /\ kind = "notaries" /\ kind # Absent /\ kind # "translators"
            /\ notaries = JudgeKind(none, kind, f, chosen)
      BY <1>6, <1>7
    <2> QED BY <1>4, <2>1, JudgeKindKeeps
  <1>9. PICK translators : translators = JudgeKind(notaries, "translators", f, chosen)
    OBVIOUS
  <1>10. JudgedFine(translators)
    <2>1. PICK kind : kind = "translators" /\ kind # Absent /\ translators = JudgeKind(notaries, kind, f, chosen)
      BY <1>6, <1>9
    <2>2. (\E i \in chosen : KindOfSheet(f, i) = kind) => ~Creates(notaries)
      BY <1>4, <1>5, <1>8, <2>1 DEF Creates
    <2> QED BY <1>8, <2>1, <2>2, JudgeKindKeeps
  <1>11. PICK clients : clients = JudgeKind(translators, "clients", f, chosen)
    OBVIOUS
  <1>12. JudgedFine(clients)
    <2>1. PICK kind :
            /\ kind = "clients" /\ kind # Absent /\ kind # "translators"
            /\ clients = JudgeKind(translators, kind, f, chosen)
      BY <1>6, <1>11
    <2> QED BY <1>10, <2>1, JudgeKindKeeps
  <1>13. j = JudgeKind(clients, "orders", f, chosen)
    BY <1>1, <1>2, <1>7, <1>9, <1>11 DEF JudgeWorkbook
  <1>14. PICK kind : kind = "orders" /\ kind # Absent /\ kind # "translators" /\ j = JudgeKind(clients, kind, f, chosen)
    BY <1>6, <1>13
  <1> QED
    BY <1>12, <1>14, JudgeKindKeeps

-----------------------------------------------------------------------------
(* The inductive invariant. *)

OrderShapes == [client : People, what : Matters, by : Int, batch : Nat]

BatchShapes == [file : Workbooks, people : SUBSET People, orders : SUBSET OrderIds, undone : BOOLEAN]

(* Ids are given out upwards, and never again. *)
PeopleFine ==
    /\ PersonTyped
    /\ made \in [people : 0..MaxPeople, orders : 0..MaxOrders]
    /\ \A p \in People : p > made.people => person[p] = Nobody

OrdersFine ==
    /\ order \in [OrderIds -> OrderShapes \cup {NoOrder}]
    /\ \A o \in OrderIds : o > made.orders => order[o] = NoOrder

ClientsExist == \A o \in OrderIds : Standing(o) => person[order[o].client].kind = "clients"

BatchesFine ==
    batches \in Seq(BatchShapes) /\ attached \subseteq OrderIds \X Attachments /\ overlapped \in BOOLEAN

(* A client a request relies on is one it makes, or one there was: he may be gone by now. *)
Relied(d, ref) ==
    \/ ref \in People /\ ref <= made.people /\ (person[ref] = Nobody \/ person[ref].kind = "clients")
    \/ -ref \in DOMAIN d.people /\ d.people[-ref].kind = "clients"

SaveFine(d) ==
    /\ d.file \in Workbooks /\ d.people \in Seq(PersonRows) /\ d.orders \in Seq(JudgedOrders)
    /\ \A i \in DOMAIN d.orders : d.orders[i].client # 0 /\ Relied(d, d.orders[i].client)

DesksFine ==
    /\ DOMAIN desk = Importers
    /\ \A c \in Importers :
          \/ desk[c] = Idle
          \/ desk[c].op = "save" /\ SaveFine(desk[c])
          \/ desk[c].op = "undo" /\ desk[c].batch \in DOMAIN batches

Alone == ~overlapped => \A b, c \in Importers : desk[b] # Idle /\ desk[c] # Idle => b = c

(* What a request has decided to save is new. *)
Fresh(d) ==
    /\ PeopleNew(d)
    /\ \A i \in DOMAIN d.orders : \A o \in OrderIds : Standing(o) => KeyOf(order[o]) # KeyOf(d.orders[i])
    /\ \A i, k \in DOMAIN d.orders : i # k => KeyOf(d.orders[i]) # KeyOf(d.orders[k])

(* As long as it is alone, what a request has decided still holds. *)
Undisturbed ==
    ~overlapped => \A c \in Importers :
        /\ desk[c].op = "save" => Fresh(desk[c])
        /\ desk[c].op = "undo" => OrdersUndoable(desk[c].batch) /\ PeopleUndoable(desk[c].batch)

ImportInv ==
    /\ PeopleFine /\ OrdersFine /\ ClientsExist /\ BatchesFine
    /\ DesksFine /\ Alone /\ Undisturbed /\ NothingTwice

LEMMA Apartness ==
    NothingTwice <=>
        (~overlapped =>
            /\ \A p, q \in People : p # q /\ person[p] # Nobody /\ person[q] # Nobody => Apart(person[p], person[q])
            /\ \A o, x \in OrderIds : o # x /\ Standing(o) /\ Standing(x) =>
                 order[o].batch = 0 \/ order[x].batch = 0 \/ KeyOf(order[o]) # KeyOf(order[x]))
  BY DEF NothingTwice, Apart, KeyOf

LEMMA ApartnessNext ==
    NothingTwice' <=>
        (~overlapped' =>
            /\ \A p, q \in People : p # q /\ person'[p] # Nobody /\ person'[q] # Nobody => Apart(person'[p], person'[q])
            /\ \A o, x \in OrderIds : o # x /\ Standing(o)' /\ Standing(x)' =>
                 order'[o].batch = 0 \/ order'[x].batch = 0 \/ KeyOf(order'[o]) # KeyOf(order'[x]))
  BY DEF NothingTwice, Apart, KeyOf, Standing

LEMMA NobodyIs == Nobody \notin PersonRows /\ Nobody.kind \notin Kinds /\ \A k \in Kinds : Nobody.kind # k
  BY DEF Nobody, PersonRows, Kinds

LEMMA IdleIs == Idle.op = "idle" /\ Idle.op # "save" /\ Idle.op # "undo"
  BY DEF Idle

LEMMA NoOrderIs == NoOrder \notin OrderShapes
  BY DEF NoOrder, OrderShapes

LEMMA DesksFineNext ==
    ASSUME DOMAIN desk' = Importers,
           \A c \in Importers : \A e : e = desk'[c] =>
               e = Idle \/ (e.op = "save" /\ SaveFine(e)') \/ (e.op = "undo" /\ e.batch \in DOMAIN batches')
    PROVE  DesksFine'
  BY DEF DesksFine, SaveFine, Relied

LEMMA UndisturbedNext ==
    ASSUME ~overlapped' => \A c \in Importers : \A e : e = desk'[c] =>
               /\ e.op = "save" => Fresh(e)'
               /\ e.op = "undo" => OrdersUndoable(e.batch)' /\ PeopleUndoable(e.batch)'
    PROVE  Undisturbed'
  BY DEF Undisturbed, Fresh, PeopleNew, OrdersUndoable, PeopleUndoable, UsedElsewhere, KeepsClients, Standing

(* A request that begins, or ends: unless it met another, the others are idle. *)
LEMMA OneRequest ==
    ASSUME ImportInv, NEW c \in Importers, NEW d, desk' = [desk EXCEPT ![c] = d],
           overlapped' = (overlapped \/ InFlight(c))
    PROVE  /\ Alone' /\ overlapped' \in BOOLEAN /\ (overlapped => overlapped')
           /\ DOMAIN desk' = Importers /\ desk'[c] = d
           /\ \A b \in Importers : b # c => desk'[b] = desk[b]
           /\ ~overlapped' => \A b \in Importers : b # c => desk[b] = Idle
  <1>1. DOMAIN desk = Importers /\ overlapped \in BOOLEAN
    BY DEF ImportInv, DesksFine, BatchesFine
  <1>2. DOMAIN desk' = Importers /\ desk'[c] = d /\ \A b \in Importers : b # c => desk'[b] = desk[b]
    BY <1>1
  <1>3. ~overlapped' => \A b \in Importers : b # c => desk[b] = Idle
    BY DEF InFlight
  <1> QED
    BY <1>1, <1>2, <1>3 DEF Alone

(* Staff at work: unless they met a request, every one is idle. *)
LEMMA StaffAtWork ==
    ASSUME ImportInv, StaffStep
    PROVE  /\ desk' = desk /\ batches' = batches /\ overlapped' \in BOOLEAN /\ (overlapped => overlapped')
           /\ Alone' /\ Undisturbed'
           /\ ~overlapped' => \A c \in Importers : desk[c] = Idle
  <1>1. desk' = desk /\ batches' = batches /\ overlapped' = (overlapped \/ \E c \in Importers : desk[c] # Idle)
    BY DEF StaffStep
  <1>2. ~overlapped' => \A c \in Importers : desk[c] = Idle
    BY <1>1
  <1>3. Alone'
    BY <1>1, <1>2 DEF Alone
  <1>4. Undisturbed'
    BY <1>1, <1>2, IdleIs DEF Undisturbed
  <1> QED
    BY <1>1, <1>2, <1>3, <1>4 DEF ImportInv, BatchesFine

LEMMA AttachKeeps ==
    ASSUME ImportInv, NEW o \in OrderIds, NEW what \in Attachments, Attach(o, what)
    PROVE  ImportInv'
  <1>1. /\ desk' = desk /\ batches' = batches /\ person' = person /\ order' = order /\ made' = made
        /\ attached' = attached \cup {<<o, what>>}
        /\ overlapped' \in BOOLEAN /\ (overlapped => overlapped') /\ Alone' /\ Undisturbed'
    BY StaffAtWork DEF Attach
  <1>2. PeopleFine' /\ OrdersFine' /\ ClientsExist'
    BY <1>1 DEF ImportInv, PeopleFine, PersonTyped, OrdersFine, ClientsExist, Standing
  <1>3. BatchesFine'
    BY <1>1 DEF ImportInv, BatchesFine
  <1>4. DesksFine'
    BY <1>1 DEF ImportInv, DesksFine, SaveFine, Relied
  <1>5. NothingTwice'
    BY <1>1 DEF ImportInv, NothingTwice, Standing
  <1> QED
    BY <1>1, <1>2, <1>3, <1>4, <1>5 DEF ImportInv

LEMMA AssignKeeps ==
    ASSUME ImportInv, NEW o \in OrderIds, NEW t \in People, Assign(o, t)
    PROVE  ImportInv'
  <1>1. /\ desk' = desk /\ batches' = batches /\ person' = person /\ made' = made /\ attached' = attached
        /\ order' = [order EXCEPT ![o].by = t] /\ Standing(o)
        /\ overlapped' \in BOOLEAN /\ (overlapped => overlapped') /\ Alone' /\ Undisturbed'
    BY StaffAtWork DEF Assign
  <1>2. /\ order \in [OrderIds -> OrderShapes \cup {NoOrder}] /\ t \in Int
        /\ order[o] \in OrderShapes
    BY <1>1 DEF ImportInv, OrdersFine, People, Standing
  <1>3. PICK line : line = [order[o] EXCEPT !.by = t]
    OBVIOUS
  <1>4. /\ line \in OrderShapes /\ line # NoOrder /\ KeyOf(line) = KeyOf(order[o])
        /\ line.client = order[o].client /\ line.batch = order[o].batch
    BY <1>2, <1>3, NoOrderIs DEF OrderShapes, KeyOf
  <1>5. /\ order' \in [OrderIds -> OrderShapes \cup {NoOrder}]
        /\ order'[o] = line /\ \A x \in OrderIds : x # o => order'[x] = order[x]
    BY <1>1, <1>2, <1>3, <1>4
  <1>6. /\ \A x \in OrderIds : Standing(x)' <=> Standing(x)
        /\ \A x \in OrderIds : Standing(x) => /\ order'[x].client = order[x].client
                                              /\ order'[x].batch = order[x].batch
                                              /\ KeyOf(order'[x]) = KeyOf(order[x])
    BY <1>1, <1>4, <1>5 DEF Standing
  <1>7. PeopleFine'
    BY <1>1 DEF ImportInv, PeopleFine, PersonTyped
  <1>8. OrdersFine'
    BY <1>1, <1>5, <1>6 DEF ImportInv, OrdersFine, Standing
  <1>9. ClientsExist'
    BY <1>1, <1>6 DEF ImportInv, ClientsExist
  <1>10. BatchesFine'
    BY <1>1 DEF ImportInv, BatchesFine
  <1>11. DesksFine'
    BY <1>1 DEF ImportInv, DesksFine, SaveFine, Relied
  <1>12. NothingTwice'
    BY <1>1, <1>6, Apartness, ApartnessNext DEF ImportInv
  <1> QED
    BY <1>1, <1>7, <1>8, <1>9, <1>10, <1>11, <1>12 DEF ImportInv

LEMMA OrderForKeeps ==
    ASSUME ImportAssumptions, ImportInv, NEW client \in People, OrderFor(client)
    PROVE  ImportInv'
  <1>1. PICK o, line : o = made.orders + 1 /\ line = [client |-> client, what |-> "by hand", by |-> 0, batch |-> 0]
    OBVIOUS
  <1>2. /\ desk' = desk /\ batches' = batches /\ person' = person /\ attached' = attached
        /\ person[client].kind = "clients" /\ made.orders < MaxOrders
        /\ order' = [order EXCEPT ![o] = line] /\ made' = [made EXCEPT !.orders = made.orders + 1]
        /\ overlapped' \in BOOLEAN /\ (overlapped => overlapped') /\ Alone' /\ Undisturbed'
    BY <1>1, StaffAtWork DEF OrderFor
  <1>3. /\ order \in [OrderIds -> OrderShapes \cup {NoOrder}] /\ MaxOrders \in Nat /\ MaxPeople \in Nat
        /\ made \in [people : 0..MaxPeople, orders : 0..MaxOrders]
    BY DEF ImportInv, OrdersFine, PeopleFine, ImportAssumptions
  <1>4. /\ o \in OrderIds /\ order[o] = NoOrder /\ made'.orders = o /\ made'.people = made.people
        /\ made' \in [people : 0..MaxPeople, orders : 0..MaxOrders] /\ made.orders < o
    <2>1. PICK n, all : n = made.orders /\ all = made.people /\ n \in 0..MaxOrders /\ all \in 0..MaxPeople
      BY <1>3
    <2>2. o = n + 1 /\ o \in OrderIds /\ n < o
      <3>1. n < MaxOrders /\ MaxOrders \in Nat /\ n \in Nat /\ o = n + 1
        <4>1. made.orders < MaxOrders
          BY DEF OrderFor
        <4>2. MaxOrders \in Nat
          BY <1>3
        <4>3. n < MaxOrders
          BY <2>1, <4>1
        <4>4. n \in Nat
          BY <2>1, <4>2
        <4>5. o = n + 1
          BY <1>1, <2>1
        <4> QED BY <4>2, <4>3, <4>4, <4>5
      <3> QED BY <3>1 DEF OrderIds
    <2>3. made' = [people |-> all, orders |-> o]
      BY <1>1, <1>2, <1>3, <2>1
    <2>4. o \in 0..MaxOrders
      BY <2>2 DEF OrderIds
    <2>5. order[o] = NoOrder
      BY <2>1, <2>2 DEF ImportInv, OrdersFine, OrderIds
    <2> QED BY <2>1, <2>2, <2>3, <2>4, <2>5
  <1>5. line \in OrderShapes /\ line # NoOrder /\ line.client = client /\ line.batch = 0
    <2>1. line \in OrderShapes
      <3>1. "by hand" \in Matters
        BY DEF Matters
      <3>2. PICK what \in Matters, none \in Nat : line = [client |-> client, what |-> what, by |-> none, batch |-> none]
        BY <1>1, <3>1
      <3> QED BY <3>2 DEF OrderShapes
    <2> QED BY <1>1, <2>1, NoOrderIs
  <1>6. /\ order' \in [OrderIds -> OrderShapes \cup {NoOrder}]
        /\ order'[o] = line /\ \A x \in OrderIds : x # o => order'[x] = order[x]
    BY <1>2, <1>3, <1>4, <1>5
  <1>7. \A x \in OrderIds : Standing(x)' <=> (x = o \/ Standing(x))
    BY <1>4, <1>5, <1>6 DEF Standing
  <1>8. PeopleFine'
    BY <1>2, <1>4 DEF ImportInv, PeopleFine, PersonTyped
  <1>9. OrdersFine'
    <2>1. \A x \in OrderIds : x > made'.orders => x # o /\ x > made.orders
      <3>1. PICK n : n = made.orders /\ n \in Int /\ made'.orders = o /\ n < o /\ o \in Int
        BY <1>3, <1>4 DEF OrderIds
      <3> QED BY <3>1 DEF OrderIds
    <2> QED BY <1>6, <2>1 DEF ImportInv, OrdersFine
  <1>10. ClientsExist'
    <2>1. ASSUME NEW x \in OrderIds, Standing(x)' PROVE person'[order'[x].client].kind = "clients"
      BY <1>2, <1>5, <1>6, <1>7, <2>1 DEF ImportInv, ClientsExist
    <2> QED BY <2>1 DEF ClientsExist
  <1>11. BatchesFine'
    BY <1>2 DEF ImportInv, BatchesFine
  <1>12. DesksFine'
    BY <1>2, <1>4 DEF ImportInv, DesksFine, SaveFine, Relied
  <1>13. NothingTwice'
    BY <1>2, <1>5, <1>6, <1>7, Apartness, ApartnessNext DEF ImportInv
  <1> QED
    BY <1>2, <1>8, <1>9, <1>10, <1>11, <1>12, <1>13 DEF ImportInv

LEMMA DeactivateKeeps ==
    ASSUME ImportInv, NEW t \in People, Deactivate(t)
    PROVE  ImportInv'
  <1>1. PICK line : line = [person[t] EXCEPT !.active = FALSE]
    OBVIOUS
  <1>2. /\ desk' = desk /\ batches' = batches /\ order' = order /\ attached' = attached /\ made' = made
        /\ person[t].kind = "translators" /\ person' = [person EXCEPT ![t] = line]
        /\ overlapped' \in BOOLEAN /\ (overlapped => overlapped') /\ Alone' /\ Undisturbed'
    BY <1>1, StaffAtWork DEF Deactivate
  <1>3. person \in [People -> PersonRows \cup {Nobody}] /\ person[t] \in PersonRows /\ person[t] # Nobody
    BY <1>2, NobodyIs DEF ImportInv, PeopleFine, PersonTyped, Nobody
  <1>4. /\ line \in PersonRows /\ line # Nobody /\ line.kind = person[t].kind /\ ~line.active
        /\ line.name = person[t].name /\ line.phone = person[t].phone
    BY <1>1, <1>3, NobodyIs DEF PersonRows
  <1>5. /\ person' \in [People -> PersonRows \cup {Nobody}]
        /\ person'[t] = line /\ \A p \in People : p # t => person'[p] = person[p]
    BY <1>2, <1>3, <1>4
  <1>6. \A p \in People : person'[p].kind = person[p].kind /\ (person'[p] = Nobody <=> person[p] = Nobody)
    BY <1>3, <1>4, <1>5
  <1>7. PeopleFine'
    BY <1>2, <1>5, <1>6 DEF ImportInv, PeopleFine, PersonTyped
  <1>8. OrdersFine'
    BY <1>2 DEF ImportInv, OrdersFine
  <1>9. ClientsExist'
    <2>1. ASSUME NEW x \in OrderIds, Standing(x) PROVE order[x].client \in People
      BY <2>1 DEF ImportInv, OrdersFine, OrderShapes, Standing
    <2> QED BY <1>2, <1>6, <2>1 DEF ImportInv, ClientsExist, Standing
  <1>10. BatchesFine'
    BY <1>2 DEF ImportInv, BatchesFine
  <1>11. DesksFine'
    BY <1>2, <1>6 DEF ImportInv, DesksFine, SaveFine, Relied
  <1>12. NothingTwice'
    <2>1. ASSUME NEW p \in People, NEW q \in People, Apart(person[p], person[q]) PROVE Apart(person'[p], person'[q])
      BY <1>4, <1>5, <2>1 DEF Apart
    <2>2. \A x \in OrderIds : Standing(x)' <=> Standing(x)
      BY <1>2 DEF Standing
    <2> QED BY <1>2, <1>6, <2>1, <2>2, Apartness, ApartnessNext DEF ImportInv
  <1> QED
    BY <1>2, <1>7, <1>8, <1>9, <1>10, <1>11, <1>12 DEF ImportInv

LEMMA BeginKeeps ==
    ASSUME ImportAssumptions, ImportInv, NEW c \in Importers, NEW f \in Workbooks,
           NEW chosen, chosen \subseteq DOMAIN Workbook[f], Begin(c, f, chosen)
    PROVE  ImportInv'
  <1>1. PICK j : j = JudgeWorkbook(f, chosen)
    OBVIOUS
  <1>2. PICK d : d = [op |-> "save", file |-> f, people |-> j.people, orders |-> j.orders]
    OBVIOUS
  <1>3. /\ desk' = [desk EXCEPT ![c] = d] /\ overlapped' = (overlapped \/ InFlight(c))
        /\ person' = person /\ order' = order /\ attached' = attached /\ batches' = batches /\ made' = made
    BY <1>1, <1>2 DEF Begin
  <1>4. /\ Alone' /\ overlapped' \in BOOLEAN /\ (overlapped => overlapped')
        /\ DOMAIN desk' = Importers /\ desk'[c] = d
        /\ \A b \in Importers : b # c => desk'[b] = desk[b]
        /\ ~overlapped' => \A b \in Importers : b # c => desk[b] = Idle
    BY <1>3, OneRequest
  <1>5. JudgedFine(j)
    <2>1. PersonTyped
      BY DEF ImportInv, PeopleFine
    <2>2. OrdersTyped
      BY DEF ImportInv, OrdersFine, OrdersTyped, OrderShapes, Standing, People
    <2> QED BY <1>1, <2>1, <2>2, WorkbookJudged
  <1>6. /\ d.op = "save" /\ d.file = f /\ d.people = j.people /\ d.orders = j.orders
        /\ d.people \in Seq(PersonRows) /\ d.orders \in Seq(JudgedOrders)
    <2>1. j.people \in Seq(PersonRows) /\ j.orders \in Seq(JudgedOrders)
      BY <1>5 DEF JudgedFine, Judgements
    <2> QED BY <1>2, <2>1
  <1>7. SaveFine(d)
    <2>1. ASSUME NEW ref, Names(d.people, ref, "clients") PROVE Relied(d, ref)
      <3>1. CASE -ref \in DOMAIN d.people /\ d.people[-ref].kind = "clients"
        BY <3>1 DEF Relied
      <3>2. CASE ref \in People /\ person[ref].kind = "clients"
        <4>1. person[ref] # Nobody
          BY <3>2, NobodyIs DEF Kinds
        <4>2. ~(ref > made.people)
          BY <3>2, <4>1 DEF ImportInv, PeopleFine
        <4>3. made.people \in Int /\ ref \in Int
          BY <3>2 DEF ImportInv, PeopleFine, People
        <4>4. ref <= made.people
          BY <4>2, <4>3
        <4> QED BY <3>2, <4>4 DEF Relied
      <3> QED BY <2>1, <3>1, <3>2 DEF Names
    <2>2. \A i \in DOMAIN d.orders : d.orders[i].client # 0 /\ Names(d.people, d.orders[i].client, "clients")
      BY <1>5, <1>6 DEF JudgedFine, OrdersRefer
    <2> QED BY <1>6, <2>1, <2>2 DEF SaveFine
  <1>8. Fresh(d)
    <2>1. PeopleNew(d)
      BY <1>5, <1>6 DEF JudgedFine, PeopleNew
    <2>2. /\ \A i \in DOMAIN d.orders : \A o \in OrderIds : Standing(o) => KeyOf(order[o]) # KeyOf(d.orders[i])
          /\ \A i, k \in DOMAIN d.orders : i # k => KeyOf(d.orders[i]) # KeyOf(d.orders[k])
      BY <1>5, <1>6 DEF JudgedFine, OrdersKnown
    <2> QED BY <2>1, <2>2 DEF Fresh
  <1>9. PeopleFine' /\ OrdersFine' /\ ClientsExist'
    BY <1>3 DEF ImportInv, PeopleFine, PersonTyped, OrdersFine, ClientsExist, Standing
  <1>10. BatchesFine'
    BY <1>3, <1>4 DEF ImportInv, BatchesFine
  <1>11. DesksFine'
    <2>1. ASSUME NEW e, SaveFine(e) PROVE SaveFine(e)'
      BY <1>3, <2>1 DEF SaveFine, Relied
    <2>2. ASSUME NEW b \in Importers, NEW e, e = desk'[b]
          PROVE  e = Idle \/ (e.op = "save" /\ SaveFine(e)') \/ (e.op = "undo" /\ e.batch \in DOMAIN batches')
      <3>1. CASE b = c
        BY <1>4, <1>6, <1>7, <2>1, <2>2, <3>1
      <3>2. CASE b # c
        <4>1. e = desk[b]
          BY <1>4, <2>2, <3>2
        <4>2. e = Idle \/ (e.op = "save" /\ SaveFine(e)) \/ (e.op = "undo" /\ e.batch \in DOMAIN batches)
          BY <4>1 DEF ImportInv, DesksFine
        <4> QED BY <1>3, <2>1, <4>2
      <3> QED BY <3>1, <3>2
    <2> QED BY <1>4, <2>2, DesksFineNext
  <1>12. Undisturbed'
    <2>1. ASSUME ~overlapped', NEW b \in Importers, NEW e, e = desk'[b]
          PROVE  /\ e.op = "save" => Fresh(e)'
                 /\ e.op = "undo" => OrdersUndoable(e.batch)' /\ PeopleUndoable(e.batch)'
      <3>1. CASE b # c
        BY <1>4, <2>1, <3>1, IdleIs
      <3>2. CASE b = c
        <4>1. Fresh(d)'
          BY <1>3, <1>8 DEF Fresh, PeopleNew, Standing
        <4> QED BY <1>4, <1>6, <2>1, <3>2, <4>1
      <3> QED BY <3>1, <3>2
    <2> QED BY <2>1, UndisturbedNext
  <1>13. NothingTwice'
    <2>1. \A o \in OrderIds : Standing(o)' <=> Standing(o)
      BY <1>3 DEF Standing
    <2> QED BY <1>3, <1>4, <2>1, Apartness, ApartnessNext DEF ImportInv
  <1> QED
    BY <1>4, <1>9, <1>10, <1>11, <1>12, <1>13 DEF ImportInv

(* A request that ends: unless it met another, no one is left at work. *)
LEMMA EndedAlone ==
    ASSUME ImportInv, NEW c \in Importers, desk' = [desk EXCEPT ![c] = Idle],
           overlapped' = (overlapped \/ InFlight(c))
    PROVE  Alone' /\ Undisturbed' /\ overlapped' \in BOOLEAN /\ (overlapped => overlapped')
  <1>1. /\ Alone' /\ overlapped' \in BOOLEAN /\ (overlapped => overlapped')
        /\ desk'[c] = Idle /\ \A b \in Importers : b # c => desk'[b] = desk[b]
        /\ ~overlapped' => \A b \in Importers : b # c => desk[b] = Idle
    <2>1. PICK d : d = Idle
      OBVIOUS
    <2>2. desk' = [desk EXCEPT ![c] = d]
      BY <2>1
    <2> QED BY <2>1, <2>2, OneRequest
  <1>2. ASSUME ~overlapped', NEW b \in Importers, NEW e, e = desk'[b] PROVE e.op # "save" /\ e.op # "undo"
    BY <1>1, <1>2, IdleIs
  <1>3. Undisturbed'
    BY <1>2, UndisturbedNext
  <1> QED
    BY <1>1, <1>3

(* The requests still at work are fine, when people only come and go. *)
LEMMA OthersRely ==
    ASSUME ImportInv, NEW c \in Importers, desk' = [desk EXCEPT ![c] = Idle],
           \A p \in People : p <= made.people =>
               p <= made'.people /\ (person'[p] = person[p] \/ person'[p] = Nobody),
           DOMAIN batches \subseteq DOMAIN batches'
    PROVE  DesksFine'
  <1>1. DOMAIN desk' = Importers /\ desk'[c] = Idle /\ \A b \in Importers : b # c => desk'[b] = desk[b]
    BY DEF ImportInv, DesksFine
  <1>2. ASSUME NEW d, SaveFine(d) PROVE SaveFine(d)'
    <2>1. \A ref : Relied(d, ref) => Relied(d, ref)'
      BY DEF Relied
    <2> QED BY <1>2, <2>1 DEF SaveFine
  <1>3. ASSUME NEW b \in Importers, NEW e, e = desk'[b]
        PROVE  e = Idle \/ (e.op = "save" /\ SaveFine(e)') \/ (e.op = "undo" /\ e.batch \in DOMAIN batches')
    <2>1. CASE b = c
      BY <1>1, <1>3, <2>1
    <2>2. CASE b # c
      <3>1. e = desk[b]
        BY <1>1, <1>3, <2>2
      <3>2. e = Idle \/ (e.op = "save" /\ SaveFine(e)) \/ (e.op = "undo" /\ e.batch \in DOMAIN batches)
        BY <3>1 DEF ImportInv, DesksFine
      <3> QED BY <1>2, <3>2
    <2> QED BY <2>1, <2>2
  <1> QED
    BY <1>1, <1>3, DesksFineNext

(* A request that is refused leaves everything as it was. *)
LEMMA RefusedKeeps ==
    ASSUME ImportInv, NEW c \in Importers, desk' = [desk EXCEPT ![c] = Idle],
           overlapped' = (overlapped \/ InFlight(c)), person' = person, order' = order,
           attached' = attached, batches' = batches, made' = made
    PROVE  ImportInv'
  <1>1. Alone' /\ Undisturbed' /\ overlapped' \in BOOLEAN /\ (overlapped => overlapped')
    BY EndedAlone
  <1>2. PeopleFine' /\ OrdersFine' /\ ClientsExist'
    BY DEF ImportInv, PeopleFine, PersonTyped, OrdersFine, ClientsExist, Standing
  <1>3. BatchesFine'
    BY <1>1 DEF ImportInv, BatchesFine
  <1>4. DesksFine'
    BY OthersRely
  <1>5. NothingTwice'
    <2>1. \A o \in OrderIds : Standing(o)' <=> Standing(o)
      BY DEF Standing
    <2> QED BY <1>1, <2>1, Apartness, ApartnessNext DEF ImportInv
  <1> QED
    BY <1>1, <1>2, <1>3, <1>4, <1>5 DEF ImportInv

LEMMA UndoKeeps ==
    ASSUME ImportInv, NEW c \in Importers, NEW b \in DOMAIN batches, Undo(c, b)
    PROVE  ImportInv'
  <1>1. PICK d : d = [op |-> "undo", batch |-> b]
    OBVIOUS
  <1>2. /\ desk' = [desk EXCEPT ![c] = d] /\ overlapped' = (overlapped \/ InFlight(c))
        /\ person' = person /\ order' = order /\ attached' = attached /\ batches' = batches /\ made' = made
        /\ OrdersUndoable(b) /\ PeopleUndoable(b)
    BY <1>1 DEF Undo
  <1>3. /\ Alone' /\ overlapped' \in BOOLEAN /\ (overlapped => overlapped')
        /\ DOMAIN desk' = Importers /\ desk'[c] = d
        /\ \A a \in Importers : a # c => desk'[a] = desk[a]
        /\ ~overlapped' => \A a \in Importers : a # c => desk[a] = Idle
    BY <1>2, OneRequest
  <1>4. d.op = "undo" /\ d.op # "save" /\ d.batch = b
    BY <1>1
  <1>5. PeopleFine' /\ OrdersFine' /\ ClientsExist'
    BY <1>2 DEF ImportInv, PeopleFine, PersonTyped, OrdersFine, ClientsExist, Standing
  <1>6. BatchesFine'
    BY <1>2, <1>3 DEF ImportInv, BatchesFine
  <1>7. DesksFine'
    <2>1. ASSUME NEW e, SaveFine(e) PROVE SaveFine(e)'
      BY <1>2, <2>1 DEF SaveFine, Relied
    <2>2. ASSUME NEW a \in Importers, NEW e, e = desk'[a]
          PROVE  e = Idle \/ (e.op = "save" /\ SaveFine(e)') \/ (e.op = "undo" /\ e.batch \in DOMAIN batches')
      <3>1. CASE a = c
        BY <1>2, <1>3, <1>4, <2>2, <3>1
      <3>2. CASE a # c
        <4>1. e = desk[a]
          BY <1>3, <2>2, <3>2
        <4>2. e = Idle \/ (e.op = "save" /\ SaveFine(e)) \/ (e.op = "undo" /\ e.batch \in DOMAIN batches)
          BY <4>1 DEF ImportInv, DesksFine
        <4> QED BY <1>2, <2>1, <4>2
      <3> QED BY <3>1, <3>2
    <2> QED BY <1>3, <2>2, DesksFineNext
  <1>8. Undisturbed'
    <2>1. OrdersUndoable(b)' /\ PeopleUndoable(b)'
      BY <1>2 DEF OrdersUndoable, PeopleUndoable, UsedElsewhere, KeepsClients, Standing
    <2>2. ASSUME ~overlapped', NEW a \in Importers, NEW e, e = desk'[a]
          PROVE  /\ e.op = "save" => Fresh(e)'
                 /\ e.op = "undo" => OrdersUndoable(e.batch)' /\ PeopleUndoable(e.batch)'
      <3>1. CASE a # c
        BY <1>3, <2>2, <3>1, IdleIs
      <3>2. CASE a = c
        <4>1. e = d /\ e.batch = b /\ e.op # "save"
          BY <1>3, <1>4, <2>2, <3>2
        <4> QED BY <2>1, <4>1
      <3> QED BY <3>1, <3>2
    <2> QED BY <2>2, UndisturbedNext
  <1>9. NothingTwice'
    <2>1. \A o \in OrderIds : Standing(o)' <=> Standing(o)
      BY <1>2 DEF Standing
    <2> QED BY <1>2, <1>3, <2>1, Apartness, ApartnessNext DEF ImportInv
  <1> QED
    BY <1>3, <1>5, <1>6, <1>7, <1>8, <1>9 DEF ImportInv

(* What a ref becomes when it is saved. *)
LEMMA ResolvedIs ==
    ASSUME NEW all \in Nat, made.people = all, NEW ref \in Int
    PROVE  /\ Resolved(ref) \in Int
           /\ ref < 0 => Resolved(ref) = all - ref
           /\ ref >= 0 => Resolved(ref) = ref
  BY DEF Resolved

(* The order a row becomes. *)
IsSaved(new, line, b) ==
    new = [client |-> Resolved(line.client), what |-> line.what, by |-> Resolved(line.by), batch |-> b]

(* Its client is one the request makes, or one who is there. *)
LEMMA SavedOrder ==
    ASSUME NEW all \in Nat, made.people = all, NEW plus \in Nat, all + plus <= MaxPeople, MaxPeople \in Nat,
           NEW d, d.people \in Seq(PersonRows), Len(d.people) = plus, NEW b \in Nat,
           NEW line \in JudgedOrders, line.client # 0, Relied(d, line.client),
           line.client > 0 => person[line.client] # Nobody,
           NEW new, IsSaved(new, line, b)
    PROVE  /\ new \in OrderShapes /\ new # NoOrder /\ new.batch = b
           /\ new.what = line.what /\ new.client = Resolved(line.client)
           /\ \/ line.client \in 1..all /\ new.client = line.client /\ person[new.client].kind = "clients"
              \/ line.client < 0 /\ new.client \in all + 1 .. all + plus /\ new.client = all - line.client
                 /\ d.people[new.client - all].kind = "clients"
  <1>1. PICK ref, by, what : ref = line.client /\ by = line.by /\ what = line.what
    OBVIOUS
  <1>2. ref \in Int /\ by \in Int /\ what \in STRING
    BY <1>1 DEF JudgedOrders
  <1>3. PICK client, worker : client = Resolved(ref) /\ worker = Resolved(by)
    OBVIOUS
  <1>4. /\ client \in Int /\ worker \in Int
        /\ ref < 0 => client = all - ref
        /\ ref >= 0 => client = ref
    BY <1>2, <1>3, ResolvedIs
  <1>5. new = [client |-> client, what |-> what, by |-> worker, batch |-> b]
    BY <1>1, <1>3 DEF IsSaved
  <1>6. ref # 0 /\ Relied(d, ref) /\ (ref > 0 => person[ref] # Nobody)
    BY <1>1
  <1>7. DOMAIN d.people = 1..plus
    OBVIOUS
  <1>8. \/ ref \in 1..all /\ client = ref /\ person[client].kind = "clients"
        \/ ref < 0 /\ client \in all + 1 .. all + plus /\ client = all - ref /\ d.people[client - all].kind = "clients"
    <2>1. CASE ref \in People /\ ref <= all /\ (person[ref] = Nobody \/ person[ref].kind = "clients")
      <3>1. ref > 0 /\ ref >= 0
        BY <1>2, <2>1 DEF People
      <3>2. person[ref].kind = "clients" /\ client = ref
        BY <1>4, <1>6, <2>1, <3>1
      <3>3. ref \in 1..all
        BY <1>2, <2>1, <3>1
      <3> QED BY <3>2, <3>3
    <2>2. CASE -ref \in DOMAIN d.people /\ d.people[-ref].kind = "clients"
      <3>1. PICK k : k = -ref
        OBVIOUS
      <3>2. k \in 1..plus /\ d.people[k].kind = "clients"
        BY <1>7, <2>2, <3>1
      <3>3. ref < 0 /\ all - ref = all + k /\ all + k \in all + 1 .. all + plus /\ (all + k) - all = k
        BY <1>2, <3>1, <3>2
      <3>4. client = all - ref /\ client = all + k
        BY <1>4, <3>3
      <3> QED BY <3>2, <3>3, <3>4
    <2> QED BY <1>6, <2>1, <2>2 DEF Relied
  <1>9. client \in People
    BY <1>2, <1>4, <1>8 DEF People
  <1>10. new \in OrderShapes
    <2>1. what \in Matters
      BY <1>2 DEF Matters
    <2> QED BY <1>4, <1>5, <1>9, <2>1 DEF OrderShapes
  <1>11. new.client = client /\ new.what = what /\ new.batch = b
    BY <1>5
  <1> QED
    BY <1>1, <1>3, <1>8, <1>10, <1>11, NoOrderIs

(* Two rows for different orders become different orders. *)
LEMMA SavedApart ==
    ASSUME NEW all \in Nat, made.people = all, NEW line \in JudgedOrders, NEW other \in JudgedOrders,
           line.client # 0, other.client # 0, line.client <= all, other.client <= all, KeyOf(line) # KeyOf(other),
           NEW new, NEW former, new.client = Resolved(line.client), new.what = line.what,
           former.client = Resolved(other.client), former.what = other.what
    PROVE  KeyOf(new) # KeyOf(former)
  <1>1. PICK a, b, v, w : a = line.client /\ b = other.client /\ v = line.what /\ w = other.what
    OBVIOUS
  <1>2. a \in Int /\ b \in Int /\ a # 0 /\ b # 0 /\ a <= all /\ b <= all
    BY <1>1 DEF JudgedOrders
  <1>3. <<a, v>> # <<b, w>>
    BY <1>1 DEF KeyOf, OrderKey
  <1>4. /\ a < 0 => Resolved(a) = all - a
        /\ a >= 0 => Resolved(a) = a
    BY <1>2, ResolvedIs
  <1>5. /\ b < 0 => Resolved(b) = all - b
        /\ b >= 0 => Resolved(b) = b
    BY <1>2, ResolvedIs
  <1>6. PICK s, t : s = Resolved(a) /\ t = Resolved(b)
    OBVIOUS
  <1>7. s = t => a = b
    BY <1>2, <1>4, <1>5, <1>6
  <1>8. <<s, v>> # <<t, w>>
    BY <1>3, <1>7
  <1>9. new.client = s /\ new.what = v /\ former.client = t /\ former.what = w
    BY <1>1, <1>6
  <1> QED
    BY <1>8, <1>9 DEF KeyOf, OrderKey

LEMMA SaveKeeps ==
    ASSUME ImportAssumptions, ImportInv, NEW c \in Importers, Save(c)
    PROVE  ImportInv'
  <1>1. PICK r : r = desk[c]
    OBVIOUS
  <1>2. /\ desk' = [desk EXCEPT ![c] = Idle] /\ overlapped' = (overlapped \/ InFlight(c))
        /\ attached' = attached
    BY DEF Save
  <1>3. r.op = "save" /\ SaveFine(r)
    <2>1. r.op = "save" /\ r.op # "undo" /\ r # Idle
      BY <1>1, IdleIs DEF Save
    <2>2. r = Idle \/ (r.op = "save" /\ SaveFine(r)) \/ (r.op = "undo" /\ r.batch \in DOMAIN batches)
      BY <1>1 DEF ImportInv, DesksFine
    <2> QED BY <2>1, <2>2
  <1>4. CASE ~(RefsHold(r) /\ Len(batches) < MaxBatches)
    <2>1. person' = person /\ order' = order /\ batches' = batches /\ made' = made
      BY <1>1, <1>4 DEF Save
    <2> QED BY <1>2, <2>1, RefusedKeeps
  <1>5. CASE RefsHold(r) /\ Len(batches) < MaxBatches
    <2>1. PICK all, n, plus, more, b :
            /\ all = made.people /\ n = made.orders /\ plus = Len(r.people) /\ more = Len(r.orders)
            /\ b = Len(batches) + 1
      OBVIOUS
    <2>2. /\ r.people \in Seq(PersonRows) /\ r.orders \in Seq(JudgedOrders) /\ r.file \in Workbooks
          /\ \A i \in DOMAIN r.orders : r.orders[i].client # 0 /\ Relied(r, r.orders[i].client)
      BY <1>3 DEF SaveFine
    <2>3. /\ MaxPeople \in Nat /\ MaxOrders \in Nat
          /\ made \in [people : 0..MaxPeople, orders : 0..MaxOrders]
          /\ person \in [People -> PersonRows \cup {Nobody}]
          /\ order \in [OrderIds -> OrderShapes \cup {NoOrder}]
          /\ batches \in Seq(BatchShapes)
      BY DEF ImportInv, PeopleFine, PersonTyped, OrdersFine, BatchesFine, ImportAssumptions
    <2>4. /\ all \in Nat /\ n \in Nat /\ plus \in Nat /\ more \in Nat /\ b \in Nat
          /\ DOMAIN r.people = 1..plus /\ DOMAIN r.orders = 1..more
      <3>1. all \in 0..MaxPeople /\ n \in 0..MaxOrders
        BY <2>1, <2>3
      <3>2. plus \in Nat /\ more \in Nat /\ Len(batches) \in Nat
        BY <2>1, <2>2, <2>3
      <3>3. all \in Nat /\ n \in Nat
        BY <2>3, <3>1
      <3>4. b \in Nat
        BY <2>1, <3>2
      <3>5. DOMAIN r.people = 1..plus /\ DOMAIN r.orders = 1..more
        BY <2>1, <2>2
      <3> QED BY <3>2, <3>3, <3>4, <3>5
    <2>5. /\ all + plus <= MaxPeople /\ n + more <= MaxOrders
          /\ \A i \in 1..more : r.orders[i].client > 0 => person[r.orders[i].client] # Nobody
      BY <1>5, <2>1, <2>4 DEF RefsHold
    <2>6. /\ person' = [p \in People |-> IF p \in all + 1 .. all + plus THEN r.people[p - all] ELSE person[p]]
          /\ \A o \in OrderIds :
               order'[o] = IF o \in n + 1 .. n + more
                           THEN [client |-> Resolved(r.orders[o - n].client), what |-> r.orders[o - n].what,
                                 by |-> Resolved(r.orders[o - n].by), batch |-> b]
                           ELSE order[o]
          /\ DOMAIN order' = OrderIds
          /\ order' = [o \in OrderIds |-> order'[o]]
          /\ batches' = Append(batches, [file |-> r.file, people |-> all + 1 .. all + plus,
                                         orders |-> n + 1 .. n + more, undone |-> FALSE])
          /\ made' = [people |-> all + plus, orders |-> n + more]
      BY <1>1, <1>5, <2>1 DEF Save
    <2>7. Alone' /\ Undisturbed' /\ overlapped' \in BOOLEAN /\ (overlapped => overlapped')
      BY <1>2, EndedAlone
    <2>8. made'.people = all + plus /\ made'.orders = n + more
      BY <2>6
    <2>9. /\ \A p \in People : ~(p \in all + 1 .. all + plus) => person'[p] = person[p]
          /\ \A p \in People : p \in all + 1 .. all + plus =>
                p - all \in DOMAIN r.people /\ person'[p] = r.people[p - all] /\ person'[p] \in PersonRows
      <3>1. ASSUME NEW p \in People, p \in all + 1 .. all + plus PROVE p - all \in DOMAIN r.people
        BY <2>4, <3>1
      <3> QED BY <2>2, <2>6, <3>1
    <2>10. \A p \in People : p > all => person[p] = Nobody
      BY <2>1 DEF ImportInv, PeopleFine
    <2>11. \A o \in OrderIds : o > n => order[o] = NoOrder
      BY <2>1 DEF ImportInv, OrdersFine
    <2>12. ASSUME NEW o \in OrderIds, o \in n + 1 .. n + more
           PROVE  /\ o - n \in 1..more
                  /\ IsSaved(order'[o], r.orders[o - n], b)
      BY <2>4, <2>6, <2>12 DEF IsSaved
    <2>13. ASSUME NEW o \in OrderIds, o \in n + 1 .. n + more
           PROVE  \E i \in 1..more :
                    /\ i = o - n /\ order'[o] \in OrderShapes /\ order'[o] # NoOrder /\ order'[o].batch = b
                    /\ order'[o].what = r.orders[i].what /\ order'[o].client = Resolved(r.orders[i].client)
                    /\ \/ /\ r.orders[i].client \in 1..all /\ order'[o].client = r.orders[i].client
                          /\ person[order'[o].client].kind = "clients"
                       \/ /\ r.orders[i].client < 0 /\ order'[o].client \in all + 1 .. all + plus
                          /\ order'[o].client = all - r.orders[i].client
                          /\ r.people[order'[o].client - all].kind = "clients"
      <3>1. PICK i, new, line : i = o - n /\ new = order'[o] /\ line = r.orders[i]
        OBVIOUS
      <3>2. i \in 1..more /\ IsSaved(new, line, b)
        BY <2>12, <2>13, <3>1
      <3>3. line \in JudgedOrders
        BY <2>2, <2>4, <3>1, <3>2
      <3>4. line.client # 0 /\ Relied(r, line.client) /\ (line.client > 0 => person[line.client] # Nobody)
        BY <2>2, <2>4, <2>5, <3>1, <3>2
      <3>5. made.people = all /\ Len(r.people) = plus
        BY <2>1
      <3>6. /\ all \in Nat /\ plus \in Nat /\ all + plus <= MaxPeople /\ MaxPeople \in Nat /\ b \in Nat
            /\ r.people \in Seq(PersonRows)
        BY <2>2, <2>3, <2>4, <2>5
      <3>7. /\ new \in OrderShapes /\ new # NoOrder /\ new.batch = b
            /\ new.what = line.what /\ new.client = Resolved(line.client)
            /\ \/ line.client \in 1..all /\ new.client = line.client /\ person[new.client].kind = "clients"
               \/ line.client < 0 /\ new.client \in all + 1 .. all + plus /\ new.client = all - line.client
                  /\ r.people[new.client - all].kind = "clients"
        BY <3>2, <3>3, <3>4, <3>5, <3>6, SavedOrder
      <3> QED BY <3>1, <3>2, <3>7
    <2>14. \A o \in OrderIds : ~(o \in n + 1 .. n + more) => order'[o] = order[o]
      BY <2>6
    <2>15. PeopleFine'
      <3>1. person' \in [People -> PersonRows \cup {Nobody}]
        BY <2>3, <2>6, <2>9
      <3>2. made' \in [people : 0..MaxPeople, orders : 0..MaxOrders]
        BY <2>3, <2>4, <2>5, <2>6
      <3>3. ASSUME NEW p \in People, p > all + plus PROVE person'[p] = Nobody
        <4>1. p \in Int
          BY DEF People
        <4>2. p > all /\ ~(p \in all + 1 .. all + plus)
          BY <2>4, <3>3, <4>1
        <4> QED BY <2>9, <2>10, <4>2
      <3> QED BY <2>8, <3>1, <3>2, <3>3 DEF PeopleFine, PersonTyped
    <2>16. OrdersFine'
      <3>1. \A o \in OrderIds : order'[o] \in OrderShapes \cup {NoOrder}
        BY <2>3, <2>13, <2>14
      <3>2. order' \in [OrderIds -> OrderShapes \cup {NoOrder}]
        BY <2>6, <3>1
      <3>3. ASSUME NEW o \in OrderIds, o > n + more PROVE order'[o] = NoOrder
        <4>1. o \in Int
          BY DEF OrderIds
        <4>2. o > n /\ ~(o \in n + 1 .. n + more)
          BY <2>4, <3>3, <4>1
        <4> QED BY <2>11, <2>14, <4>2
      <3> QED BY <2>8, <3>2, <3>3 DEF OrdersFine
    <2>17. ASSUME NEW o \in OrderIds, Standing(o)
           PROVE  /\ order[o] \in OrderShapes /\ order[o].client \in People /\ order[o].client <= all
                  /\ person[order[o].client].kind = "clients"
      <3>1. order[o] \in OrderShapes
        BY <2>3, <2>17 DEF Standing
      <3>2. PICK client \in People : client = order[o].client
        BY <3>1 DEF OrderShapes
      <3>3. person[client].kind = "clients"
        BY <2>17, <3>2 DEF ImportInv, ClientsExist
      <3>4. person[client] # Nobody
        BY <3>3, NobodyIs DEF Kinds
      <3>5. client <= all
        BY <2>4, <2>10, <3>2, <3>4 DEF People
      <3> QED BY <3>1, <3>2, <3>3, <3>5
    <2>18. ClientsExist'
      <3>1. ASSUME NEW o \in OrderIds, order'[o] # NoOrder PROVE person'[order'[o].client].kind = "clients"
        <4>1. CASE o \in n + 1 .. n + more
          <5>1. PICK client : client = order'[o].client
            OBVIOUS
          <5>2. \/ client \in 1..all /\ person[client].kind = "clients"
                \/ client \in all + 1 .. all + plus /\ r.people[client - all].kind = "clients"
            BY <2>13, <4>1, <5>1
          <5>3. client \in People
            BY <2>3, <2>4, <2>5, <5>2 DEF People
          <5>4. CASE client \in 1..all /\ person[client].kind = "clients"
            <6>1. ~(client \in all + 1 .. all + plus)
              BY <2>4, <5>4
            <6> QED BY <2>9, <5>1, <5>3, <5>4, <6>1
          <5>5. CASE client \in all + 1 .. all + plus /\ r.people[client - all].kind = "clients"
            BY <2>9, <5>1, <5>3, <5>5
          <5> QED BY <5>2, <5>4, <5>5
        <4>2. CASE ~(o \in n + 1 .. n + more)
          <5>1. order'[o] = order[o] /\ Standing(o)
            BY <2>14, <3>1, <4>2 DEF Standing
          <5>2. PICK client : client = order[o].client
            OBVIOUS
          <5>3. client \in People /\ client <= all /\ person[client].kind = "clients"
            BY <2>17, <5>1, <5>2
          <5>4. ~(client \in all + 1 .. all + plus)
            BY <2>4, <5>3 DEF People
          <5> QED BY <2>9, <5>1, <5>2, <5>3, <5>4
        <4> QED BY <4>1, <4>2
      <3> QED BY <3>1 DEF ClientsExist, Standing
    <2>19. BatchesFine'
      <3>1. PICK batch : batch = [file |-> r.file, people |-> all + 1 .. all + plus,
                                  orders |-> n + 1 .. n + more, undone |-> FALSE]
        OBVIOUS
      <3>2. all + 1 .. all + plus \subseteq People /\ n + 1 .. n + more \subseteq OrderIds
        BY <2>3, <2>4, <2>5 DEF People, OrderIds
      <3>3. batch \in BatchShapes
        BY <2>2, <3>1, <3>2 DEF BatchShapes
      <3>4. batches' \in Seq(BatchShapes)
        BY <2>3, <2>6, <3>1, <3>3
      <3> QED BY <1>2, <2>7, <3>4 DEF ImportInv, BatchesFine
    <2>20. DesksFine'
      <3>1. ASSUME NEW p \in People, p <= made.people
            PROVE  p <= made'.people /\ (person'[p] = person[p] \/ person'[p] = Nobody)
        <4>1. p \in Int /\ p <= all
          BY <2>1, <3>1 DEF People
        <4>2. p <= all + plus /\ ~(p \in all + 1 .. all + plus)
          BY <2>4, <4>1
        <4> QED BY <2>8, <2>9, <4>2
      <3>2. DOMAIN batches \subseteq DOMAIN batches'
        BY <2>3, <2>6
      <3> QED BY <1>2, <3>1, <3>2, OthersRely
    <2>21. NothingTwice'
      <3>1. ASSUME ~overlapped'
            PROVE  ~overlapped /\ Fresh(r)
        BY <1>1, <1>3, <2>7, <3>1 DEF ImportInv, Undisturbed
      <3>2. ASSUME ~overlapped', NEW p \in People, NEW q \in People, p # q,
                   person'[p] # Nobody, person'[q] # Nobody
            PROVE  Apart(person'[p], person'[q])
        <4>1. CASE p \in all + 1 .. all + plus /\ q \in all + 1 .. all + plus
          <5>1. PICK i, k : i = p - all /\ k = q - all
            OBVIOUS
          <5>2. i # k
            BY <2>4, <3>2, <4>1, <5>1
          <5>3. /\ i \in DOMAIN r.people /\ k \in DOMAIN r.people
                /\ person'[p] = r.people[i] /\ person'[q] = r.people[k]
            BY <2>9, <4>1, <5>1
          <5> QED BY <3>1, <3>2, <5>2, <5>3 DEF Fresh, PeopleNew
        <4>2. CASE p \in all + 1 .. all + plus /\ ~(q \in all + 1 .. all + plus)
          <5>1. PICK i : i = p - all /\ i \in DOMAIN r.people /\ person'[p] = r.people[i]
            BY <2>9, <4>2
          <5>2. person'[q] = person[q]
            BY <2>9, <4>2
          <5>3. Apart(r.people[i], person[q])
            BY <3>1, <3>2, <5>1, <5>2 DEF Fresh, PeopleNew
          <5> QED BY <5>1, <5>2, <5>3
        <4>3. CASE ~(p \in all + 1 .. all + plus) /\ q \in all + 1 .. all + plus
          <5>1. PICK i : i = q - all /\ i \in DOMAIN r.people /\ person'[q] = r.people[i]
            BY <2>9, <4>3
          <5>2. person'[p] = person[p]
            BY <2>9, <4>3
          <5>3. Apart(r.people[i], person[p])
            BY <3>1, <3>2, <5>1, <5>2 DEF Fresh, PeopleNew
          <5>4. Apart(person'[q], person'[p])
            BY <5>1, <5>2, <5>3
          <5> QED BY <5>4 DEF Apart
        <4>4. CASE ~(p \in all + 1 .. all + plus) /\ ~(q \in all + 1 .. all + plus)
          <5>1. person'[p] = person[p] /\ person'[q] = person[q]
            BY <2>9, <4>4
          <5>2. Apart(person[p], person[q])
            BY <3>1, <3>2, <5>1, Apartness DEF ImportInv
          <5> QED BY <5>1, <5>2
        <4> QED BY <4>1, <4>2, <4>3, <4>4
      <3>3. ASSUME ~overlapped', NEW o \in OrderIds, NEW x \in OrderIds,
                   o \in n + 1 .. n + more, ~(x \in n + 1 .. n + more), order'[x] # NoOrder
            PROVE  KeyOf(order'[o]) # KeyOf(order'[x])
        <4>1. order'[x] = order[x] /\ Standing(x)
          BY <2>14, <3>3 DEF Standing
        <4>2. order[x].client \in People /\ order[x].client <= all
          BY <2>17, <4>1
        <4>3. PICK i \in 1..more :
                /\ order'[o].what = r.orders[i].what /\ order'[o].client = Resolved(r.orders[i].client)
                /\ \/ r.orders[i].client \in 1..all /\ order'[o].client = r.orders[i].client
                   \/ order'[o].client \in all + 1 .. all + plus
          BY <2>13, <3>3
        <4>4. KeyOf(order[x]) # KeyOf(r.orders[i])
          BY <2>4, <3>1, <3>3, <4>1, <4>3 DEF Fresh
        <4>5. PICK s, t, v, w : s = order'[o].client /\ t = order[x].client /\ v = order'[o].what /\ w = order[x].what
          OBVIOUS
        <4>6. CASE r.orders[i].client \in 1..all /\ order'[o].client = r.orders[i].client
          BY <4>1, <4>3, <4>4, <4>6 DEF KeyOf, OrderKey
        <4>7. CASE order'[o].client \in all + 1 .. all + plus
          <5>1. s # t
            <6>1. s \in all + 1 .. all + plus /\ t <= all /\ t \in Int
              BY <4>2, <4>5, <4>7 DEF People
            <6> QED BY <2>4, <6>1
          <5>2. <<s, v>> # <<t, w>>
            BY <5>1
          <5> QED BY <4>1, <4>5, <5>2 DEF KeyOf, OrderKey
        <4> QED BY <4>3, <4>6, <4>7
      <3>4. ASSUME ~overlapped', NEW o \in OrderIds, NEW x \in OrderIds, o # x,
                   o \in n + 1 .. n + more, x \in n + 1 .. n + more
            PROVE  KeyOf(order'[o]) # KeyOf(order'[x])
        <4>1. PICK i \in 1..more :
                /\ i = o - n /\ order'[o].what = r.orders[i].what /\ order'[o].client = Resolved(r.orders[i].client)
                /\ r.orders[i].client \in 1..all \/ r.orders[i].client < 0
          BY <2>13, <3>4
        <4>2. PICK k \in 1..more :
                /\ k = x - n /\ order'[x].what = r.orders[k].what /\ order'[x].client = Resolved(r.orders[k].client)
                /\ r.orders[k].client \in 1..all \/ r.orders[k].client < 0
          BY <2>13, <3>4
        <4>3. i # k
          BY <2>4, <3>4, <4>1, <4>2
        <4>4. PICK line, other : line = r.orders[i] /\ other = r.orders[k]
          OBVIOUS
        <4>5. KeyOf(line) # KeyOf(other)
          BY <2>4, <3>1, <3>4, <4>3, <4>4 DEF Fresh
        <4>6. line \in JudgedOrders /\ other \in JudgedOrders /\ line.client # 0 /\ other.client # 0
          <5>1. i \in DOMAIN r.orders /\ k \in DOMAIN r.orders
            BY <2>4
          <5>2. r.orders[i] \in JudgedOrders /\ r.orders[k] \in JudgedOrders
            BY <2>2, <5>1
          <5>3. r.orders[i].client # 0 /\ r.orders[k].client # 0
            BY <2>2, <5>1
          <5> QED BY <4>4, <5>2, <5>3
        <4>7. line.client <= all /\ other.client <= all
          <5>1. PICK s, t : s = line.client /\ t = other.client
            OBVIOUS
          <5>2. s \in Int /\ t \in Int /\ (s \in 1..all \/ s < 0) /\ (t \in 1..all \/ t < 0)
            BY <4>1, <4>2, <4>4, <4>6, <5>1 DEF JudgedOrders
          <5>3. s <= all /\ t <= all
            BY <2>4, <5>2
          <5> QED BY <5>1, <5>3
        <4>8. PICK new, former : new = order'[o] /\ former = order'[x]
          OBVIOUS
        <4>9. /\ new.client = Resolved(line.client) /\ new.what = line.what
              /\ former.client = Resolved(other.client) /\ former.what = other.what /\ made.people = all
          BY <2>1, <4>1, <4>2, <4>4, <4>8
        <4>10. KeyOf(new) # KeyOf(former)
          BY <2>4, <4>5, <4>6, <4>7, <4>9, SavedApart
        <4> QED BY <4>8, <4>10
      <3>5. ASSUME ~overlapped', NEW o \in OrderIds, NEW x \in OrderIds, o # x,
                   ~(o \in n + 1 .. n + more), ~(x \in n + 1 .. n + more),
                   order'[o] # NoOrder, order'[x] # NoOrder
            PROVE  order'[o].batch = 0 \/ order'[x].batch = 0 \/ KeyOf(order'[o]) # KeyOf(order'[x])
        BY <2>14, <3>1, <3>5, Apartness DEF ImportInv, Standing
      <3>6. ASSUME ~overlapped', NEW o \in OrderIds, NEW x \in OrderIds, o # x,
                   order'[o] # NoOrder, order'[x] # NoOrder
            PROVE  order'[o].batch = 0 \/ order'[x].batch = 0 \/ KeyOf(order'[o]) # KeyOf(order'[x])
        BY <3>3, <3>4, <3>5, <3>6
      <3> QED BY <3>2, <3>6, ApartnessNext DEF Standing
    <2> QED BY <2>7, <2>15, <2>16, <2>18, <2>19, <2>20, <2>21 DEF ImportInv
  <1> QED
    BY <1>4, <1>5

(* An undo that goes through; who is kept is a client someone still orders for. *)
Erased(c, b, gone, away) ==
    /\ b = desk[c].batch /\ desk[c].op = "undo"
    /\ gone = batches[b].orders /\ away \subseteq batches[b].people
    /\ \A p \in away : UsedElsewhere(b, p) => /\ person[p].kind # "clients"
                                              /\ ~(person[p].kind = "clients" /\ KeepsClients(b))
    /\ order' = [o \in OrderIds |->
         IF o \in gone THEN NoOrder
         ELSE IF Standing(o) /\ order[o].by \in away THEN [order[o] EXCEPT !.by = 0] ELSE order[o]]
    /\ person' = [p \in People |-> IF p \in away THEN Nobody ELSE person[p]]
    /\ attached' = {a \in attached : a[1] \notin gone}
    /\ batches' = [batches EXCEPT ![b].undone = TRUE]

(* An undo goes through, or leaves everything as it was. *)
LEMMA ErasedOrRefused ==
    ASSUME ImportInv, NEW c \in Importers, EraseImport(c)
    PROVE  \/ person' = person /\ order' = order /\ attached' = attached /\ batches' = batches
           \/ \E b \in DOMAIN batches, gone \in SUBSET OrderIds, away \in SUBSET People : Erased(c, b, gone, away)
  <1>1. PICK b, gone, kept, away :
          /\ b = desk[c].batch /\ gone = batches[b].orders
          /\ kept = {p \in batches[b].people :
                       person[p].kind = "clients" /\ UsedElsewhere(b, p) /\ KeepsClients(b)}
          /\ away = batches[b].people \ kept
    OBVIOUS
  <1>2. CASE person' = person /\ order' = order /\ attached' = attached /\ batches' = batches
    BY <1>2
  <1>3. CASE ~(person' = person /\ order' = order /\ attached' = attached /\ batches' = batches)
    <2>1. desk[c].op = "undo"
      BY DEF EraseImport
    <2>2. b \in DOMAIN batches
      <3>1. PICK d : d = desk[c]
        OBVIOUS
      <3>2. d.op = "undo" /\ d.op # "save" /\ d # Idle
        BY <2>1, <3>1, IdleIs
      <3>3. d = Idle \/ (d.op = "save" /\ SaveFine(d)) \/ (d.op = "undo" /\ d.batch \in DOMAIN batches)
        BY <3>1 DEF ImportInv, DesksFine
      <3> QED BY <1>1, <3>1, <3>2, <3>3
    <2>3. batches[b] \in BatchShapes
      BY <2>2 DEF ImportInv, BatchesFine
    <2>4. gone \in SUBSET OrderIds /\ away \in SUBSET People /\ away \subseteq batches[b].people
      BY <1>1, <2>3 DEF BatchShapes
    <2>5. /\ order' = [o \in OrderIds |->
               IF o \in gone THEN NoOrder
               ELSE IF Standing(o) /\ order[o].by \in away THEN [order[o] EXCEPT !.by = 0] ELSE order[o]]
          /\ person' = [p \in People |-> IF p \in away THEN Nobody ELSE person[p]]
          /\ attached' = {a \in attached : a[1] \notin gone}
          /\ batches' = [batches EXCEPT ![b].undone = TRUE]
          /\ ~\E p \in away : person[p].kind = "clients" /\ UsedElsewhere(b, p)
      BY <1>1, <1>3 DEF EraseImport
    <2>6. \A p \in away : UsedElsewhere(b, p) => /\ person[p].kind # "clients"
                                                 /\ ~(person[p].kind = "clients" /\ KeepsClients(b))
      BY <2>5
    <2>7. Erased(c, b, gone, away)
      BY <1>1, <2>1, <2>4, <2>5, <2>6 DEF Erased
    <2> QED BY <2>2, <2>4, <2>7
  <1> QED
    BY <1>2, <1>3

LEMMA EraseKeeps ==
    ASSUME ImportInv, NEW c \in Importers, EraseImport(c)
    PROVE  ImportInv'
  <1>1. /\ desk' = [desk EXCEPT ![c] = Idle] /\ overlapped' = (overlapped \/ InFlight(c)) /\ made' = made
    BY DEF EraseImport
  <1>2. CASE person' = person /\ order' = order /\ attached' = attached /\ batches' = batches
    BY <1>1, <1>2, RefusedKeeps
  <1>3. CASE ~(person' = person /\ order' = order /\ attached' = attached /\ batches' = batches)
    <2>0. PICK b \in DOMAIN batches, gone \in SUBSET OrderIds, away \in SUBSET People : Erased(c, b, gone, away)
      BY <1>3, ErasedOrRefused
    <2>1. /\ gone = batches[b].orders /\ away \subseteq batches[b].people
          /\ \A p \in away : UsedElsewhere(b, p) => person[p].kind # "clients"
          /\ order' = [o \in OrderIds |->
               IF o \in gone THEN NoOrder
               ELSE IF Standing(o) /\ order[o].by \in away THEN [order[o] EXCEPT !.by = 0] ELSE order[o]]
          /\ person' = [p \in People |-> IF p \in away THEN Nobody ELSE person[p]]
          /\ attached' = {a \in attached : a[1] \notin gone}
          /\ batches' = [batches EXCEPT ![b].undone = TRUE]
      BY <2>0 DEF Erased
    <2>2. Alone' /\ Undisturbed' /\ overlapped' \in BOOLEAN /\ (overlapped => overlapped')
      BY <1>1, EndedAlone
    <2>3. /\ person \in [People -> PersonRows \cup {Nobody}]
          /\ order \in [OrderIds -> OrderShapes \cup {NoOrder}]
          /\ made \in [people : 0..MaxPeople, orders : 0..MaxOrders]
          /\ batches \in Seq(BatchShapes)
      BY DEF ImportInv, PeopleFine, PersonTyped, OrdersFine, BatchesFine
    <2>4. \A p \in People : person'[p] = IF p \in away THEN Nobody ELSE person[p]
      BY <2>1
    <2>5. PeopleFine'
      <3>1. person' \in [People -> PersonRows \cup {Nobody}]
        BY <2>1, <2>3
      <3>2. \A p \in People : p > made.people => person'[p] = Nobody
        BY <2>4 DEF ImportInv, PeopleFine
      <3> QED BY <1>1, <2>3, <3>1, <3>2 DEF PeopleFine, PersonTyped
    <2>6. ASSUME NEW o \in OrderIds
          PROVE  \/ order'[o] = NoOrder
                 \/ /\ o \notin gone /\ Standing(o) /\ order'[o] \in OrderShapes
                    /\ order'[o].client = order[o].client /\ order'[o].batch = order[o].batch
                    /\ KeyOf(order'[o]) = KeyOf(order[o])
      <3>1. CASE o \in gone \/ ~Standing(o)
        BY <2>1, <3>1 DEF Standing
      <3>2. CASE o \notin gone /\ Standing(o)
        <4>1. order[o] \in OrderShapes
          BY <2>3, <3>2 DEF Standing
        <4>2. CASE order[o].by \in away
          <5>1. PICK former, new : former = order[o] /\ new = [former EXCEPT !.by = 0]
            OBVIOUS
          <5>2. order'[o] = new
            BY <2>1, <3>2, <4>2, <5>1
          <5>3. /\ new \in OrderShapes /\ new.client = former.client /\ new.batch = former.batch
                /\ new.what = former.what
            BY <4>1, <5>1 DEF OrderShapes
          <5> QED BY <3>2, <5>1, <5>2, <5>3 DEF KeyOf
        <4>3. CASE order[o].by \notin away
          <5>1. order'[o] = order[o]
            BY <2>1, <3>2, <4>3
          <5> QED BY <3>2, <4>1, <5>1
        <4> QED BY <4>2, <4>3
      <3> QED BY <3>1, <3>2
    <2>7. OrdersFine'
      <3>1. \A o \in OrderIds : order'[o] \in OrderShapes \cup {NoOrder}
        BY <2>6
      <3>2. order' \in [OrderIds -> OrderShapes \cup {NoOrder}]
        <4>1. PICK all : all = OrderShapes \cup {NoOrder}
          OBVIOUS
        <4>2. order' = [o \in OrderIds |-> order'[o]]
          BY <2>1
        <4> QED BY <3>1, <4>1, <4>2
      <3>3. \A o \in OrderIds : o > made.orders => order'[o] = NoOrder
        BY <2>6 DEF ImportInv, OrdersFine, Standing
      <3> QED BY <1>1, <3>2, <3>3 DEF OrdersFine
    <2>8. ClientsExist'
      <3>1. ASSUME NEW o \in OrderIds, order'[o] # NoOrder PROVE person'[order'[o].client].kind = "clients"
        <4>1. o \notin gone /\ Standing(o) /\ order'[o].client = order[o].client
          BY <2>6, <3>1
        <4>2. PICK client : client = order[o].client
          OBVIOUS
        <4>3. client \in People
          BY <2>3, <4>1, <4>2 DEF Standing, OrderShapes
        <4>4. person[client].kind = "clients"
          BY <4>1, <4>2 DEF ImportInv, ClientsExist
        <4>5. UsedElsewhere(b, client)
          BY <2>1, <4>1, <4>2 DEF UsedElsewhere
        <4>6. client \notin away
          BY <2>1, <4>4, <4>5
        <4> QED BY <2>4, <4>1, <4>2, <4>3, <4>4, <4>6
      <3> QED BY <3>1 DEF ClientsExist, Standing
    <2>9. BatchesFine'
      <3>1. PICK former, new : former = batches[b] /\ new = [former EXCEPT !.undone = TRUE]
        OBVIOUS
      <3>2. new \in BatchShapes
        <4>1. former \in BatchShapes
          BY <2>3, <3>1
        <4> QED BY <3>1, <4>1 DEF BatchShapes
      <3>3. batches' = [batches EXCEPT ![b] = new]
        BY <2>1, <3>1
      <3>4. batches' \in Seq(BatchShapes)
        BY <2>3, <3>2, <3>3
      <3> QED BY <2>1, <2>2, <3>4 DEF ImportInv, BatchesFine
    <2>10. DesksFine'
      <3>1. ASSUME NEW p \in People, p <= made.people
            PROVE  p <= made'.people /\ (person'[p] = person[p] \/ person'[p] = Nobody)
        BY <1>1, <2>4, <3>1
      <3>2. DOMAIN batches \subseteq DOMAIN batches'
        BY <2>1
      <3> QED BY <1>1, <3>1, <3>2, OthersRely
    <2>11. NothingTwice'
      <3>1. ASSUME NEW p \in People, person'[p] # Nobody PROVE person'[p] = person[p] /\ person[p] # Nobody
        BY <2>4, <3>1
      <3>2. ASSUME ~overlapped', NEW p \in People, NEW q \in People, p # q,
                   person'[p] # Nobody, person'[q] # Nobody
            PROVE  Apart(person'[p], person'[q])
        <4>1. Apart(person[p], person[q])
          BY <2>2, <3>1, <3>2, Apartness DEF ImportInv
        <4> QED BY <3>1, <3>2, <4>1
      <3>3. ASSUME ~overlapped', NEW o \in OrderIds, NEW x \in OrderIds, o # x,
                   order'[o] # NoOrder, order'[x] # NoOrder
            PROVE  order'[o].batch = 0 \/ order'[x].batch = 0 \/ KeyOf(order'[o]) # KeyOf(order'[x])
        <4>1. Standing(o) /\ order'[o].batch = order[o].batch /\ KeyOf(order'[o]) = KeyOf(order[o])
          BY <2>6, <3>3
        <4>2. Standing(x) /\ order'[x].batch = order[x].batch /\ KeyOf(order'[x]) = KeyOf(order[x])
          BY <2>6, <3>3
        <4>3. order[o].batch = 0 \/ order[x].batch = 0 \/ KeyOf(order[o]) # KeyOf(order[x])
          BY <2>2, <3>3, <4>1, <4>2, Apartness DEF ImportInv
        <4> QED BY <4>1, <4>2, <4>3
      <3> QED BY <3>2, <3>3, ApartnessNext DEF Standing
    <2> QED BY <2>2, <2>5, <2>7, <2>8, <2>9, <2>10, <2>11 DEF ImportInv
  <1> QED
    BY <1>2, <1>3

LEMMA ImportInitIsFine ==
    ASSUME ImportAssumptions, ImportInit
    PROVE  ImportInv
  <1>1. PICK all : all = Len(First)
    OBVIOUS
  <1>2. /\ First \in Seq(PersonRows) /\ all <= MaxPeople /\ MaxPeople \in Nat /\ MaxOrders \in Nat
        /\ \A p, q \in DOMAIN First : p # q => Apart(First[p], First[q])
    BY <1>1 DEF ImportAssumptions
  <1>3. all \in Nat /\ DOMAIN First = 1..all
    BY <1>1, <1>2
  <1>4. /\ person = [p \in People |-> IF p <= all THEN First[p] ELSE Nobody]
        /\ order = [o \in OrderIds |-> NoOrder] /\ attached = {} /\ batches = <<>>
        /\ desk = [c \in Importers |-> Idle] /\ made = [people |-> all, orders |-> 0] /\ overlapped = FALSE
    BY <1>1 DEF ImportInit
  <1>5. \A p \in People : p <= all => p \in DOMAIN First
    BY <1>3 DEF People
  <1>6. \A p \in People : person[p] = IF p <= all THEN First[p] ELSE Nobody
    BY <1>4
  <1>7. PeopleFine
    <2>1. \A p \in People : person[p] \in PersonRows \cup {Nobody}
      BY <1>2, <1>5, <1>6
    <2>2. person \in [People -> PersonRows \cup {Nobody}]
      <3>1. person = [p \in People |-> person[p]]
        BY <1>4
      <3>2. PICK s : s = PersonRows \cup {Nobody}
        OBVIOUS
      <3> QED BY <2>1, <3>1, <3>2
    <2>3. made \in [people : 0..MaxPeople, orders : 0..MaxOrders] /\ made.people = all
      <3>1. all \in 0..MaxPeople /\ 0 \in 0..MaxOrders
        BY <1>2, <1>3
      <3> QED BY <1>4, <3>1
    <2>4. \A p \in People : p > all => person[p] = Nobody
      <3>1. \A p \in People : p > all => ~(p <= all)
        BY <1>3 DEF People
      <3> QED BY <1>6, <3>1
    <2> QED BY <2>2, <2>3, <2>4 DEF PeopleFine, PersonTyped
  <1>8. \A o \in OrderIds : ~Standing(o)
    BY <1>4 DEF Standing
  <1>9. OrdersFine /\ ClientsExist
    BY <1>4, <1>8 DEF OrdersFine, ClientsExist
  <1>10. BatchesFine
    <2>1. <<>> \in Seq(BatchShapes)
      OBVIOUS
    <2> QED BY <1>4, <2>1 DEF BatchesFine
  <1>11. \A c \in Importers : desk[c] = Idle
    BY <1>4
  <1>12. DesksFine /\ Alone /\ Undisturbed
    BY <1>4, <1>11, IdleIs DEF DesksFine, Alone, Undisturbed
  <1>13. NothingTwice
    <2>1. ASSUME NEW p \in People, NEW q \in People, p # q, person[p] # Nobody, person[q] # Nobody
          PROVE  Apart(person[p], person[q])
      BY <1>2, <1>5, <1>6, <2>1
    <2> QED BY <1>8, <2>1, Apartness
  <1> QED
    BY <1>7, <1>9, <1>10, <1>12, <1>13 DEF ImportInv

LEMMA ImportNextKeeps ==
    ASSUME ImportAssumptions, ImportInv, [ImportNext]_importVars
    PROVE  ImportInv'
  <1>1. ASSUME NEW c \in Importers, NEW f \in Workbooks, Commit(c, f) PROVE ImportInv'
    <2>1. Begin(c, f, DOMAIN Workbook[f])
      BY <1>1 DEF Commit
    <2>2. DOMAIN Workbook[f] \subseteq DOMAIN Workbook[f]
      OBVIOUS
    <2> QED BY <2>1, <2>2, BeginKeeps
  <1>2. ASSUME NEW c \in Importers, NEW f \in Workbooks, NEW skip, CommitCombined(c, f, skip) PROVE ImportInv'
    <2>1. PICK chosen : chosen = PlanSheets(f, skip)
      OBVIOUS
    <2>2. chosen \subseteq DOMAIN Workbook[f]
      BY <2>1 DEF PlanSheets
    <2>3. Begin(c, f, chosen)
      BY <1>2, <2>1 DEF CommitCombined
    <2> QED BY <2>2, <2>3, BeginKeeps
  <1>3. ASSUME NEW c \in Importers, Save(c) PROVE ImportInv'
    BY <1>3, SaveKeeps
  <1>4. ASSUME NEW c \in Importers, EraseImport(c) PROVE ImportInv'
    BY <1>4, EraseKeeps
  <1>5. ASSUME NEW c \in Importers, NEW b \in DOMAIN batches, Undo(c, b) PROVE ImportInv'
    BY <1>5, UndoKeeps
  <1>6. ASSUME NEW o \in OrderIds, NEW w \in Attachments, Attach(o, w) PROVE ImportInv'
    BY <1>6, AttachKeeps
  <1>7. ASSUME NEW o \in OrderIds, NEW t \in People, Assign(o, t) PROVE ImportInv'
    BY <1>7, AssignKeeps
  <1>8. ASSUME NEW p \in People, OrderFor(p) PROVE ImportInv'
    BY <1>8, OrderForKeeps
  <1>9. ASSUME NEW p \in People, Deactivate(p) PROVE ImportInv'
    BY <1>9, DeactivateKeeps
  <1>10. CASE UNCHANGED importVars
    <2>1. /\ person' = person /\ order' = order /\ attached' = attached /\ batches' = batches
          /\ desk' = desk /\ made' = made /\ overlapped' = overlapped
      BY <1>10 DEF importVars
    <2>2. PeopleFine' /\ OrdersFine' /\ ClientsExist'
      BY <2>1 DEF ImportInv, PeopleFine, PersonTyped, OrdersFine, ClientsExist, Standing
    <2>3. BatchesFine' /\ Alone'
      BY <2>1 DEF ImportInv, BatchesFine, Alone
    <2>4. DesksFine'
      BY <2>1 DEF ImportInv, DesksFine, SaveFine, Relied
    <2>5. Undisturbed'
      BY <2>1 DEF ImportInv, Undisturbed, Fresh, PeopleNew, OrdersUndoable, PeopleUndoable, UsedElsewhere,
                  KeepsClients, Standing
    <2>6. NothingTwice'
      BY <2>1 DEF ImportInv, NothingTwice, Standing
    <2> QED BY <2>2, <2>3, <2>4, <2>5, <2>6 DEF ImportInv
  <1> QED
    BY <1>1, <1>2, <1>3, <1>4, <1>5, <1>6, <1>7, <1>8, <1>9, <1>10 DEF ImportNext

(***************************************************************************)
(* Ids are never given out again, the client of an order is someone the    *)
(* bureau has, and what a request alone at work has decided to save or to  *)
(* take back still holds when it writes.                                   *)
(***************************************************************************)
THEOREM ImportInvariance == ImportSpec => []ImportInv
  <1>1. ImportInit => ImportInv
    BY ImportAssumptions, ImportInitIsFine
  <1>2. ImportInv /\ [ImportNext]_importVars => ImportInv'
    BY ImportAssumptions, ImportNextKeeps
  <1> QED
    BY <1>1, <1>2, PTL DEF ImportSpec

(***************************************************************************)
(* Whatever is imported, and however often: unless two requests met, no    *)
(* two active people of a kind share a phone, no two translators or        *)
(* notaries a name, and no order of a client is there twice (Seen.match of *)
(* the planner, and the rows accepted before in the same file).            *)
(***************************************************************************)
THEOREM NothingTwiceHolds == ImportSpec => []NothingTwice
  <1>1. ImportInv => NothingTwice
    BY DEF ImportInv
  <1> QED
    BY <1>1, ImportInvariance, PTL

(* Undone by this step alone: the import that is taken back. *)
LEMMA UndoneByErasing ==
    ASSUME ImportInv, [ImportNext]_importVars, NEW b \in DOMAIN batches,
           batches'[b].undone, ~batches[b].undone
    PROVE  \E c \in Importers : EraseImport(c)
  <1>1. batches \in Seq(BatchShapes)
    BY DEF ImportInv, BatchesFine
  <1>2. batches' # batches
    OBVIOUS
  <1>3. ASSUME NEW c \in Importers, Save(c) PROVE batches'[b] = batches[b]
    <2>1. \/ batches' = batches
          \/ \E x : batches' = Append(batches, x)
      BY <1>3 DEF Save
    <2> QED BY <1>1, <2>1
  <1>4. ~\E c \in Importers : Save(c)
    BY <1>3
  <1>5. ~UNCHANGED importVars
    BY <1>2 DEF importVars
  <1> QED
    BY <1>2, <1>4, <1>5 DEF ImportNext, Commit, CommitCombined, Begin, Undo, Attach, Assign, OrderFor, Deactivate,
                            StaffStep

(* Such a step, alone at work, leaves every other order as it was. *)
LEMMA ErasedSpares ==
    ASSUME ImportInv, NEW c \in Importers, EraseImport(c), ~overlapped', NEW b \in DOMAIN batches,
           batches'[b].undone, ~batches[b].undone
    PROVE  /\ \A o \in OrderIds \ batches[b].orders : order'[o] = order[o]
           /\ \A a \in attached \ attached' : a[2] = "expense"
  <1>1. batches' # batches
    OBVIOUS
  <1>2. PICK x \in DOMAIN batches, gone \in SUBSET OrderIds, away \in SUBSET People : Erased(c, x, gone, away)
    BY <1>1, ErasedOrRefused
  <1>3. /\ x = desk[c].batch /\ desk[c].op = "undo" /\ gone = batches[x].orders /\ away \subseteq batches[x].people
        /\ \A p \in away : UsedElsewhere(x, p) => ~(person[p].kind = "clients" /\ KeepsClients(x))
        /\ order' = [o \in OrderIds |->
             IF o \in gone THEN NoOrder
             ELSE IF Standing(o) /\ order[o].by \in away THEN [order[o] EXCEPT !.by = 0] ELSE order[o]]
        /\ attached' = {a \in attached : a[1] \notin gone}
        /\ batches' = [batches EXCEPT ![x].undone = TRUE]
    BY <1>2 DEF Erased
  <1>4. x = b
    BY <1>3
  <1>5. OrdersUndoable(b) /\ PeopleUndoable(b)
    <2>1. ~overlapped
      BY DEF EraseImport
    <2> QED BY <1>3, <1>4, <2>1 DEF ImportInv, Undisturbed
  <1>6. ASSUME NEW o \in OrderIds \ batches[b].orders PROVE order'[o] = order[o]
    <2>1. o \notin gone
      BY <1>3, <1>4, <1>6
    <2>2. ASSUME Standing(o), order[o].by \in away PROVE FALSE
      <3>1. PICK by : by = order[o].by
        OBVIOUS
      <3>2. UsedElsewhere(b, by) /\ by \in batches[b].people /\ by \in away
        BY <1>3, <1>4, <1>6, <2>2, <3>1 DEF UsedElsewhere
      <3> QED BY <1>3, <1>4, <1>5, <3>2 DEF PeopleUndoable
    <2> QED BY <1>3, <2>1, <2>2
  <1>7. ASSUME NEW a \in attached \ attached' PROVE a[2] = "expense"
    <2>1. a \in OrderIds \X Attachments /\ a[1] \in batches[b].orders
      BY <1>3, <1>4, <1>7 DEF ImportInv, BatchesFine
    <2>2. <<a[1], a[2]>> \in attached /\ a[2] \in Attachments
      BY <1>7, <2>1
    <2> QED BY <1>5, <2>1, <2>2 DEF OrdersUndoable
  <1> QED
    BY <1>6, <1>7

(***************************************************************************)
(* An undo that met nobody takes back the import's own orders and nothing  *)
(* else: every other order stays as it was, translator included, no order  *)
(* is left without its client, and of what hangs from orders only an       *)
(* expense can go (undo_import looks at payments, payouts, files, comments *)
(* before it deletes).                                                     *)
(***************************************************************************)
THEOREM UndoSparesOthersHolds == ImportSpec => UndoSparesOthers
  <1>1. ASSUME ImportInv, ImportInv', [ImportNext]_importVars
        PROVE  [\A b \in DOMAIN batches :
                  (batches'[b].undone /\ ~batches[b].undone /\ ~overlapped') =>
                    /\ \A o \in OrderIds \ batches[b].orders : order'[o] = order[o]
                    /\ \A o \in OrderIds : order'[o] # NoOrder => person'[order'[o].client] # Nobody
                    /\ \A a \in attached \ attached' : a[2] = "expense"]_importVars
    <2>1. \A o \in OrderIds : order'[o] # NoOrder => person'[order'[o].client] # Nobody
      <3>1. \A o \in OrderIds : order'[o] # NoOrder => person'[order'[o].client].kind = "clients"
        BY <1>1 DEF ImportInv, ClientsExist, Standing
      <3>2. "clients" \in Kinds
        BY DEF Kinds
      <3> QED BY <3>1, <3>2, NobodyIs
    <2>2. ASSUME NEW b \in DOMAIN batches, batches'[b].undone, ~batches[b].undone, ~overlapped'
          PROVE  /\ \A o \in OrderIds \ batches[b].orders : order'[o] = order[o]
                 /\ \A a \in attached \ attached' : a[2] = "expense"
      <3>1. PICK c \in Importers : EraseImport(c)
        BY <1>1, <2>2, UndoneByErasing
      <3> QED BY <1>1, <2>2, <3>1, ErasedSpares
    <2> QED BY <2>1, <2>2
  <1> QED
    BY <1>1, ImportInvariance, PTL DEF ImportSpec, UndoSparesOthers
==============================================================================
