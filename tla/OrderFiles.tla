----------------------------- MODULE OrderFiles -----------------------------
(***************************************************************************)
(* The files of an order: rows in the database, bytes in object storage or *)
(* in the Order Vault, translators' plain working copies beside the vault, *)
(* and a mirror in the organisation's Google Drive.  Storage and Drive are *)
(* not in any transaction: what is put or deleted there stays so when the  *)
(* database rolls back.                                                    *)
(*                                                                         *)
(* A request that reads, and writes what it read later, is two actions.    *)
(* The nightly purge is one transaction per organisation with a storage    *)
(* call for each file; a sync holds row locks over its calls to Google.    *)
(***************************************************************************)
EXTENDS Integers, FiniteSets

CONSTANTS
    Files,      \* files somebody may upload; an upload sent again is another file
    InVault,    \* those uploaded after the switch to the Order Vault
    Documents,  \* order documents
    Orders,
    OrderOf,    \* the order of each document
    Clerks,     \* requests of staff that read first and write later
    Syncers,    \* API processes, and drive-sync, copying to Drive
    MaxTroubles, \* bound: failures, crashes, links and changes of status, in all
    None

ASSUME FilesAssumptions ==
    /\ IsFiniteSet(Files) /\ InVault \subseteq Files
    /\ OrderOf \in [Documents -> Orders]
    /\ MaxTroubles \in Nat
    /\ None \notin Documents \cup Orders

VARIABLES
    orders,      \* orders that exist
    documents,   \* documents that exist
    closed,      \* orders delivered, cancelled or rejected
    row,         \* row[f]: "none" before it is committed, "gone" when it is deleted
    on,          \* order_document_id
    working,     \* rows with a working_key
    ripe,        \* removed longer ago than file_retention_days
    old,         \* rows older than working_copy_max_days
    stored,      \* files whose bytes are in storage, or in the vault
    copies,      \* working copies in the plain storage
    up,          \* up[f]: where its upload stands, and the document it is for
    clerk,       \* clerk[c]: what a request has read and not yet written
    purge,       \* the nightly purge's transaction
    sync,        \* sync[s]: the order a sync has locked, the files it locked
    inDrive,     \* rows with a drive_file_id
    driveCopies, \* driveCopies[f]: copies of f in the Drive folder
    unrecorded,  \* history: copies of f whose id was never committed
    left         \* how many more troubles may happen

officeVars  == <<orders, documents, closed>>
rowVars     == <<row, on, working, ripe, old>>
storageVars == <<stored, copies>>
driveVars   == <<sync, inDrive, driveCopies, unrecorded>>
vars        == <<officeVars, rowVars, storageVars, up, clerk, purge, driveVars, left>>

Free     == [does |-> "nothing", what |-> None, files |-> {}]
NoPurge  == [at |-> "idle", todo |-> {}, orphans |-> {}, gone |-> {}, dropped |-> {}]
NoSync   == [order |-> None, batch |-> {}, done |-> {}]

DocumentsOf(o) == {d \in documents : OrderOf[d] = o}

Live == {f \in Files : row[f] = "live"}

LiveOn(ds) == {f \in Live : on[f] \in ds}

NoRowLocks == {}   \* a plausible bug: the sync reads its files without FOR UPDATE

(* Rows a sync holds FOR UPDATE: nobody else can write them. *)
Locked == UNION {sync[s].batch \cup sync[s].done : s \in Syncers}

Trouble == left > 0 /\ left' = left - 1

TypeOK ==
    /\ orders \subseteq Orders /\ documents \subseteq Documents /\ closed \subseteq Orders
    /\ row \in [Files -> {"none", "live", "removed", "gone"}]
    /\ on \in [Files -> Documents \cup {None}]
    /\ working \subseteq InVault /\ ripe \subseteq Files /\ old \subseteq Files
    /\ stored \subseteq Files /\ copies \subseteq InVault
    /\ up \in [Files -> [at : {"no", "begun", "copied", "stored", "over"},
                         to : Documents \cup {None}]]
    /\ clerk \in [Clerks -> [does : {"nothing", "document", "order", "link"},
                             what : Documents \cup Orders \cup {None}, files : SUBSET Files]]
    /\ purge \in [at : {"idle", "removing", "dropping"}, todo : SUBSET Files,
                  orphans : SUBSET Files, gone : SUBSET Files, dropped : SUBSET Files]
    /\ sync \in [Syncers -> [order : Orders \cup {None}, batch : SUBSET Files,
                             done : SUBSET Files]]
    /\ inDrive \subseteq Files
    /\ driveCopies \in [Files -> Nat] /\ unrecorded \in [Files -> Nat]
    /\ left \in 0..MaxTroubles

Init ==
    /\ orders = Orders /\ documents = Documents /\ closed = {}
    /\ row = [f \in Files |-> "none"]
    /\ on = [f \in Files |-> None]
    /\ working = {} /\ ripe = {} /\ old = {} /\ stored = {} /\ copies = {}
    /\ up = [f \in Files |-> [at |-> "no", to |-> None]]
    /\ clerk = [c \in Clerks |-> Free]
    /\ purge = NoPurge
    /\ sync = [s \in Syncers |-> NoSync]
    /\ inDrive = {}
    /\ driveCopies = [f \in Files |-> 0] /\ unrecorded = [f \in Files |-> 0]
    /\ left = MaxTroubles

-----------------------------------------------------------------------------
(* Uploading: the working copy, the archive, then the row.                 *)

UploadGoes(f, from, to) ==
    /\ up[f].at = from
    /\ up' = [up EXCEPT ![f].at = to]
    /\ UNCHANGED <<officeVars, clerk, purge, driveVars>>

BeginUpload(f, d) ==
    /\ up[f].at = "no" /\ d \in documents
    /\ up' = [up EXCEPT ![f] = [at |-> "begun", to |-> d]]
    /\ UNCHANGED <<officeVars, rowVars, storageVars, clerk, purge, driveVars, left>>

PutWorking(f) ==
    /\ f \in InVault
    /\ UploadGoes(f, "begun", "copied")
    /\ copies' = copies \cup {f}
    /\ UNCHANGED <<rowVars, stored, left>>

(* Refused, or done and the answer lost. *)
PutWorkingFails(f) ==
    /\ f \in InVault
    /\ Trouble
    /\ UploadGoes(f, "begun", "over")
    /\ \E kept \in SUBSET {f} : copies' = copies \cup kept
    /\ UNCHANGED <<rowVars, stored>>

ReadyToStore(f) == IF f \in InVault THEN "copied" ELSE "begun"

StoreFile(f) ==
    /\ UploadGoes(f, ReadyToStore(f), "stored")
    /\ stored' = stored \cup {f}
    /\ UNCHANGED <<rowVars, copies, left>>

(* The working copy is deleted again, as well as the storage lets it. *)
StoreFails(f) ==
    /\ Trouble
    /\ UploadGoes(f, ReadyToStore(f), "over")
    /\ \E kept \in SUBSET {f} : stored' = stored \cup kept
    /\ \E removed \in SUBSET {f} : copies' = copies \ removed
    /\ UNCHANGED rowVars

(* working_key is set when a copy was made. *)
WorkingKey(f) == {f} \cap InVault

(* The row commits; or its document is gone and the foreign key refuses it. *)
RecordFile(f) ==
    /\ UploadGoes(f, "stored", "over")
    /\ IF up[f].to \in documents
       THEN /\ row' = [row EXCEPT ![f] = "live"]
            /\ on' = [on EXCEPT ![f] = up[f].to]
            /\ working' = working \cup WorkingKey(f)
            /\ UNCHANGED <<ripe, old>>
       ELSE UNCHANGED rowVars
    /\ UNCHANGED <<storageVars, left>>

UploadDies(f) ==
    /\ Trouble
    /\ \E stage \in {"begun", "copied", "stored"} : UploadGoes(f, stage, "over")
    /\ UNCHANGED <<rowVars, storageVars>>

-----------------------------------------------------------------------------
(* Staff remove files, link them to another document, delete documents.    *)

RemoveFile(f) ==
    /\ f \in LiveOn(documents) \ Locked
    /\ row' = [row EXCEPT ![f] = "removed"]
    /\ UNCHANGED <<officeVars, on, working, ripe, old, storageVars, up, clerk, purge,
                   driveVars, left>>

Reads(c, does, what, files) ==
    /\ clerk[c] = Free
    /\ clerk' = [clerk EXCEPT ![c] = [does |-> does, what |-> what, files |-> files]]
    /\ UNCHANGED <<officeVars, rowVars, storageVars, up, purge, driveVars>>

(* link_files, what it reads; it moves nothing unless it can move all. *)
ReadLink(c, files, d) ==
    /\ Trouble
    /\ d \in documents /\ files # {}
    /\ files \subseteq LiveOn(DocumentsOf(OrderOf[d]) \ {d})
    /\ Reads(c, "link", d, files)

LinkFiles(c) ==
    /\ clerk[c].does = "link"
    /\ clerk[c].files \cap Locked = {}
    /\ clerk' = [clerk EXCEPT ![c] = Free]
    /\ on' = IF clerk[c].what \in documents
             THEN [f \in Files |-> IF f \in clerk[c].files THEN clerk[c].what ELSE on[f]]
             ELSE on
    /\ UNCHANGED <<officeVars, row, working, ripe, old, storageVars, up, purge, driveVars, left>>

(* An order keeps one document, as far as this request can see. *)
ReadDeleteDocument(c, d) ==
    /\ d \in documents
    /\ Cardinality(DocumentsOf(OrderOf[d])) > 1
    /\ Reads(c, "document", d, LiveOn({d}))
    /\ UNCHANGED left

ReadDeleteOrder(c, o) ==
    /\ o \in orders
    /\ Reads(c, "order", o, LiveOn(DocumentsOf(o)))
    /\ UNCHANGED left

(* The files that were read are marked removed, wherever they are by now;    *)
(* the documents go, and files still on them lose their document.            *)
DeleteDocuments(c, ds) ==
    LET lost == {f \in Files : on[f] \in ds} IN
    /\ (clerk[c].files \cup lost) \cap Locked = {}
    /\ clerk' = [clerk EXCEPT ![c] = Free]
    /\ documents' = documents \ ds
    /\ row' = [f \in Files |-> IF f \in clerk[c].files THEN "removed" ELSE row[f]]
    /\ on' = [f \in Files |-> IF f \in lost THEN None ELSE on[f]]
    /\ UNCHANGED <<closed, working, ripe, old, storageVars, up, purge, driveVars, left>>

DeleteDocument(c) ==
    /\ clerk[c].does = "document"
    /\ DeleteDocuments(c, {clerk[c].what})
    /\ UNCHANGED orders

DeleteOrder(c) ==
    /\ clerk[c].does = "order"
    /\ \A s \in Syncers : sync[s].order # clerk[c].what
    /\ DeleteDocuments(c, DocumentsOf(clerk[c].what))
    /\ orders' = orders \ {clerk[c].what}

(* The order's status reaches a closed one, or leaves it. *)
ChangeStatus(o) ==
    /\ Trouble
    /\ o \in orders
    /\ closed' = IF o \in closed THEN closed \ {o} ELSE closed \cup {o}
    /\ UNCHANGED <<orders, documents, rowVars, storageVars, up, clerk, purge, driveVars>>

-----------------------------------------------------------------------------
(* Time, and the nightly purge.                                            *)

(* The retention period is over; no request takes as long. *)
Ripen(f) ==
    /\ row[f] = "removed" /\ f \notin ripe
    /\ \A c \in Clerks : clerk[c] = Free
    /\ ripe' = ripe \cup {f}
    /\ UNCHANGED <<officeVars, row, on, working, old, storageVars, up, clerk, purge,
                   driveVars, left>>

GrowOld(f) ==
    /\ f \in working \ old
    /\ old' = old \cup {f}
    /\ UNCHANGED <<officeVars, row, on, working, ripe, storageVars, up, clerk, purge,
                   driveVars, left>>

AllRemoved == {f \in Files : row[f] = "removed"}   \* a plausible bug: no retention

DueForRemoval == {f \in ripe : row[f] = "removed"}

NoOrphans == {}   \* a plausible bug: only what a handler marked is reclaimed

(* Live rows whose document went without the handler seeing them. *)
Orphans == {f \in Live : on[f] = None}

PurgeBegins ==
    /\ purge = NoPurge
    /\ purge' = [NoPurge EXCEPT !.at = "removing", !.todo = DueForRemoval, !.orphans = Orphans]
    /\ UNCHANGED <<officeVars, rowVars, storageVars, up, clerk, driveVars, left>>

PurgeFile(f) ==
    /\ purge.at = "removing" /\ f \in purge.todo
    /\ copies' = IF f \in working THEN copies \ {f} ELSE copies
    /\ stored' = stored \ {f}
    /\ purge' = [purge EXCEPT !.todo = @ \ {f}, !.gone = @ \cup {f}]
    /\ UNCHANGED <<officeVars, rowVars, up, clerk, driveVars, left>>

RowGoesAnyway(f) == {f}   \* a plausible bug: the row is deleted though the bytes are not

RowGoes(f) == {}

(* The storage refuses: the row stays, even if its copy is already gone. *)
PurgeFileFails(f) ==
    /\ Trouble
    /\ purge.at = "removing" /\ f \in purge.todo
    /\ \E removed \in SUBSET ({f} \cap working) : copies' = copies \ removed
    /\ purge' = [purge EXCEPT !.todo = @ \ {f}, !.gone = @ \cup RowGoes(f)]
    /\ UNCHANGED <<officeVars, rowVars, stored, up, clerk, driveVars>>

NeverPastTheCap(f) ==   \* a plausible bug: only what is removed or closed
    row[f] = "removed" \/ on[f] = None \/ OrderOf[on[f]] \in closed

(* Removed, without a document, of a closed order, or past the cap. *)
CopyDue(f) ==
    \/ row[f] = "removed" \/ on[f] = None
    \/ OrderOf[on[f]] \in closed
    \/ f \in old

PurgeTurnsToCopies ==
    /\ purge.at = "removing" /\ purge.todo = {}
    /\ purge' = [purge EXCEPT !.at = "dropping",
                     !.todo = {f \in working \ purge.gone : CopyDue(f)}]
    /\ UNCHANGED <<officeVars, rowVars, storageVars, up, clerk, driveVars, left>>

DropCopy(f) ==
    /\ purge.at = "dropping" /\ f \in purge.todo
    /\ copies' = copies \ {f}
    /\ purge' = [purge EXCEPT !.todo = @ \ {f}, !.dropped = @ \cup {f}]
    /\ UNCHANGED <<officeVars, rowVars, stored, up, clerk, driveVars, left>>

DropCopyFails(f) ==
    /\ Trouble
    /\ purge.at = "dropping" /\ f \in purge.todo
    /\ purge' = [purge EXCEPT !.todo = @ \ {f}]
    /\ UNCHANGED <<officeVars, rowVars, storageVars, up, clerk, driveVars>>

PurgeCommits ==
    /\ purge.at = "dropping" /\ purge.todo = {}
    /\ (purge.orphans \cup purge.gone \cup purge.dropped) \cap Locked = {}
    /\ row' = [f \in Files |-> IF f \in purge.gone THEN "gone"
                               ELSE IF f \in purge.orphans THEN "removed" ELSE row[f]]
    /\ working' = working \ (purge.gone \cup purge.dropped)
    /\ purge' = NoPurge
    /\ UNCHANGED <<officeVars, on, ripe, old, storageVars, up, clerk, driveVars, left>>

(* Rolled back: the rows are as they were, what was deleted is deleted. *)
PurgeDies ==
    /\ Trouble
    /\ purge.at # "idle"
    /\ purge' = NoPurge
    /\ UNCHANGED <<officeVars, rowVars, storageVars, up, clerk, driveVars>>

-----------------------------------------------------------------------------
(* The mirror in Google Drive.                                             *)

ToCopy(o) == LiveOn(DocumentsOf(o)) \ inDrive

NotHeld(o) == TRUE   \* a plausible bug: the order is read without FOR UPDATE

(* No other process has the order's row FOR UPDATE. *)
OrderFree(o) == \A s \in Syncers : sync[s].order # o

Readable(f) == IF f \in InVault THEN f \in working \cap copies ELSE f \in stored

BeginSync(s, o) ==
    /\ sync[s] = NoSync
    /\ o \in orders /\ OrderFree(o) /\ ToCopy(o) # {}
    /\ sync' = [sync EXCEPT ![s] = [order |-> o, batch |-> ToCopy(o), done |-> {}]]
    /\ UNCHANGED <<officeVars, rowVars, storageVars, up, clerk, purge, inDrive, driveCopies,
                   unrecorded, left>>

(* One file after the other; one that cannot be read is passed over. *)
CopyToDrive(s, f) ==
    /\ f \in sync[s].batch
    /\ sync' = [sync EXCEPT ![s].batch = @ \ {f},
                            ![s].done = IF Readable(f) THEN @ \cup {f} ELSE @]
    /\ driveCopies' = IF Readable(f) THEN [driveCopies EXCEPT ![f] = @ + 1] ELSE driveCopies
    /\ UNCHANGED <<officeVars, rowVars, storageVars, up, clerk, purge, inDrive, unrecorded, left>>

(* Google refuses, or the answer is lost: the rest waits for another sync. *)
DriveRefuses(s, f) ==
    /\ Trouble
    /\ f \in sync[s].batch /\ Readable(f)
    /\ sync' = [sync EXCEPT ![s].batch = {}]
    /\ \E n \in {0, 1} :
          /\ driveCopies' = [driveCopies EXCEPT ![f] = @ + n]
          /\ unrecorded' = [unrecorded EXCEPT ![f] = @ + n]
    /\ UNCHANGED <<officeVars, rowVars, storageVars, up, clerk, purge, inDrive>>

CommitSync(s) ==
    /\ sync[s] # NoSync /\ sync[s].batch = {}
    /\ inDrive' = inDrive \cup sync[s].done
    /\ sync' = [sync EXCEPT ![s] = NoSync]
    /\ UNCHANGED <<officeVars, rowVars, storageVars, up, clerk, purge, driveCopies, unrecorded,
                   left>>

SyncDies(s) ==
    /\ Trouble
    /\ sync[s] # NoSync
    /\ unrecorded' = [f \in Files |->
                         IF f \in sync[s].done THEN unrecorded[f] + 1 ELSE unrecorded[f]]
    /\ sync' = [sync EXCEPT ![s] = NoSync]
    /\ UNCHANGED <<officeVars, rowVars, storageVars, up, clerk, purge, inDrive, driveCopies>>

-----------------------------------------------------------------------------

Upload(f) ==
    \/ \E d \in Documents : BeginUpload(f, d)
    \/ PutWorking(f) \/ PutWorkingFails(f) \/ StoreFile(f) \/ StoreFails(f)
    \/ RecordFile(f) \/ UploadDies(f)

ClerkReads(c) ==
    \/ \E files \in SUBSET Files, d \in Documents : ReadLink(c, files, d)
    \/ \E d \in Documents : ReadDeleteDocument(c, d)
    \/ \E o \in Orders : ReadDeleteOrder(c, o)

ClerkWrites(c) == LinkFiles(c) \/ DeleteDocument(c) \/ DeleteOrder(c)

PurgeWorks ==
    \/ PurgeBegins \/ PurgeTurnsToCopies
    \/ \E f \in Files : PurgeFile(f) \/ DropCopy(f)

PurgeTroubles == PurgeDies \/ \E f \in Files : PurgeFileFails(f) \/ DropCopyFails(f)

SyncWorks(s) == CommitSync(s) \/ \E f \in Files : CopyToDrive(s, f)

SyncTroubles(s) == SyncDies(s) \/ \E f \in Files : DriveRefuses(s, f)

Next ==
    \/ \E f \in Files : Upload(f) \/ RemoveFile(f) \/ Ripen(f) \/ GrowOld(f)
    \/ \E c \in Clerks : ClerkReads(c) \/ ClerkWrites(c)
    \/ \E o \in Orders : ChangeStatus(o)
    \/ PurgeWorks \/ PurgeCommits \/ PurgeTroubles
    \/ \E s \in Syncers : SyncWorks(s) \/ SyncTroubles(s) \/ \E o \in Orders : BeginSync(s, o)

Spec == Init /\ [][Next]_vars

(* The purge runs every night and time passes; a request or a sync that was *)
(* begun ends; whoever waits for a row lock gets it in his turn.            *)
Fairness ==
    /\ WF_vars(PurgeWorks) /\ SF_vars(PurgeCommits)
    /\ \A f \in Files : WF_vars(Ripen(f)) /\ WF_vars(GrowOld(f))
    /\ \A c \in Clerks : SF_vars(ClerkWrites(c))
    /\ \A s \in Syncers : WF_vars(SyncWorks(s))

FairSpec == Spec /\ Fairness

-----------------------------------------------------------------------------
(* Properties. *)

(* A file has its bytes until its retention period is over: live or removed, *)
(* moved or orphaned, and whatever the purge was doing when it died.         *)
Recoverable == \A f \in Files : row[f] \in {"live", "removed"} /\ f \notin ripe => f \in stored

(* The purge forgets a row only when nothing of the file is left anywhere.   *)
PurgeLeavesNothing == \A f \in Files : row[f] = "gone" => f \notin stored \cup copies

(* A file is copied to Drive once, however many processes sync its order;    *)
(* more than once only when a copy could not be recorded.                    *)
CopiedOnce ==
    LET recorded == inDrive \cup UNION {sync[s].done : s \in Syncers} IN
    \A f \in Files : driveCopies[f] <= unrecorded[f] + (IF f \in recorded THEN 1 ELSE 0)

(* A file that was removed is not copied to Drive afterwards, not even by a  *)
(* sync that had begun.                                                      *)
OnlyLiveIntoDrive ==
    [][\A f \in Files : driveCopies'[f] > driveCopies[f] => row[f] = "live"]_vars

(* Nothing is kept for ever: what was removed, and what lost its document    *)
(* without anybody marking it, is reclaimed.                                 *)
Reclaimed ==
    \A f \in Files : (row[f] = "removed" \/ (row[f] = "live" /\ on[f] = None)) ~> row[f] = "gone"

(* A working copy that a row knows of does not outlive the cap, though its   *)
(* order is never closed.                                                    *)
CopiesAreCapped == \A f \in Files : f \in old ~> f \notin copies

(* The comment in upload_document_file on the working copy and the vault:    *)
(* both are made, or neither.                                                *)
BothOrNeither == \A f \in Files : up[f].at = "over" /\ f \in copies => f \in stored
=============================================================================
