------------------------------ MODULE Translate ------------------------------
(***************************************************************************)
(* Suliko Translate on the files of an order, and correcting what it made. *)
(*                                                                         *)
(* Staff (Office) and translators (the portal) hand a source file to       *)
(* suliko.ge, which charges whoever asked and works on it.  There is no    *)
(* worker here: looking at the document's translations is what asks        *)
(* suliko.ge and files a finished result.  Requests interleave; what one   *)
(* writes is seen by others when it commits.                               *)
(***************************************************************************)
EXTENDS Integers, FiniteSets, FiniteSetsExt

CONSTANTS
    Sources,                      \* source files of the document
    People,                       \* who is at work; a portal user or staff
    PortalUsers,
    MaxPages,                     \* each one's suliko.ge balance at first
    MaxJobs, MaxFiles, MaxSaves,  \* bounds
    None

ASSUME TranslateAssumptions ==
    /\ PortalUsers \subseteq People
    /\ {MaxPages, MaxJobs, MaxFiles, MaxSaves} \subseteq Nat

Jobs  == 1..MaxJobs    \* suliko.ge's jobs, and our rows for them
Files == 1..MaxFiles   \* translation files of the document

RemoteStates == {"processing", "completed", "failed", "forgotten"}

JobRows ==
    [source : Sources, by : People, status : {"processing", "completed", "failed"},
     result : Files \cup {0}, html : BOOLEAN]

FileRows ==
    [by : People \cup {"suliko"}, removed : BOOLEAN, of : Jobs, made : BOOLEAN, html : BOOLEAN]

ASSUME NoneAssumption ==   \* where a row or a person could be, None says there is none
    None \notin People \cup RemoteStates \cup JobRows \cup FileRows

VARIABLES
    remote,      \* remote[j]: what suliko.ge says of job j, None before it exists
    balance,     \* suliko.ge's balances
    job,         \* job[j]: our row, None when there is none
    file,        \* file[f]: uploader, removed, the job it is filed for
    lock,        \* the job rows a transaction has updated and not committed: job -> request
    desk,        \* desk[p]: where p's request is
    overlapped,  \* history: two clicks on one file were in flight together
    saves        \* corrections left

vars == <<remote, balance, job, file, lock, desk, overlapped, saves>>

Idle == [step |-> "idle"]

Goto(p, where) == desk' = [desk EXCEPT ![p] = where]

FreeFile == Min({f \in Files : file[f] = None})
HasRoom  == \E f \in Files : file[f] = None

-----------------------------------------------------------------------------
(* Starting one. *)

NeverRunning(s) == {}   \* a plausible bug: the running job is not looked for

RunningOn(s) == {j \in Jobs : job[j] # None /\ job[j].source = s /\ job[j].status = "processing"}

(***************************************************************************)
(* A click on a file that is being translated gets the running job: staff  *)
(* are shown it, a translator who did not start it is told to wait.        *)
(***************************************************************************)
StartTranslation(p, s) ==
    /\ desk[p] = Idle
    /\ RunningOn(s) = {}
    /\ Goto(p, [step |-> "send", source |-> s])
    /\ overlapped' = (overlapped \/ \E q \in People : desk[q].step \in {"send", "record"} /\ desk[q].source = s)
    /\ UNCHANGED <<remote, balance, job, file, lock, saves>>

TranslateFile(p, s) == p \notin PortalUsers /\ StartTranslation(p, s)

TranslateAssignedFile(p, s) == p \in PortalUsers /\ StartTranslation(p, s)

(* suliko.ge counts the pages before anything is charged. *)
Covered(p) == balance[p] > 0

(* prepare, the balance, start: suliko.ge takes the page when the job starts. *)
Send(p) ==
    /\ desk[p].step = "send"
    /\ \E j \in Jobs :
        /\ remote[j] = None /\ \A i \in 1..j-1 : remote[i] # None
        /\ Covered(p)
        /\ remote' = [remote EXCEPT ![j] = "processing"]
        /\ balance' = [balance EXCEPT ![p] = @ - 1]
        /\ Goto(p, [step |-> "record", source |-> desk[p].source, job |-> j])
    /\ UNCHANGED <<job, file, lock, overlapped, saves>>

(* The balance does not cover it, suliko.ge refuses the file or cannot be reached. *)
SendRefused(p) ==
    /\ desk[p].step = "send"
    /\ Goto(p, Idle)
    /\ UNCHANGED <<remote, balance, job, file, lock, overlapped, saves>>

NewJob(p, s) == [source |-> s, by |-> p, status |-> "processing", result |-> 0, html |-> FALSE]

Record(p) ==
    /\ desk[p].step = "record"
    /\ job' = [job EXCEPT ![desk[p].job] = NewJob(p, desk[p].source)]
    /\ Goto(p, Idle)
    /\ UNCHANGED <<remote, balance, file, lock, overlapped, saves>>

(* The answer or the commit is lost: the page is charged and nothing here knows of the job. *)
RecordLost(p) ==
    /\ desk[p].step = "record"
    /\ Goto(p, Idle)
    /\ UNCHANGED <<remote, balance, job, file, lock, overlapped, saves>>

-----------------------------------------------------------------------------
(* suliko.ge. *)

RemoteEnds(j, how) ==
    /\ remote[j] = "processing"
    /\ remote' = [remote EXCEPT ![j] = how]
    /\ UNCHANGED <<balance, job, file, lock, desk, overlapped, saves>>

(* It keeps a job for a while and then forgets it; asked about it, it says 404. *)
RemoteForgets(j) ==
    /\ remote[j] \in {"completed", "failed"}
    /\ remote' = [remote EXCEPT ![j] = "forgotten"]
    /\ UNCHANGED <<balance, job, file, lock, desk, overlapped, saves>>

-----------------------------------------------------------------------------
(* Following them: the rows are read, then suliko.ge is asked about each one. *)

Refresh(p, j) ==
    /\ desk[p] = Idle
    /\ job[j] # None /\ job[j].status = "processing"
    /\ Goto(p, [step |-> "ask", job |-> j])
    /\ UNCHANGED <<remote, balance, job, file, lock, overlapped, saves>>

ListTranslations(p, j) == p \notin PortalUsers /\ Refresh(p, j)

OwnJob(p, j) == job[j] # None /\ job[j].by = p

(* A translator follows only the jobs they started. *)
ListAssignedTranslations(p, j) == p \in PortalUsers /\ OwnJob(p, j) /\ Refresh(p, j)

AskNothingNew(p) ==   \* still running, or unreachable
    /\ desk[p].step = "ask"
    /\ Goto(p, Idle)
    /\ UNCHANGED <<remote, balance, job, file, lock, overlapped, saves>>

AskFailed(p) ==
    /\ desk[p].step = "ask" /\ remote[desk[p].job] \in {"failed", "forgotten"}
    /\ lock[desk[p].job] = None
    /\ job' = [job EXCEPT ![desk[p].job].status = "failed"]
    /\ Goto(p, Idle)
    /\ UNCHANGED <<remote, balance, file, lock, overlapped, saves>>

Always(j) == TRUE   \* a plausible bug: the row is updated without a condition

Claimable(j) == job[j].status = "processing"

(* UPDATE ... WHERE status = processing, waiting for a row another transaction has. *)
Claim(p) ==
    LET j == desk[p].job
    IN  /\ desk[p].step = "ask" /\ remote[j] = "completed"
        /\ lock[j] = None
        /\ IF Claimable(j)
           THEN lock' = [lock EXCEPT ![j] = p] /\ Goto(p, [step |-> "fetch", job |-> j])
           ELSE UNCHANGED lock /\ Goto(p, Idle)
        /\ UNCHANGED <<remote, balance, job, file, overlapped, saves>>

FetchResult(p) ==
    /\ desk[p].step = "fetch" /\ remote[desk[p].job] = "completed"
    /\ Goto(p, [step |-> "store", job |-> desk[p].job])
    /\ UNCHANGED <<remote, balance, job, file, lock, overlapped, saves>>

(***************************************************************************)
(* suliko.ge cannot be reached, or no longer has the job.  The caller      *)
(* swallows the error, and the request commits with the row claimed.       *)
(***************************************************************************)
FetchFails(p) ==
    LET j == desk[p].job
    IN  /\ desk[p].step = "fetch"
        /\ job' = [job EXCEPT ![j].status = "completed"]
        /\ lock' = [lock EXCEPT ![j] = None]
        /\ Goto(p, Idle)
        /\ UNCHANGED <<remote, balance, file, overlapped, saves>>

(* A result a translator started is theirs; one staff started is Suliko Translate's. *)
ResultUploader(j) == IF job[j].by \in PortalUsers THEN job[j].by ELSE "suliko"

(* Kept as a Word file with its HTML beside it, or as HTML where Word cannot be made. *)
Collect(p, word) ==
    LET j == desk[p].job
    IN  /\ desk[p].step = "store" /\ HasRoom
        /\ file' = [file EXCEPT ![FreeFile] =
                      [by |-> ResultUploader(j), removed |-> FALSE, of |-> j, made |-> TRUE, html |-> ~word]]
        /\ job' = [job EXCEPT ![j].status = "completed", ![j].result = FreeFile, ![j].html = word]
        /\ lock' = [lock EXCEPT ![j] = None]
        /\ Goto(p, Idle)
        /\ UNCHANGED <<remote, balance, overlapped, saves>>

(* The storage fails: the request ends in an error and the claim is rolled back. *)
StoreFails(p) ==
    /\ desk[p].step = "store"
    /\ lock' = [lock EXCEPT ![desk[p].job] = None]
    /\ Goto(p, Idle)
    /\ UNCHANGED <<remote, balance, job, file, overlapped, saves>>

-----------------------------------------------------------------------------
(* Correcting one: a new file in the old one's place, and the record follows. *)

RecordsOf(f) == {j \in Jobs : job[j] # None /\ job[j].result = f}

Editable(f, editor) ==
    /\ file[f] # None /\ ~file[f].removed
    /\ editor = "html" => file[f].html \/ \E j \in RecordsOf(f) : job[j].html

OpenForEdit(p, f, editor) ==
    /\ desk[p] = Idle /\ p \notin PortalUsers /\ saves > 0
    /\ Editable(f, editor)
    /\ saves' = saves - 1
    /\ Goto(p, [step |-> editor, file |-> f, records |-> RecordsOf(f)])
    /\ UNCHANGED <<remote, balance, job, file, lock, overlapped>>

Replace(p, stillHtml) ==
    LET f == desk[p].file
        new == [by |-> p, removed |-> FALSE, of |-> file[f].of, made |-> FALSE, html |-> stillHtml]
    IN  file' = [file EXCEPT ![f].removed = TRUE, ![FreeFile] = new]

(* The Word file is built again from the corrected HTML. *)
SaveTranslation(p) ==
    /\ desk[p].step = "html" /\ HasRoom
    /\ Replace(p, desk[p].records = {})
    /\ job' = [j \in Jobs |-> IF j \in desk[p].records THEN [job[j] EXCEPT !.result = FreeFile, !.html = TRUE]
                              ELSE job[j]]
    /\ Goto(p, Idle)
    /\ UNCHANGED <<remote, balance, lock, overlapped, saves>>

(* The word editor's document replaces the file, and the HTML it was made from goes. *)
SaveWordDocument(p) ==
    LET now == RecordsOf(desk[p].file)
    IN  /\ desk[p].step = "word" /\ HasRoom
        /\ Replace(p, FALSE)
        /\ job' = [j \in Jobs |-> IF j \in now THEN [job[j] EXCEPT !.result = FreeFile, !.html = FALSE] ELSE job[j]]
        /\ Goto(p, Idle)
        /\ UNCHANGED <<remote, balance, lock, overlapped, saves>>

(* What the editor sent is empty, or is not a Word document. *)
SaveRefused(p) ==
    /\ desk[p].step \in {"html", "word"}
    /\ Goto(p, Idle)
    /\ UNCHANGED <<remote, balance, job, file, lock, overlapped, saves>>

(* A translator removes what they uploaded. *)
DeleteOrderFile(p, f) ==
    /\ desk[p] = Idle /\ file[f] # None /\ ~file[f].removed
    /\ file[f].by = p
    /\ file' = [file EXCEPT ![f].removed = TRUE]
    /\ UNCHANGED <<remote, balance, job, lock, desk, overlapped, saves>>

-----------------------------------------------------------------------------
Init ==
    /\ remote = [j \in Jobs |-> None]
    /\ balance = [p \in People |-> MaxPages]
    /\ job = [j \in Jobs |-> None]
    /\ file = [f \in Files |-> None]
    /\ lock = [j \in Jobs |-> None]
    /\ desk = [p \in People |-> Idle]
    /\ overlapped = FALSE
    /\ saves = MaxSaves

Next ==
    \/ \E p \in People, s \in Sources : TranslateFile(p, s) \/ TranslateAssignedFile(p, s)
    \/ \E p \in People : \/ Send(p) \/ SendRefused(p) \/ Record(p) \/ RecordLost(p)
                         \/ AskNothingNew(p) \/ AskFailed(p) \/ Claim(p)
                         \/ FetchResult(p) \/ FetchFails(p) \/ StoreFails(p)
                         \/ SaveTranslation(p) \/ SaveWordDocument(p) \/ SaveRefused(p)
    \/ \E p \in People, word \in BOOLEAN : Collect(p, word)
    \/ \E p \in People, j \in Jobs : ListTranslations(p, j) \/ ListAssignedTranslations(p, j)
    \/ \E j \in Jobs, how \in {"completed", "failed"} : RemoteEnds(j, how)
    \/ \E j \in Jobs : RemoteForgets(j)
    \/ \E p \in People, f \in Files, editor \in {"html", "word"} : OpenForEdit(p, f, editor)
    \/ \E p \in People, f \in Files : DeleteOrderFile(p, f)

Spec == Init /\ [][Next]_vars

-----------------------------------------------------------------------------
(***************************************************************************)
(* "Two people looking at the order at the moment a job finishes must not  *)
(* file it twice": whoever looks, and however often, a job has at most one *)
(* file that was filed for it, and a result its record names was made from *)
(* that job.                                                               *)
(***************************************************************************)
FiledOnce ==
    \A j \in Jobs :
        /\ Cardinality({f \in Files : file[f] # None /\ file[f].made /\ file[f].of = j}) <= 1
        /\ job[j] # None /\ job[j].result # 0 => file[job[j].result].of = j

(***************************************************************************)
(* "A second click while the first is still running gets the same job, not *)
(* a second charge": as long as two clicks on a file were not in flight    *)
(* together, suliko.ge never has two jobs at work on one file that are     *)
(* recorded, or about to be recorded, here.                                *)
(***************************************************************************)
OneCharge ==
    ~overlapped =>
        \A s \in Sources :
            Cardinality({j \in Jobs : remote[j] = "processing" /\
                (\/ job[j] # None /\ job[j].source = s
                 \/ \E p \in People : desk[p].step = "record" /\ desk[p].source = s /\ desk[p].job = j)}) <= 1

(***************************************************************************)
(* "suliko.ge being unreachable is not news about the job: it is left as   *)
(* it is, to be asked about on the next look": a job that is marked        *)
(* completed has a result.                                                 *)
(***************************************************************************)
CompletedHasResult ==
    \A j \in Jobs : job[j] # None /\ job[j].status = "completed" => job[j].result # 0
=============================================================================
