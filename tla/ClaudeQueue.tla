----------------------------- MODULE ClaudeQueue -----------------------------
(***************************************************************************)
(* The Claude Translate queue: the job rows in the database, the staff      *)
(* requests that create, retry, cancel and list them, the worker API        *)
(* (claim, source, result, status) and the worker processes that call it.   *)
(*                                                                          *)
(* One action is one database statement that matters or one whole           *)
(* transaction when nothing it read can have changed: what a transaction    *)
(* read earlier and uses later is kept in the worker's or the request's     *)
(* state, so every interleaving of two requests under READ COMMITTED is a   *)
(* behaviour of this specification.                                         *)
(***************************************************************************)
EXTENDS Integers, FiniteSets, Functions

CONSTANTS
    Workers,      \* worker processes; a claim whose answer was lost counts as one more
    Files,        \* source files that can be picked
    Documents,    \* order documents the files hang on
    DocumentOf,   \* the document of each file
    Tenants,      \* organisation ids, served in this order
    TenantOf,     \* the organisation of each file
    MaxJobs,      \* bound: jobs ever created
    MaxAttempts,  \* claude_job_max_attempts
    Budget,       \* bound: how often each rare event may happen
    None          \* no job, no worker

Rare == {"retry", "limit", "abort", "toggle", "removeFile", "removeDocument"}

ASSUME QueueAssumptions ==
    /\ MaxJobs \in Nat
    /\ MaxAttempts \in Nat \ {0}
    /\ Tenants \subseteq Nat
    /\ IsFiniteSet(Files) /\ Files # {}
    /\ DocumentOf \in [Files -> Documents]
    /\ TenantOf \in [Files -> Tenants]
    /\ Budget \in [Rare -> Nat]
    /\ None \notin Workers
    /\ None \notin 1..MaxJobs

Jobs == 1..MaxJobs   \* ids are given in creation order: the smallest is the oldest

VARIABLES
    made,      \* jobs created so far
    status,    \* status[j]: the row's status, "none" before it exists
    file,      \* file[j]: source_file_id
    attempts,  \* attempts[j]
    overdue,   \* translating jobs whose started_at is older than the stuck limit
    timeouts,  \* history: how often j was taken from a silent worker since it was asked for
    filed,     \* history: result files filed for j
    kept,      \* source files not removed
    documents, \* documents that still exist
    enabled,   \* organisations that have the feature and may be served
    asking,    \* files of a create request that passed its checks, {} when there is none
    retrying,  \* job of a retry request that passed its checks, None when there is none
    pc,        \* pc[w]: where worker w, or the request it waits for, stands
    held,      \* held[w]: the job worker w believes is its own
    todo,      \* todo[w]: organisations its claim request has still to look at
    found,     \* found[w]: the oldest waiting job its claim saw in each organisation
    taken,     \* taken[w]: the rows its claim transaction has locked
    left       \* left[k]: how often rare event k may still happen

jobVars    == <<made, status, file, attempts, overdue, timeouts, filed>>
officeVars == <<kept, documents, enabled>>
staffVars  == <<asking, retrying>>
workerVars == <<pc, held, todo, found, taken>>
vars       == <<jobVars, officeVars, staffVars, workerVars, left>>

Statuses == {"none", "queued", "translating", "translated", "failed", "cancelled"}

Stages == {"idle", "scanning", "claiming", "committing", "claimed", "working",
           "posting", "resolving", "filing", "documentGone", "sayFailed", "sayQueued"}

NoRows == [take |-> None, fail |-> {}]

Active(j) == status[j] \in {"queued", "translating"}

TenantsJobs(t) == {j \in 1..made : TenantOf[file[j]] = t}

Queued(t) == {j \in TenantsJobs(t) : status[j] = "queued"}

Oldest(S) == CHOOSE i \in S : \A j \in S : i <= j

SourceLive(j) == file[j] \in kept

Rows(w) == taken[w].fail \cup ({taken[w].take} \ {None})

NotLocking(j) == TRUE   \* a plausible bug: the claim reads without FOR UPDATE

(* The row is not locked by a claim that has not committed yet. *)
Unlocked(j) == \A w \in Workers : j \notin Rows(w)

Spend(k) == left[k] > 0 /\ left' = [left EXCEPT ![k] = @ - 1]

TypeOK ==
    /\ made \in 0..MaxJobs
    /\ status \in [Jobs -> Statuses]
    /\ file \in [Jobs -> Files]
    /\ attempts \in [Jobs -> 0..MaxAttempts]
    /\ overdue \subseteq Jobs
    /\ timeouts \in [Jobs -> 0..MaxAttempts]
    /\ filed \in [Jobs -> Nat]
    /\ kept \subseteq Files
    /\ documents \subseteq Documents
    /\ enabled \subseteq Tenants
    /\ asking \subseteq Files
    /\ retrying \in Jobs \cup {None}
    /\ pc \in [Workers -> Stages]
    /\ held \in [Workers -> Jobs \cup {None}]
    /\ todo \in [Workers -> SUBSET Tenants]
    /\ found \in [Workers -> SUBSET Jobs]
    /\ taken \in [Workers -> [take : Jobs \cup {None}, fail : SUBSET Jobs]]
    /\ left \in [Rare -> Nat]

Init ==
    /\ made = 0
    /\ status = [j \in Jobs |-> "none"]
    /\ file = [j \in Jobs |-> CHOOSE f \in Files : TRUE]
    /\ attempts = [j \in Jobs |-> 0]
    /\ overdue = {}
    /\ timeouts = [j \in Jobs |-> 0]
    /\ filed = [j \in Jobs |-> 0]
    /\ kept = Files
    /\ documents = Documents
    /\ enabled = Tenants
    /\ asking = {}
    /\ retrying = None
    /\ pc = [w \in Workers |-> "idle"]
    /\ held = [w \in Workers |-> None]
    /\ todo = [w \in Workers |-> {}]
    /\ found = [w \in Workers |-> {}]
    /\ taken = [w \in Workers |-> NoRows]
    /\ left = Budget

-----------------------------------------------------------------------------
(* Staff. *)

(* What create_jobs reads before it inserts: nothing active for the file. *)
NotBusy(f) == \A j \in 1..made : file[j] = f => ~Active(j)

NoIndex(f) == TRUE   \* a plausible bug: the migration without the index

(* The database's partial unique index: no two active jobs for one file. *)
IndexAllows(f) == \A j \in 1..made : Active(j) => file[j] # f

HasOutput(f) == \E j \in 1..made : file[j] = f /\ status[j] = "translated"

MayAsk(files) == \A f \in files : TenantOf[f] \in enabled

(* create_jobs, up to the insert: everything it reads and may refuse for. *)
CreateCheck(files, confirmed) ==
    /\ asking = {} /\ files # {}
    /\ MayAsk(files)
    /\ \A f, g \in files : TenantOf[f] = TenantOf[g]
    /\ files \subseteq kept
    /\ \A f \in files : NotBusy(f)
    /\ confirmed \/ \A f \in files : ~HasOutput(f)
    /\ made + Cardinality(files) <= MaxJobs
    /\ asking' = files
    /\ UNCHANGED <<jobVars, officeVars, retrying, workerVars, left>>

(* create_jobs, the insert: all rows, or none when the index refuses one. *)
CreateInsert ==
    /\ asking # {}
    /\ LET new == (made + 1)..(made + Cardinality(asking)) IN
       IF \A f \in asking : IndexAllows(f)
       THEN \E picked \in Bijection(new, asking) :
              /\ made' = made + Cardinality(asking)
              /\ status' = [j \in Jobs |-> IF j \in new THEN "queued" ELSE status[j]]
              /\ file' = [j \in Jobs |-> IF j \in new THEN picked[j] ELSE file[j]]
              /\ attempts' = [j \in Jobs |-> IF j \in new THEN 0 ELSE attempts[j]]
              /\ UNCHANGED <<overdue, timeouts, filed>>
       ELSE UNCHANGED jobVars
    /\ asking' = {}
    /\ UNCHANGED <<officeVars, retrying, workerVars, left>>

(* retry_job, up to the UPDATE: the source must still be there. *)
RetryCheck(j) ==
    /\ retrying = None
    /\ j \in 1..made
    /\ MayAsk({file[j]})
    /\ SourceLive(j)
    /\ Spend("retry")
    /\ retrying' = j
    /\ UNCHANGED <<jobVars, officeVars, asking, workerVars>>

(* retry_job, the UPDATE ... WHERE status = failed.  It looks for no other   *)
(* job: the index refuses the retry while a newer job has the file.          *)
RetryUpdate ==
    /\ retrying # None
    /\ Unlocked(retrying)
    /\ IF status[retrying] = "failed" /\ IndexAllows(file[retrying])
       THEN /\ status' = [status EXCEPT ![retrying] = "queued"]
            /\ attempts' = [attempts EXCEPT ![retrying] = 0]
            /\ timeouts' = [timeouts EXCEPT ![retrying] = 0]
            /\ UNCHANGED <<made, file, overdue, filed>>
       ELSE UNCHANGED jobVars
    /\ retrying' = None
    /\ UNCHANGED <<officeVars, asking, workerVars, left>>

(* cancel_job. *)
Cancel(j) ==
    /\ j \in 1..made /\ status[j] = "queued"
    /\ MayAsk({file[j]})
    /\ Unlocked(j)
    /\ status' = [status EXCEPT ![j] = "cancelled"]
    /\ UNCHANGED <<made, file, attempts, overdue, timeouts, filed,
                   officeVars, staffVars, workerVars, left>>

(* requeue_stuck: jobs held too long go back to the queue, or fail when they *)
(* have had their attempts.                                                  *)
NothingStuck(t) == {}   \* a plausible bug: jobs held too long are never looked for

Stuck(t) == overdue \cap TenantsJobs(t)

GaveUpLate(j) == attempts[j] > MaxAttempts   \* a plausible bug: off by one

GaveUp(j) == attempts[j] >= MaxAttempts

RequeueStuck(t) ==
    /\ status' = [j \in Jobs |-> IF j \notin Stuck(t) THEN status[j]
                                 ELSE IF GaveUp(j) THEN "failed" ELSE "queued"]
    /\ timeouts' = [j \in Jobs |-> IF j \in Stuck(t) THEN timeouts[j] + 1 ELSE timeouts[j]]
    /\ overdue' = overdue \ Stuck(t)
    /\ UNCHANGED <<made, file, attempts, filed>>

(* list_jobs: looking at an order's jobs puts the organisation's stuck ones back. *)
ListJobs(t) ==
    /\ t \in enabled
    /\ Stuck(t) # {}
    /\ RequeueStuck(t)
    /\ UNCHANGED <<officeVars, staffVars, workerVars, left>>

(* Staff remove a source file, or a document and every file of it. *)
RemoveFile(f) ==
    /\ f \in kept
    /\ Spend("removeFile")
    /\ kept' = kept \ {f}
    /\ UNCHANGED <<jobVars, documents, enabled, staffVars, workerVars>>

RemoveDocument(d) ==
    /\ d \in documents
    /\ Spend("removeDocument")
    /\ documents' = documents \ {d}
    /\ kept' = {f \in kept : DocumentOf[f] # d}
    /\ UNCHANGED <<jobVars, enabled, staffVars, workerVars>>

(* A superadmin switches the feature, or the organisation, off or on. *)
SwitchFeature(t) ==
    /\ Spend("toggle")
    /\ enabled' = IF t \in enabled THEN enabled \ {t} ELSE enabled \cup {t}
    /\ UNCHANGED <<jobVars, kept, documents, staffVars, workerVars>>

-----------------------------------------------------------------------------
(* The claim: claim_next is one transaction for the list of organisations,  *)
(* one per organisation to look at its queue, one to take the job.          *)

StartClaim(w) ==
    /\ pc[w] = "idle"
    /\ pc' = [pc EXCEPT ![w] = IF enabled = {} THEN "idle" ELSE "scanning"]
    /\ todo' = [todo EXCEPT ![w] = enabled]
    /\ UNCHANGED <<jobVars, officeVars, staffVars, held, found, taken, left>>

(* requeue_stuck and the oldest waiting job of the next organisation. *)
ScanTenant(w) ==
    /\ pc[w] = "scanning"
    /\ LET t == Oldest(todo[w])
           waiting == {j \in TenantsJobs(t) : status'[j] = "queued"}
           seen == found[w] \cup (IF waiting = {} THEN {} ELSE {Oldest(waiting)})
       IN /\ RequeueStuck(t)
          /\ todo' = [todo EXCEPT ![w] = @ \ {t}]
          /\ found' = [found EXCEPT ![w] = seen]
          /\ pc' = [pc EXCEPT ![w] = IF todo[w] # {t} THEN "scanning"
                                     ELSE IF seen = {} THEN "idle" ELSE "claiming"]
    /\ UNCHANGED <<officeVars, staffVars, held, taken, left>>

(* What the claim goes on to when an organisation had nothing for it. *)
NextOrganisation(w) ==
    LET rest == found[w] \ {Oldest(found[w])} IN
    /\ found' = [found EXCEPT ![w] = rest]
    /\ pc' = [pc EXCEPT ![w] = IF rest = {} THEN "idle" ELSE "claiming"]

(* _claim_in_tenant: SELECT ... FOR UPDATE SKIP LOCKED, oldest first.  Jobs  *)
(* whose source is gone are failed on the way to the first that has one;     *)
(* they too were moved to translating, and counted, in this transaction.     *)
ClaimTake(w) ==
    /\ pc[w] = "claiming"
    /\ LET t    == TenantOf[file[Oldest(found[w])]]
           open == {j \in Queued(t) : Unlocked(j)}
           good == {j \in open : SourceLive(j)}
       IN IF open = {}
          THEN NextOrganisation(w) /\ UNCHANGED taken
          ELSE /\ taken' = [taken EXCEPT ![w] =
                     IF good = {} THEN [take |-> None, fail |-> open]
                     ELSE [take |-> Oldest(good),
                           fail |-> {j \in open : j < Oldest(good)}]]
               /\ pc' = [pc EXCEPT ![w] = "committing"]
               /\ UNCHANGED found
    /\ UNCHANGED <<jobVars, officeVars, staffVars, held, todo, left>>

(* The claim commits; answered is FALSE when its answer never arrives. *)
ClaimCommit(w, answered) ==
    /\ pc[w] = "committing"
    /\ LET j == taken[w].take IN
       /\ status' = [i \in Jobs |-> IF i = j THEN "translating"
                                    ELSE IF i \in taken[w].fail THEN "failed" ELSE status[i]]
       /\ attempts' = [i \in Jobs |-> IF i \in Rows(w) THEN attempts[i] + 1 ELSE attempts[i]]
       /\ IF j = None
          THEN NextOrganisation(w) /\ UNCHANGED held
          ELSE /\ found' = [found EXCEPT ![w] = {}]
               /\ held' = [held EXCEPT ![w] = IF answered THEN j ELSE None]
               /\ pc' = [pc EXCEPT ![w] = IF answered THEN "claimed" ELSE "idle"]
    /\ taken' = [taken EXCEPT ![w] = NoRows]
    /\ UNCHANGED <<made, file, overdue, timeouts, filed, officeVars, staffVars, todo, left>>

(* The claim transaction is rolled back: every row is as it was. *)
ClaimAbort(w) ==
    /\ pc[w] = "committing"
    /\ Spend("abort")
    /\ taken' = [taken EXCEPT ![w] = NoRows]
    /\ found' = [found EXCEPT ![w] = {}]
    /\ pc' = [pc EXCEPT ![w] = "idle"]
    /\ UNCHANGED <<jobVars, officeVars, staffVars, held, todo>>

-----------------------------------------------------------------------------
(* The worker's job, from the download to the result or the report. *)

Goto(w, stage) ==
    /\ pc' = [pc EXCEPT ![w] = stage]
    /\ held' = [held EXCEPT ![w] = IF stage = "idle" THEN None ELSE @]
    /\ UNCHANGED <<todo, found, taken>>

(* download_source: the job must be translating and its file still there. *)
SourceServed(w) == status[held[w]] = "translating" /\ SourceLive(held[w])

Download(w) ==
    /\ pc[w] = "claimed"
    /\ Goto(w, IF SourceServed(w) THEN "working" ELSE "sayFailed")
    /\ UNCHANGED <<jobVars, officeVars, staffVars, left>>

(* run_claude and make_docx: a document, an error, or the usage limit. *)
Translate(w) ==
    /\ pc[w] = "working"
    /\ Goto(w, "posting")
    /\ UNCHANGED <<jobVars, officeVars, staffVars, left>>

CannotTranslate(w) ==
    /\ pc[w] = "working"
    /\ Goto(w, "sayFailed")
    /\ UNCHANGED <<jobVars, officeVars, staffVars, left>>

HitUsageLimit(w) ==
    /\ pc[w] = "working"
    /\ Spend("limit")
    /\ Goto(w, "sayQueued")
    /\ UNCHANGED <<jobVars, officeVars, staffVars>>

(* post_result reads the job, then its document, then acts on what it read. *)
ResultReadJob(w) ==
    /\ pc[w] = "posting"
    /\ Goto(w, IF status[held[w]] = "translating" THEN "resolving" ELSE "sayFailed")
    /\ UNCHANGED <<jobVars, officeVars, staffVars, left>>

DocumentLive(j) == DocumentOf[file[j]] \in documents

ResultReadDocument(w) ==
    /\ pc[w] = "resolving"
    /\ Goto(w, IF DocumentLive(held[w]) THEN "filing" ELSE "documentGone")
    /\ UNCHANGED <<jobVars, officeVars, staffVars, left>>

MayFileTwice(j) == DocumentLive(j)   \* a plausible bug: the UPDATE without its status guard

MayFile(j) == status[j] = "translating" /\ DocumentLive(j)

(* The guarded UPDATE, the upload and the row of the new file commit        *)
(* together.  A lost answer makes the worker report a failure instead.      *)
ResultFiled(w, answered) ==
    /\ pc[w] = "filing"
    /\ LET j == held[w] IN
       /\ Unlocked(j)
       /\ MayFile(j)
       /\ status' = [status EXCEPT ![j] = "translated"]
       /\ filed' = [filed EXCEPT ![j] = @ + 1]
       /\ overdue' = overdue \ {j}
    /\ Goto(w, IF answered THEN "idle" ELSE "sayFailed")
    /\ UNCHANGED <<made, file, attempts, timeouts, officeVars, staffVars, left>>

(* The guard lost the race, the document vanished, or the storage refused   *)
(* the bytes: all is rolled back and the worker sees an HTTP error.         *)
ResultRefused(w) ==
    /\ pc[w] = "filing"
    /\ Goto(w, "sayFailed")
    /\ UNCHANGED <<jobVars, officeVars, staffVars, left>>

(* The document is gone: an ORM write by primary key, with no status guard. *)
ResultDocumentGone(w) ==
    /\ pc[w] = "documentGone"
    /\ LET j == held[w] IN
       /\ Unlocked(j)
       /\ status' = [status EXCEPT ![j] = "failed"]
       /\ overdue' = overdue \ {j}
    /\ Goto(w, "sayFailed")
    /\ UNCHANGED <<made, file, attempts, timeouts, filed, officeVars, staffVars, left>>

AttemptKept(n) == n   \* a plausible bug: a report of queued costs an attempt

AttemptGivenBack(n) == IF n > 0 THEN n - 1 ELSE 0

(* report_status: any worker's report counts while the job is translating. *)
Reported(w) == status[held[w]] = "translating"

ReportFailed(w) ==
    /\ pc[w] = "sayFailed"
    /\ LET j == held[w] IN
       IF Reported(w)
       THEN /\ status' = [status EXCEPT ![j] = "failed"]
            /\ overdue' = overdue \ {j}
            /\ UNCHANGED <<made, file, attempts, timeouts, filed>>
       ELSE UNCHANGED jobVars
    /\ Goto(w, "idle")
    /\ UNCHANGED <<officeVars, staffVars, left>>

ReportQueued(w) ==
    /\ pc[w] = "sayQueued"
    /\ LET j == held[w] IN
       IF Reported(w)
       THEN /\ status' = [status EXCEPT ![j] = "queued"]
            /\ attempts' = [attempts EXCEPT ![j] = AttemptGivenBack(@)]
            /\ overdue' = overdue \ {j}
            /\ UNCHANGED <<made, file, timeouts, filed>>
       ELSE UNCHANGED jobVars
    /\ Goto(w, "idle")
    /\ UNCHANGED <<officeVars, staffVars, left>>

(* The worker dies, or its report is lost: Office is told nothing. *)
Vanish(w) ==
    /\ held[w] # None
    /\ Goto(w, "idle")
    /\ UNCHANGED <<jobVars, officeVars, staffVars, left>>

(* Time: a job has now been held longer than claude_job_stuck_minutes. *)
GrowOverdue(j) ==
    /\ status[j] = "translating" /\ j \notin overdue
    /\ overdue' = overdue \cup {j}
    /\ UNCHANGED <<made, status, file, attempts, timeouts, filed,
                   officeVars, staffVars, workerVars, left>>

-----------------------------------------------------------------------------

Staff ==
    \/ \E files \in SUBSET Files, confirmed \in BOOLEAN : CreateCheck(files, confirmed)
    \/ CreateInsert
    \/ \E j \in Jobs : RetryCheck(j) \/ Cancel(j)
    \/ RetryUpdate
    \/ \E t \in Tenants : ListJobs(t) \/ SwitchFeature(t)
    \/ \E f \in Files : RemoveFile(f)
    \/ \E d \in Documents : RemoveDocument(d)

Claim(w) ==
    \/ StartClaim(w) \/ ScanTenant(w) \/ ClaimTake(w)
    \/ \E answered \in BOOLEAN : ClaimCommit(w, answered)

Job(w) ==
    \/ Download(w) \/ Translate(w) \/ CannotTranslate(w) \/ HitUsageLimit(w)
    \/ ResultReadJob(w) \/ ResultReadDocument(w)
    \/ \E answered \in BOOLEAN : ResultFiled(w, answered)
    \/ ResultRefused(w) \/ ResultDocumentGone(w)
    \/ ReportFailed(w) \/ ReportQueued(w)

Next ==
    \/ Staff
    \/ \E w \in Workers : Claim(w) \/ ClaimAbort(w) \/ Job(w) \/ Vanish(w)
    \/ \E j \in Jobs : GrowOverdue(j)

Spec == Init /\ [][Next]_vars

(* The worker's loop never stops by itself, every call it makes is answered *)
(* or times out, and the clock runs.  Staff, crashes and losses are not fair. *)
Fairness ==
    /\ \A w \in Workers : WF_vars(Claim(w)) /\ WF_vars(Job(w))
    /\ \A j \in Jobs : WF_vars(GrowOverdue(j))

FairSpec == Spec /\ Fairness

-----------------------------------------------------------------------------
(* Properties. *)

(* A file is never in two active jobs, whatever clicks, retries and stuck    *)
(* jobs meet: create_jobs reads first, retry_job does not look at all, and   *)
(* the index is what decides.                                                *)
OneActivePerFile ==
    \A i, j \in 1..made : Active(i) /\ Active(j) /\ file[i] = file[j] => i = j

(* The attempts a row counts are exactly the times it went silent since it   *)
(* was asked for, plus the hold it is in: an attempt the worker gave back    *)
(* does not count, whichever worker gave it back, and nothing waits that has *)
(* had its MaxAttempts.                                                      *)
AttemptsAreTimeouts ==
    \A j \in 1..made :
        /\ status[j] = "queued" => attempts[j] = timeouts[j] /\ attempts[j] < MaxAttempts
        /\ status[j] = "translating" => attempts[j] = timeouts[j] + 1

(* A row a claim has locked is still waiting when the claim commits, and no  *)
(* other claim has it: two workers calling at once never get the same job.   *)
ClaimsAreExclusive ==
    \A w \in Workers :
        /\ \A j \in Rows(w) : status[j] = "queued"
        /\ \A v \in Workers \ {w} : Rows(v) \cap Rows(w) = {}

(* Never a job marked done with no file behind it, and never two files for   *)
(* one job, however many workers send a result for it.                       *)
ResultFiledOnce ==
    \A j \in 1..made : filed[j] <= 1 /\ (status[j] = "translated" => filed[j] = 1)

(* A cancelled or translated job is finished: the diagram in the docstring   *)
(* of claude_translate.py draws no arrow out of either.                      *)
FinishedStaysFinished ==
    [][\A j \in Jobs : status[j] \in {"translated", "cancelled"} => status'[j] = status[j]]_vars

(* Every job somebody asked for stops waiting: it ends translated, failed or *)
(* cancelled, whatever crashes and losses the worker has, unless its         *)
(* organisation is switched off.                                             *)
EveryJobSettles ==
    \A j \in Jobs : Active(j) ~> (~Active(j) \/ TenantOf[file[j]] \notin enabled)

-----------------------------------------------------------------------------
(* The queue implements the life of a job as the person who asked sees it.   *)
LifecycleState(j) ==
    CASE status[j] = "none" -> "absent"
      [] status[j] = "queued" -> "waiting"
      [] status[j] = "translating" -> "held"
      [] status[j] = "translated" -> "delivered"
      [] status[j] = "failed" -> "failed"
      [] status[j] = "cancelled" -> "withdrawn"

Lifecycle == INSTANCE JobLifecycle WITH
    Tries <- MaxAttempts,
    state <- [j \in Jobs |-> LifecycleState(j)],
    left  <- [j \in Jobs |-> MaxAttempts - attempts[j]],
    about <- file

ImplementsLifecycle == Lifecycle!Spec
=============================================================================
