-------------------------- MODULE ClaudeQueueProofs --------------------------
(***************************************************************************)
(* The safety of the Claude Translate queue for every number of workers,    *)
(* files, organisations, jobs and attempts.                                 *)
(***************************************************************************)
EXTENDS ClaudeQueue, FiniteSetTheorems, WellFoundedInduction, TLAPS

(* The stages in which a worker has a job of its own. *)
JobStages == Stages \ {"idle", "scanning", "claiming", "committing"}

(* A row exists once it has been made, and has no past before. *)
RowsExist ==
    \A j \in Jobs :
        /\ status[j] = "none" <=> j > made
        /\ status[j] = "none" => timeouts[j] = 0 /\ filed[j] = 0

(* Only translating jobs are overdue. *)
OverdueAreHeld == \A j \in overdue : status[j] = "translating"

(* What a worker's stage says of the job it has and of the rows it locks. *)
StagesAgree ==
    \A w \in Workers :
        /\ held[w] # None <=> pc[w] \in JobStages
        /\ held[w] # None => held[w] \in 1..made
        /\ pc[w] # "committing" => taken[w] = NoRows

(* A create request that passed its checks still fits the ids left. *)
AskingFits == made + Cardinality(asking) <= MaxJobs

RetryingExists == retrying # None => retrying \in 1..made

(* A result filed for a job that is not translated belongs to a document    *)
(* that is gone: nothing more can be filed for it.                           *)
FiledBelongs ==
    \A j \in 1..made :
        /\ filed[j] <= 1
        /\ status[j] = "translated" => filed[j] = 1
        /\ filed[j] = 1 => status[j] = "translated" \/ ~DocumentLive(j)

(* A worker about to fail a job for want of its document is right that it   *)
(* is gone.                                                                  *)
GoneStaysGone ==
    \A w \in Workers : pc[w] = "documentGone" => ~DocumentLive(held[w])

IInv ==
    /\ TypeOK
    /\ RowsExist
    /\ OverdueAreHeld
    /\ StagesAgree
    /\ AskingFits
    /\ RetryingExists
    /\ OneActivePerFile
    /\ AttemptsAreTimeouts
    /\ ClaimsAreExclusive
    /\ FiledBelongs
    /\ GoneStaysGone

-----------------------------------------------------------------------------

(* Oldest names a member of every set of jobs that has one. *)
LEMMA OldestIsMember ==
    ASSUME NEW S \in SUBSET Nat, S # {}
    PROVE  Oldest(S) \in S
  <1> DEFINE Less == {p \in Nat \X Nat : p[1] < p[2]}
  <1>1. IsWellFoundedOn(Less, Nat)
    BY NatLessThanWellFounded DEF OpToRel
  <1>2. PICK x \in S : \A y \in S : <<y, x>> \notin Less
    <2> HIDE DEF Less
    <2> QED BY <1>1, WFMin
  <1>3. \A y \in S : x <= y
    <2> SUFFICES ASSUME NEW y \in S, y < x PROVE FALSE
      OBVIOUS
    <2> DEFINE p == <<y, x>>
    <2>1. p \in Nat \X Nat /\ p[1] < p[2]
      OBVIOUS
    <2> QED
      BY <2>1, <1>2
  <1> QED
    BY <1>3 DEF Oldest

LEMMA InitEstablishes == Init => IInv
  <1> SUFFICES ASSUME Init PROVE IInv
    OBVIOUS
  <1> USE QueueAssumptions DEF Init, Jobs
  <1>1. TypeOK
    BY DEF TypeOK, Statuses, Stages, NoRows
  <1>2. RowsExist /\ OverdueAreHeld /\ OneActivePerFile /\ AttemptsAreTimeouts /\ FiledBelongs
    BY DEF RowsExist, OverdueAreHeld, OneActivePerFile, AttemptsAreTimeouts, FiledBelongs
  <1>3. StagesAgree /\ RetryingExists /\ ClaimsAreExclusive /\ GoneStaysGone
    BY DEF StagesAgree, RetryingExists, ClaimsAreExclusive, GoneStaysGone, JobStages, NoRows, Rows
  <1>4. AskingFits
    BY FS_EmptySet DEF AskingFits
  <1> QED
    BY <1>1, <1>2, <1>3, <1>4 DEF IInv

-----------------------------------------------------------------------------
(* A step that changes no row, no lock and no document keeps what the         *)
(* invariant says of them.                                                    *)

RowFacts ==
    /\ RowsExist
    /\ OverdueAreHeld
    /\ OneActivePerFile
    /\ AttemptsAreTimeouts
    /\ ClaimsAreExclusive
    /\ FiledBelongs

LEMMA RowFactsKept ==
    ASSUME RowFacts, UNCHANGED <<jobVars, taken, documents>>
    PROVE  RowFacts'
  BY DEF RowFacts, RowsExist, OverdueAreHeld, OneActivePerFile, Active, AttemptsAreTimeouts,
         ClaimsAreExclusive, Rows, FiledBelongs, DocumentLive, jobVars

-----------------------------------------------------------------------------
(* The steps that change no row. *)

LEMMA CreateCheckPreserves ==
    ASSUME IInv, NEW files \in SUBSET Files, NEW confirmed \in BOOLEAN, CreateCheck(files, confirmed)
    PROVE  IInv'
  <1>1. TypeOK'
    BY QueueAssumptions
    DEF IInv, TypeOK, Stages, Rare, CreateCheck, jobVars, officeVars, workerVars, staffVars
  <1>2. UNCHANGED <<jobVars, taken, documents>>
    BY DEF CreateCheck, jobVars, officeVars, workerVars, staffVars
  <1>3. RowFacts'
    BY <1>2, RowFactsKept DEF IInv, RowFacts
  <1>4. StagesAgree' /\ GoneStaysGone'
    BY QueueAssumptions
    DEF IInv, TypeOK, StagesAgree, GoneStaysGone, DocumentLive, JobStages, Stages,
        CreateCheck, jobVars, officeVars, workerVars, staffVars
  <1>5. AskingFits' /\ RetryingExists'
    BY QueueAssumptions
    DEF IInv, TypeOK, AskingFits, RetryingExists, CreateCheck, jobVars, officeVars,
        workerVars, staffVars
  <1> QED
    BY <1>1, <1>3, <1>4, <1>5 DEF IInv, RowFacts

LEMMA RetryCheckPreserves ==
    ASSUME IInv, NEW j \in Jobs, RetryCheck(j)
    PROVE  IInv'
  <1>1. TypeOK'
    BY QueueAssumptions
    DEF IInv, TypeOK, Stages, Rare, RetryCheck, Spend, jobVars, officeVars, workerVars,
        staffVars
  <1>2. UNCHANGED <<jobVars, taken, documents>>
    BY DEF RetryCheck, Spend, jobVars, officeVars, workerVars, staffVars
  <1>3. RowFacts'
    BY <1>2, RowFactsKept DEF IInv, RowFacts
  <1>4. StagesAgree' /\ GoneStaysGone'
    BY QueueAssumptions
    DEF IInv, TypeOK, StagesAgree, GoneStaysGone, DocumentLive, JobStages, Stages,
        RetryCheck, Spend, jobVars, officeVars, workerVars, staffVars
  <1>5. AskingFits' /\ RetryingExists'
    BY QueueAssumptions
    DEF IInv, TypeOK, AskingFits, RetryingExists, RetryCheck, Spend, jobVars, officeVars,
        workerVars, staffVars
  <1> QED
    BY <1>1, <1>3, <1>4, <1>5 DEF IInv, RowFacts

LEMMA RemoveFilePreserves ==
    ASSUME IInv, NEW f \in Files, RemoveFile(f)
    PROVE  IInv'
  <1>1. TypeOK'
    BY QueueAssumptions
    DEF IInv, TypeOK, Stages, Rare, RemoveFile, Spend, jobVars, officeVars, workerVars,
        staffVars
  <1>2. UNCHANGED <<jobVars, taken, documents>>
    BY DEF RemoveFile, Spend, jobVars, officeVars, workerVars, staffVars
  <1>3. RowFacts'
    BY <1>2, RowFactsKept DEF IInv, RowFacts
  <1>4. StagesAgree' /\ GoneStaysGone'
    BY QueueAssumptions
    DEF IInv, TypeOK, StagesAgree, GoneStaysGone, DocumentLive, JobStages, Stages,
        RemoveFile, Spend, jobVars, officeVars, workerVars, staffVars
  <1>5. AskingFits' /\ RetryingExists'
    BY QueueAssumptions
    DEF IInv, TypeOK, AskingFits, RetryingExists, RemoveFile, Spend, jobVars, officeVars,
        workerVars, staffVars
  <1> QED
    BY <1>1, <1>3, <1>4, <1>5 DEF IInv, RowFacts

LEMMA SwitchFeaturePreserves ==
    ASSUME IInv, NEW t \in Tenants, SwitchFeature(t)
    PROVE  IInv'
  <1>1. TypeOK'
    BY QueueAssumptions
    DEF IInv, TypeOK, Stages, Rare, SwitchFeature, Spend, jobVars, officeVars, workerVars,
        staffVars
  <1>2. UNCHANGED <<jobVars, taken, documents>>
    BY DEF SwitchFeature, Spend, jobVars, officeVars, workerVars, staffVars
  <1>3. RowFacts'
    BY <1>2, RowFactsKept DEF IInv, RowFacts
  <1>4. StagesAgree' /\ GoneStaysGone'
    BY QueueAssumptions
    DEF IInv, TypeOK, StagesAgree, GoneStaysGone, DocumentLive, JobStages, Stages,
        SwitchFeature, Spend, jobVars, officeVars, workerVars, staffVars
  <1>5. AskingFits' /\ RetryingExists'
    BY QueueAssumptions
    DEF IInv, TypeOK, AskingFits, RetryingExists, SwitchFeature, Spend, jobVars, officeVars,
        workerVars, staffVars
  <1> QED
    BY <1>1, <1>3, <1>4, <1>5 DEF IInv, RowFacts

LEMMA StartClaimPreserves ==
    ASSUME IInv, NEW w \in Workers, StartClaim(w)
    PROVE  IInv'
  <1>1. TypeOK'
    BY QueueAssumptions
    DEF IInv, TypeOK, Stages, Rare, StartClaim, jobVars, officeVars, workerVars, staffVars
  <1>2. UNCHANGED <<jobVars, taken, documents>>
    BY DEF StartClaim, jobVars, officeVars, workerVars, staffVars
  <1>3. RowFacts'
    BY <1>2, RowFactsKept DEF IInv, RowFacts
  <1>4. StagesAgree' /\ GoneStaysGone'
    BY QueueAssumptions
    DEF IInv, TypeOK, StagesAgree, GoneStaysGone, DocumentLive, JobStages, Stages,
        StartClaim, jobVars, officeVars, workerVars, staffVars
  <1>5. AskingFits' /\ RetryingExists'
    BY QueueAssumptions
    DEF IInv, TypeOK, AskingFits, RetryingExists, StartClaim, jobVars, officeVars,
        workerVars, staffVars
  <1> QED
    BY <1>1, <1>3, <1>4, <1>5 DEF IInv, RowFacts

LEMMA DownloadPreserves ==
    ASSUME IInv, NEW w \in Workers, Download(w)
    PROVE  IInv'
  <1>1. TypeOK'
    BY QueueAssumptions
    DEF IInv, TypeOK, Stages, Rare, Download, Goto, jobVars, officeVars, workerVars,
        staffVars
  <1>2. UNCHANGED <<jobVars, taken, documents>>
    BY DEF Download, Goto, jobVars, officeVars, workerVars, staffVars
  <1>3. RowFacts'
    BY <1>2, RowFactsKept DEF IInv, RowFacts
  <1>4. StagesAgree' /\ GoneStaysGone'
    BY QueueAssumptions
    DEF IInv, TypeOK, StagesAgree, GoneStaysGone, DocumentLive, JobStages, Stages, Download,
        Goto, jobVars, officeVars, workerVars, staffVars
  <1>5. AskingFits' /\ RetryingExists'
    BY QueueAssumptions
    DEF IInv, TypeOK, AskingFits, RetryingExists, Download, Goto, jobVars, officeVars,
        workerVars, staffVars
  <1> QED
    BY <1>1, <1>3, <1>4, <1>5 DEF IInv, RowFacts

LEMMA TranslatePreserves ==
    ASSUME IInv, NEW w \in Workers, Translate(w)
    PROVE  IInv'
  <1>1. TypeOK'
    BY QueueAssumptions
    DEF IInv, TypeOK, Stages, Rare, Translate, Goto, jobVars, officeVars, workerVars,
        staffVars
  <1>2. UNCHANGED <<jobVars, taken, documents>>
    BY DEF Translate, Goto, jobVars, officeVars, workerVars, staffVars
  <1>3. RowFacts'
    BY <1>2, RowFactsKept DEF IInv, RowFacts
  <1>4. StagesAgree' /\ GoneStaysGone'
    BY QueueAssumptions
    DEF IInv, TypeOK, StagesAgree, GoneStaysGone, DocumentLive, JobStages, Stages,
        Translate, Goto, jobVars, officeVars, workerVars, staffVars
  <1>5. AskingFits' /\ RetryingExists'
    BY QueueAssumptions
    DEF IInv, TypeOK, AskingFits, RetryingExists, Translate, Goto, jobVars, officeVars,
        workerVars, staffVars
  <1> QED
    BY <1>1, <1>3, <1>4, <1>5 DEF IInv, RowFacts

LEMMA CannotTranslatePreserves ==
    ASSUME IInv, NEW w \in Workers, CannotTranslate(w)
    PROVE  IInv'
  <1>1. TypeOK'
    BY QueueAssumptions
    DEF IInv, TypeOK, Stages, Rare, CannotTranslate, Goto, jobVars, officeVars, workerVars,
        staffVars
  <1>2. UNCHANGED <<jobVars, taken, documents>>
    BY DEF CannotTranslate, Goto, jobVars, officeVars, workerVars, staffVars
  <1>3. RowFacts'
    BY <1>2, RowFactsKept DEF IInv, RowFacts
  <1>4. StagesAgree' /\ GoneStaysGone'
    BY QueueAssumptions
    DEF IInv, TypeOK, StagesAgree, GoneStaysGone, DocumentLive, JobStages, Stages,
        CannotTranslate, Goto, jobVars, officeVars, workerVars, staffVars
  <1>5. AskingFits' /\ RetryingExists'
    BY QueueAssumptions
    DEF IInv, TypeOK, AskingFits, RetryingExists, CannotTranslate, Goto, jobVars,
        officeVars, workerVars, staffVars
  <1> QED
    BY <1>1, <1>3, <1>4, <1>5 DEF IInv, RowFacts

LEMMA HitUsageLimitPreserves ==
    ASSUME IInv, NEW w \in Workers, HitUsageLimit(w)
    PROVE  IInv'
  <1>1. TypeOK'
    BY QueueAssumptions
    DEF IInv, TypeOK, Stages, Rare, HitUsageLimit, Goto, Spend, jobVars, officeVars,
        workerVars, staffVars
  <1>2. UNCHANGED <<jobVars, taken, documents>>
    BY DEF HitUsageLimit, Goto, Spend, jobVars, officeVars, workerVars, staffVars
  <1>3. RowFacts'
    BY <1>2, RowFactsKept DEF IInv, RowFacts
  <1>4. StagesAgree' /\ GoneStaysGone'
    BY QueueAssumptions
    DEF IInv, TypeOK, StagesAgree, GoneStaysGone, DocumentLive, JobStages, Stages,
        HitUsageLimit, Goto, Spend, jobVars, officeVars, workerVars, staffVars
  <1>5. AskingFits' /\ RetryingExists'
    BY QueueAssumptions
    DEF IInv, TypeOK, AskingFits, RetryingExists, HitUsageLimit, Goto, Spend, jobVars,
        officeVars, workerVars, staffVars
  <1> QED
    BY <1>1, <1>3, <1>4, <1>5 DEF IInv, RowFacts

LEMMA ResultReadJobPreserves ==
    ASSUME IInv, NEW w \in Workers, ResultReadJob(w)
    PROVE  IInv'
  <1>1. TypeOK'
    BY QueueAssumptions
    DEF IInv, TypeOK, Stages, Rare, ResultReadJob, Goto, jobVars, officeVars, workerVars,
        staffVars
  <1>2. UNCHANGED <<jobVars, taken, documents>>
    BY DEF ResultReadJob, Goto, jobVars, officeVars, workerVars, staffVars
  <1>3. RowFacts'
    BY <1>2, RowFactsKept DEF IInv, RowFacts
  <1>4. StagesAgree' /\ GoneStaysGone'
    BY QueueAssumptions
    DEF IInv, TypeOK, StagesAgree, GoneStaysGone, DocumentLive, JobStages, Stages,
        ResultReadJob, Goto, jobVars, officeVars, workerVars, staffVars
  <1>5. AskingFits' /\ RetryingExists'
    BY QueueAssumptions
    DEF IInv, TypeOK, AskingFits, RetryingExists, ResultReadJob, Goto, jobVars, officeVars,
        workerVars, staffVars
  <1> QED
    BY <1>1, <1>3, <1>4, <1>5 DEF IInv, RowFacts

LEMMA ResultReadDocumentPreserves ==
    ASSUME IInv, NEW w \in Workers, ResultReadDocument(w)
    PROVE  IInv'
  <1>1. TypeOK'
    BY QueueAssumptions
    DEF IInv, TypeOK, Stages, Rare, ResultReadDocument, Goto, DocumentLive, jobVars,
        officeVars, workerVars, staffVars
  <1>2. UNCHANGED <<jobVars, taken, documents>>
    BY DEF ResultReadDocument, Goto, DocumentLive, jobVars, officeVars, workerVars,
           staffVars
  <1>3. RowFacts'
    BY <1>2, RowFactsKept DEF IInv, RowFacts
  <1>4. StagesAgree' /\ GoneStaysGone'
    BY QueueAssumptions
    DEF IInv, TypeOK, StagesAgree, GoneStaysGone, DocumentLive, JobStages, Stages,
        ResultReadDocument, Goto, DocumentLive, jobVars, officeVars, workerVars, staffVars
  <1>5. AskingFits' /\ RetryingExists'
    BY QueueAssumptions
    DEF IInv, TypeOK, AskingFits, RetryingExists, ResultReadDocument, Goto, DocumentLive,
        jobVars, officeVars, workerVars, staffVars
  <1> QED
    BY <1>1, <1>3, <1>4, <1>5 DEF IInv, RowFacts

LEMMA ResultRefusedPreserves ==
    ASSUME IInv, NEW w \in Workers, ResultRefused(w)
    PROVE  IInv'
  <1>1. TypeOK'
    BY QueueAssumptions
    DEF IInv, TypeOK, Stages, Rare, ResultRefused, Goto, jobVars, officeVars, workerVars,
        staffVars
  <1>2. UNCHANGED <<jobVars, taken, documents>>
    BY DEF ResultRefused, Goto, jobVars, officeVars, workerVars, staffVars
  <1>3. RowFacts'
    BY <1>2, RowFactsKept DEF IInv, RowFacts
  <1>4. StagesAgree' /\ GoneStaysGone'
    BY QueueAssumptions
    DEF IInv, TypeOK, StagesAgree, GoneStaysGone, DocumentLive, JobStages, Stages,
        ResultRefused, Goto, jobVars, officeVars, workerVars, staffVars
  <1>5. AskingFits' /\ RetryingExists'
    BY QueueAssumptions
    DEF IInv, TypeOK, AskingFits, RetryingExists, ResultRefused, Goto, jobVars, officeVars,
        workerVars, staffVars
  <1> QED
    BY <1>1, <1>3, <1>4, <1>5 DEF IInv, RowFacts

LEMMA VanishPreserves ==
    ASSUME IInv, NEW w \in Workers, Vanish(w)
    PROVE  IInv'
  <1>1. TypeOK'
    BY QueueAssumptions
    DEF IInv, TypeOK, Stages, Rare, Vanish, Goto, jobVars, officeVars, workerVars, staffVars
  <1>2. UNCHANGED <<jobVars, taken, documents>>
    BY DEF Vanish, Goto, jobVars, officeVars, workerVars, staffVars
  <1>3. RowFacts'
    BY <1>2, RowFactsKept DEF IInv, RowFacts
  <1>4. StagesAgree' /\ GoneStaysGone'
    BY QueueAssumptions
    DEF IInv, TypeOK, StagesAgree, GoneStaysGone, DocumentLive, JobStages, Stages, Vanish,
        Goto, jobVars, officeVars, workerVars, staffVars
  <1>5. AskingFits' /\ RetryingExists'
    BY QueueAssumptions
    DEF IInv, TypeOK, AskingFits, RetryingExists, Vanish, Goto, jobVars, officeVars,
        workerVars, staffVars
  <1> QED
    BY <1>1, <1>3, <1>4, <1>5 DEF IInv, RowFacts

-----------------------------------------------------------------------------
(* The steps that change rows, locks or documents. *)

LEMMA NoRowsType == NoRows \in [take : Jobs \cup {None}, fail : SUBSET Jobs]
  BY DEF NoRows

(* A file keeps its one active job as long as no job becomes active.          *)
LEMMA NothingBecomesActive ==
    ASSUME OneActivePerFile, UNCHANGED <<made, file>>,
           \A i \in 1..made : Active(i)' => Active(i)
    PROVE  OneActivePerFile'
  BY DEF OneActivePerFile

(* A request that ends having changed no row.                                 *)
LEMMA StaffRefused ==
    ASSUME IInv, UNCHANGED <<jobVars, officeVars, workerVars, left>>,
           \/ asking' = {} /\ retrying' = retrying
           \/ asking' = asking /\ retrying' = None
    PROVE  IInv'
  <1>1. TypeOK'
    BY QueueAssumptions DEF IInv, TypeOK, jobVars, officeVars, workerVars
  <1>2. RowFacts'
    BY RowFactsKept DEF IInv, RowFacts, officeVars, workerVars
  <1>3. StagesAgree' /\ GoneStaysGone' /\ RetryingExists'
    BY DEF IInv, StagesAgree, GoneStaysGone, RetryingExists, DocumentLive, jobVars,
           officeVars, workerVars
  <1>4. Cardinality({}) = 0
    BY FS_EmptySet
  <1>5. AskingFits'
    <2>1. CASE asking' = asking
      BY <2>1 DEF IInv, AskingFits, jobVars
    <2>2. CASE asking' = {}
      BY <1>4, <2>2, QueueAssumptions DEF IInv, TypeOK, AskingFits, jobVars
    <2> QED
      BY <2>1, <2>2
  <1> QED
    BY <1>1, <1>2, <1>3, <1>5 DEF IInv, RowFacts

LEMMA CreateInsertPreserves ==
    ASSUME IInv, CreateInsert
    PROVE  IInv'
  <1> DEFINE n == Cardinality(asking)
             new == (made + 1)..(made + n)
  <1>1. n \in Nat /\ made + n <= MaxJobs /\ made \in 0..MaxJobs /\ MaxJobs \in Nat
    BY QueueAssumptions, FS_Subset, FS_CardinalityType DEF IInv, TypeOK, AskingFits
  <1>2. UNCHANGED <<officeVars, retrying, workerVars, left>> /\ asking' = {}
    BY DEF CreateInsert
  <1>3. CASE UNCHANGED jobVars
    BY <1>2, <1>3, StaffRefused
  <1>4. ASSUME \A f \in asking : IndexAllows(f),
               NEW picked \in Bijection(new, asking),
               made' = made + n,
               status' = [j \in Jobs |-> IF j \in new THEN "queued" ELSE status[j]],
               file' = [j \in Jobs |-> IF j \in new THEN picked[j] ELSE file[j]],
               attempts' = [j \in Jobs |-> IF j \in new THEN 0 ELSE attempts[j]],
               UNCHANGED <<overdue, timeouts, filed>>
        PROVE  IInv'
    <2>1. /\ picked \in [new -> asking]
          /\ \A i, j \in new : picked[i] = picked[j] => i = j
      BY <1>4 DEF Bijection, Injection, IsInjective
    <2>2. /\ new \subseteq Jobs
          /\ \A j \in Jobs : j \in 1..made' <=> (j \in 1..made \/ j \in new)
          /\ \A j \in new : j \notin 1..made
      BY <1>1, <1>4 DEF Jobs
    <2>3. \A j \in new : status[j] = "none" /\ timeouts[j] = 0 /\ filed[j] = 0
      BY <1>1, <2>2 DEF IInv, RowsExist
    <2>4. \A j \in Jobs : j \notin new =>
             status'[j] = status[j] /\ file'[j] = file[j] /\ attempts'[j] = attempts[j]
      BY <1>4
    <2>5. \A j \in new : status'[j] = "queued" /\ file'[j] = picked[j] /\ attempts'[j] = 0
      BY <1>4, <2>2
    <2>6. TypeOK'
      <3>1. made' \in 0..MaxJobs
        BY <1>1, <1>4
      <3>2. /\ status' \in [Jobs -> Statuses]
            /\ file' \in [Jobs -> Files]
            /\ attempts' \in [Jobs -> 0..MaxAttempts]
        BY <1>4, <2>1, QueueAssumptions DEF IInv, TypeOK, Statuses
      <3> QED
        BY <1>2, <1>4, <3>1, <3>2 DEF IInv, TypeOK, officeVars, workerVars
    <2>7. RowsExist' /\ OverdueAreHeld'
      BY <1>1, <1>4, <2>2, <2>3, <2>4, <2>5 DEF IInv, TypeOK, RowsExist, OverdueAreHeld, Jobs
    <2>8. OneActivePerFile'
      <3> SUFFICES ASSUME NEW i \in 1..made', NEW j \in 1..made', Active(i)', Active(j)',
                          file'[i] = file'[j]
                   PROVE  i = j
        BY DEF OneActivePerFile
      <3>1. i \in Jobs /\ j \in Jobs
        BY <1>1, <1>4 DEF Jobs
      <3>2. CASE i \in new /\ j \in new
        BY <2>1, <2>5, <3>2
      <3>3. CASE i \in new /\ j \notin new
        BY <1>4, <2>1, <2>2, <2>4, <2>5, <3>1, <3>3 DEF IndexAllows, Active
      <3>4. CASE i \notin new /\ j \in new
        BY <1>4, <2>1, <2>2, <2>4, <2>5, <3>1, <3>4 DEF IndexAllows, Active
      <3>5. CASE i \notin new /\ j \notin new
        BY <2>2, <2>4, <3>1, <3>5 DEF IInv, OneActivePerFile, Active
      <3> QED
        BY <3>2, <3>3, <3>4, <3>5
    <2>9. AttemptsAreTimeouts'
      BY <1>1, <1>4, <2>2, <2>3, <2>4, <2>5, QueueAssumptions
      DEF IInv, AttemptsAreTimeouts, Jobs
    <2>10. ClaimsAreExclusive'
      <3>1. ASSUME NEW w \in Workers, NEW j \in Rows(w) PROVE j \in Jobs /\ j \notin new
        BY <2>3, <3>1 DEF IInv, TypeOK, ClaimsAreExclusive, Rows
      <3> QED
        BY <1>2, <2>4, <3>1 DEF IInv, ClaimsAreExclusive, Rows, workerVars
    <2>11. FiledBelongs'
      BY <1>1, <1>2, <1>4, <2>2, <2>3, <2>4, <2>5
      DEF IInv, FiledBelongs, DocumentLive, Jobs, officeVars
    <2>12. StagesAgree' /\ GoneStaysGone'
      <3>1. StagesAgree'
        BY <1>1, <1>2, <1>4 DEF IInv, TypeOK, StagesAgree, Jobs, workerVars
      <3>2. ASSUME NEW w \in Workers, pc[w] = "documentGone"
            PROVE  held[w] \in Jobs /\ held[w] \notin new
        BY <1>1, <2>2, <3>2 DEF IInv, StagesAgree, JobStages, Stages, Jobs
      <3>3. GoneStaysGone'
        BY <1>2, <2>4, <3>2 DEF IInv, GoneStaysGone, DocumentLive, workerVars, officeVars
      <3> QED
        BY <3>1, <3>3
    <2>13. AskingFits' /\ RetryingExists'
      BY <1>1, <1>2, <1>4, FS_EmptySet DEF IInv, AskingFits, RetryingExists
    <2> QED
      BY <2>6, <2>7, <2>8, <2>9, <2>10, <2>11, <2>12, <2>13 DEF IInv
  <1> QED
    BY <1>3, <1>4 DEF CreateInsert

(* A translating or failed row is in no claim's hands. *)
LEMMA OnlyQueuedAreLocked ==
    ASSUME IInv, NEW j \in Jobs, status[j] # "queued"
    PROVE  Unlocked(j)
  BY DEF IInv, ClaimsAreExclusive, Unlocked

(* One row that no claim has locked ends, or stops, being worked on.           *)
LEMMA RowStops ==
    ASSUME IInv, NEW j \in 1..made, Unlocked(j),
           NEW s \in {"translated", "failed", "cancelled"},
           status' = [status EXCEPT ![j] = s],
           overdue' = overdue \ {j},
           UNCHANGED <<made, file, attempts, timeouts, taken>>
    PROVE  /\ status' \in [Jobs -> Statuses]
           /\ OverdueAreHeld'
           /\ OneActivePerFile'
           /\ AttemptsAreTimeouts'
           /\ ClaimsAreExclusive'
  <1>1. j \in Jobs /\ \A i \in 1..made : i \in Jobs
    BY QueueAssumptions DEF IInv, TypeOK, Jobs
  <1>2. \A i \in Jobs : status'[i] = IF i = j THEN s ELSE status[i]
    BY DEF IInv, TypeOK
  <1>3. status' \in [Jobs -> Statuses]
    BY DEF IInv, TypeOK, Statuses
  <1>4. OverdueAreHeld'
    BY <1>2 DEF IInv, TypeOK, OverdueAreHeld
  <1>5. OneActivePerFile'
    BY <1>1, <1>2 DEF IInv, OneActivePerFile, Active
  <1>6. AttemptsAreTimeouts'
    BY <1>1, <1>2 DEF IInv, AttemptsAreTimeouts
  <1>7. ClaimsAreExclusive'
    <2>1. ASSUME NEW w \in Workers, NEW i \in Rows(w) PROVE i \in Jobs /\ i # j
      BY <2>1 DEF IInv, TypeOK, Rows, Unlocked
    <2> QED
      BY <1>2, <2>1 DEF IInv, ClaimsAreExclusive, Rows
  <1> QED
    BY <1>3, <1>4, <1>5, <1>6, <1>7

LEMMA CancelPreserves ==
    ASSUME IInv, NEW j \in Jobs, Cancel(j)
    PROVE  IInv'
  <1>1. /\ j \in 1..made /\ status[j] = "queued" /\ Unlocked(j)
        /\ status' = [status EXCEPT ![j] = "cancelled"]
        /\ UNCHANGED <<made, file, attempts, overdue, timeouts, filed,
                       officeVars, staffVars, workerVars, left>>
    BY DEF Cancel
  <1>2. overdue' = overdue \ {j}
    BY <1>1 DEF IInv, OverdueAreHeld
  <1>3. /\ status' \in [Jobs -> Statuses]
        /\ OverdueAreHeld' /\ OneActivePerFile' /\ AttemptsAreTimeouts' /\ ClaimsAreExclusive'
    BY <1>1, <1>2, RowStops DEF workerVars
  <1>4. TypeOK'
    BY <1>1, <1>3 DEF IInv, TypeOK, officeVars, staffVars, workerVars
  <1>5. RowsExist' /\ FiledBelongs'
    BY <1>1 DEF IInv, TypeOK, RowsExist, FiledBelongs, DocumentLive, officeVars, Jobs
  <1>6. StagesAgree' /\ GoneStaysGone' /\ AskingFits' /\ RetryingExists'
    BY <1>1 DEF IInv, StagesAgree, GoneStaysGone, AskingFits, RetryingExists, DocumentLive,
                officeVars, staffVars, workerVars
  <1> QED
    BY <1>3, <1>4, <1>5, <1>6 DEF IInv

LEMMA RetryUpdatePreserves ==
    ASSUME IInv, RetryUpdate
    PROVE  IInv'
  <1>1. /\ UNCHANGED <<officeVars, asking, workerVars, left>> /\ retrying' = None
        /\ retrying \in 1..made /\ retrying \in Jobs
        /\ made \in 0..MaxJobs /\ MaxJobs \in Nat /\ \A i \in 1..made : i \in Jobs
    BY QueueAssumptions DEF IInv, TypeOK, RetryingExists, RetryUpdate, Jobs
  <1>2. CASE UNCHANGED jobVars
    BY <1>1, <1>2, StaffRefused
  <1>3. ASSUME status[retrying] = "failed", IndexAllows(file[retrying]),
               status' = [status EXCEPT ![retrying] = "queued"],
               attempts' = [attempts EXCEPT ![retrying] = 0],
               timeouts' = [timeouts EXCEPT ![retrying] = 0],
               UNCHANGED <<made, file, overdue, filed>>
        PROVE  IInv'
    <2>1. \A i \in Jobs : /\ status'[i] = IF i = retrying THEN "queued" ELSE status[i]
                          /\ attempts'[i] = IF i = retrying THEN 0 ELSE attempts[i]
                          /\ timeouts'[i] = IF i = retrying THEN 0 ELSE timeouts[i]
      BY <1>3 DEF IInv, TypeOK
    <2>2. TypeOK'
      BY <1>1, <1>3, QueueAssumptions DEF IInv, TypeOK, Statuses, officeVars, workerVars
    <2>3. RowsExist' /\ OverdueAreHeld'
      BY <1>1, <1>3, <2>1 DEF IInv, TypeOK, RowsExist, OverdueAreHeld
    <2>4. OneActivePerFile'
      BY <1>1, <1>3, <2>1 DEF IInv, OneActivePerFile, IndexAllows, Active
    <2>5. AttemptsAreTimeouts'
      BY <1>1, <1>3, <2>1, QueueAssumptions DEF IInv, AttemptsAreTimeouts
    <2>6. ClaimsAreExclusive'
      <3>1. ASSUME NEW w \in Workers, NEW i \in Rows(w) PROVE i \in Jobs /\ i # retrying
        BY <1>3, <3>1 DEF IInv, TypeOK, ClaimsAreExclusive, Rows
      <3> QED
        BY <1>1, <2>1, <3>1 DEF IInv, ClaimsAreExclusive, Rows, workerVars
    <2>7. FiledBelongs'
      BY <1>1, <1>3, <2>1 DEF IInv, FiledBelongs, DocumentLive, officeVars
    <2>8. StagesAgree' /\ GoneStaysGone' /\ AskingFits' /\ RetryingExists'
      BY <1>1, <1>3 DEF IInv, StagesAgree, GoneStaysGone, AskingFits, RetryingExists,
                        DocumentLive, officeVars, workerVars
    <2> QED
      BY <2>2, <2>3, <2>4, <2>5, <2>6, <2>7, <2>8 DEF IInv
  <1> QED
    BY <1>2, <1>3 DEF RetryUpdate

(* Putting an organisation's stuck jobs back keeps everything the invariant    *)
(* says of the rows.                                                           *)
LEMMA RequeueKeeps ==
    ASSUME IInv, NEW t, RequeueStuck(t), UNCHANGED <<taken, documents>>
    PROVE  /\ RowFacts'
           /\ status' \in [Jobs -> Statuses] /\ timeouts' \in [Jobs -> 0..MaxAttempts]
           /\ overdue' \subseteq Jobs
  <1>1. \A j \in Stuck(t) : /\ j \in 1..made /\ j \in Jobs /\ status[j] = "translating"
                            /\ attempts[j] = timeouts[j] + 1
    BY DEF IInv, TypeOK, Stuck, TenantsJobs, OverdueAreHeld, AttemptsAreTimeouts
  <1>2. \A j \in Jobs : /\ attempts[j] \in 0..MaxAttempts /\ timeouts[j] \in 0..MaxAttempts
                        /\ MaxAttempts \in Nat
    BY QueueAssumptions DEF IInv, TypeOK
  <1>3. \A j \in Jobs :
           \/ j \notin Stuck(t) /\ status'[j] = status[j] /\ timeouts'[j] = timeouts[j]
           \/ /\ j \in Stuck(t) /\ timeouts'[j] = timeouts[j] + 1
              /\ \/ status'[j] = "failed"
                 \/ status'[j] = "queued" /\ attempts[j] < MaxAttempts
    BY <1>2 DEF RequeueStuck, GaveUp
  <1>4. /\ overdue' = overdue \ Stuck(t)
        /\ UNCHANGED <<made, file, attempts, filed>>
    BY DEF RequeueStuck
  <1>5. made \in 0..MaxJobs /\ \A i \in 1..made : i \in Jobs
    BY QueueAssumptions DEF IInv, TypeOK, Jobs
  <1>6. status' \in [Jobs -> Statuses]
    BY DEF IInv, TypeOK, RequeueStuck, Statuses
  <1>7. timeouts' \in [Jobs -> 0..MaxAttempts]
    <2>1. \A j \in Jobs : timeouts'[j] \in 0..MaxAttempts
      BY <1>1, <1>2, <1>3
    <2> QED
      BY <2>1 DEF RequeueStuck
  <1>8. overdue' \subseteq Jobs
    BY <1>4 DEF IInv, TypeOK
  <1>9. RowsExist'
    BY <1>1, <1>3, <1>4, <1>5 DEF IInv, RowsExist, Jobs
  <1>10. OverdueAreHeld'
    BY <1>3, <1>4, <1>8 DEF IInv, OverdueAreHeld
  <1>11. OneActivePerFile'
    BY <1>1, <1>3, <1>4, <1>5, NothingBecomesActive DEF IInv, Active
  <1>12. AttemptsAreTimeouts'
    BY <1>1, <1>3, <1>4, <1>5 DEF IInv, AttemptsAreTimeouts
  <1>13. ClaimsAreExclusive'
    <2>1. ASSUME NEW w \in Workers, NEW i \in Rows(w) PROVE i \in Jobs /\ i \notin Stuck(t)
      BY <1>1, <2>1 DEF IInv, TypeOK, ClaimsAreExclusive, Rows
    <2> QED
      BY <1>3, <2>1 DEF IInv, ClaimsAreExclusive, Rows
  <1>14. FiledBelongs'
    BY <1>1, <1>3, <1>4, <1>5 DEF IInv, FiledBelongs, DocumentLive
  <1> QED
    BY <1>6, <1>7, <1>8, <1>9, <1>10, <1>11, <1>12, <1>13, <1>14 DEF RowFacts

LEMMA ListJobsPreserves ==
    ASSUME IInv, NEW t \in Tenants, ListJobs(t)
    PROVE  IInv'
  <1>1. RequeueStuck(t) /\ UNCHANGED <<officeVars, staffVars, workerVars, left>>
    BY DEF ListJobs
  <1>2. UNCHANGED <<made, file, attempts, filed>>
    BY <1>1 DEF RequeueStuck
  <1>3. /\ RowFacts'
        /\ status' \in [Jobs -> Statuses] /\ timeouts' \in [Jobs -> 0..MaxAttempts]
        /\ overdue' \subseteq Jobs
    BY <1>1, RequeueKeeps DEF officeVars, workerVars
  <1>4. TypeOK'
    BY <1>1, <1>2, <1>3 DEF IInv, TypeOK, officeVars, staffVars, workerVars
  <1>5. StagesAgree' /\ GoneStaysGone' /\ AskingFits' /\ RetryingExists'
    BY <1>1, <1>2 DEF IInv, StagesAgree, GoneStaysGone, AskingFits, RetryingExists,
                      DocumentLive, officeVars, staffVars, workerVars
  <1> QED
    BY <1>3, <1>4, <1>5 DEF IInv, RowFacts

LEMMA ScanTenantPreserves ==
    ASSUME IInv, NEW w \in Workers, ScanTenant(w)
    PROVE  IInv'
  <1> DEFINE t == Oldest(todo[w])
             waiting == {j \in TenantsJobs(t) : status'[j] = "queued"}
             seen == found[w] \cup (IF waiting = {} THEN {} ELSE {Oldest(waiting)})
  <1>1. /\ pc[w] = "scanning" /\ RequeueStuck(t)
        /\ todo' = [todo EXCEPT ![w] = @ \ {t}]
        /\ found' = [found EXCEPT ![w] = seen]
        /\ pc' = [pc EXCEPT ![w] = IF todo[w] # {t} THEN "scanning"
                                   ELSE IF seen = {} THEN "idle" ELSE "claiming"]
        /\ UNCHANGED <<officeVars, staffVars, held, taken, left>>
    BY DEF ScanTenant
  <1>2. UNCHANGED <<made, file, attempts, filed>>
    BY <1>1 DEF RequeueStuck
  <1>3. /\ RowFacts'
        /\ status' \in [Jobs -> Statuses] /\ timeouts' \in [Jobs -> 0..MaxAttempts]
        /\ overdue' \subseteq Jobs
    BY <1>1, RequeueKeeps DEF officeVars
  <1>4. seen \in SUBSET Jobs
    <2>1. waiting \in SUBSET Jobs /\ waiting \in SUBSET Nat
      BY QueueAssumptions DEF IInv, TypeOK, TenantsJobs, Jobs
    <2>2. waiting # {} => Oldest(waiting) \in waiting
      BY <2>1, OldestIsMember
    <2> QED
      BY <2>1, <2>2 DEF IInv, TypeOK
  <1>5. TypeOK'
    <2>1. todo' \in [Workers -> SUBSET Tenants] /\ found' \in [Workers -> SUBSET Jobs]
      <3> HIDE DEF seen, t
      <3> QED BY <1>1, <1>4 DEF IInv, TypeOK
    <2>2. pc' \in [Workers -> Stages]
      <3> HIDE DEF seen, t
      <3> QED BY <1>1 DEF IInv, TypeOK, Stages
    <2> HIDE DEF seen, t
    <2> QED
      BY <1>1, <1>2, <1>3, <2>1, <2>2 DEF IInv, TypeOK, officeVars, staffVars
  <1>6. StagesAgree' /\ GoneStaysGone'
    <2> HIDE DEF seen, t
    <2> QED
      BY <1>1, <1>2 DEF IInv, TypeOK, StagesAgree, GoneStaysGone, DocumentLive, JobStages,
                        Stages, officeVars
  <1>7. AskingFits' /\ RetryingExists'
    BY <1>1, <1>2 DEF IInv, AskingFits, RetryingExists, staffVars
  <1> QED
    BY <1>3, <1>5, <1>6, <1>7 DEF IInv, RowFacts

(* Documents only go: what is filed for a gone one stays filed for a gone one. *)
LEMMA RemoveDocumentPreserves ==
    ASSUME IInv, NEW d \in Documents, RemoveDocument(d)
    PROVE  IInv'
  <1>1. /\ documents' = documents \ {d} /\ kept' \subseteq kept
        /\ UNCHANGED <<jobVars, enabled, staffVars, workerVars>>
        /\ left' \in [Rare -> Nat]
    BY DEF IInv, TypeOK, RemoveDocument, Spend, Rare
  <1>2. TypeOK'
    BY <1>1 DEF IInv, TypeOK, jobVars, staffVars, workerVars
  <1>3. RowsExist' /\ OverdueAreHeld' /\ OneActivePerFile' /\ AttemptsAreTimeouts'
        /\ ClaimsAreExclusive'
    BY <1>1 DEF IInv, RowsExist, OverdueAreHeld, OneActivePerFile, Active,
                AttemptsAreTimeouts, ClaimsAreExclusive, Rows, jobVars, workerVars
  <1>4. FiledBelongs' /\ GoneStaysGone'
    BY <1>1 DEF IInv, FiledBelongs, GoneStaysGone, DocumentLive, jobVars, workerVars
  <1>5. StagesAgree' /\ AskingFits' /\ RetryingExists'
    BY <1>1 DEF IInv, StagesAgree, AskingFits, RetryingExists, jobVars, staffVars, workerVars
  <1> QED
    BY <1>2, <1>3, <1>4, <1>5 DEF IInv

LEMMA GrowOverduePreserves ==
    ASSUME IInv, NEW j \in Jobs, GrowOverdue(j)
    PROVE  IInv'
  <1>1. /\ status[j] = "translating" /\ overdue' = overdue \cup {j}
        /\ UNCHANGED <<made, status, file, attempts, timeouts, filed,
                       officeVars, staffVars, workerVars, left>>
    BY DEF GrowOverdue
  <1>2. TypeOK'
    BY <1>1 DEF IInv, TypeOK, officeVars, staffVars, workerVars
  <1>3. RowsExist' /\ OverdueAreHeld' /\ OneActivePerFile' /\ AttemptsAreTimeouts'
        /\ ClaimsAreExclusive' /\ FiledBelongs'
    BY <1>1 DEF IInv, RowsExist, OverdueAreHeld, OneActivePerFile, Active, AttemptsAreTimeouts,
                ClaimsAreExclusive, Rows, FiledBelongs, DocumentLive, officeVars, workerVars
  <1>4. StagesAgree' /\ GoneStaysGone' /\ AskingFits' /\ RetryingExists'
    BY <1>1 DEF IInv, StagesAgree, GoneStaysGone, AskingFits, RetryingExists, DocumentLive,
                officeVars, staffVars, workerVars
  <1> QED
    BY <1>2, <1>3, <1>4 DEF IInv

(* A worker that changes its own claim, and no row. *)
LEMMA ClaimStep ==
    ASSUME IInv, NEW w \in Workers,
           UNCHANGED <<jobVars, officeVars, staffVars, held>>,
           pc[w] \in {"claiming", "committing"},
           pc' \in [Workers -> Stages], \A v \in Workers \ {w} : pc'[v] = pc[v],
           pc'[w] \in {"idle", "claiming", "committing"},
           pc'[w] # "committing" => taken'[w] = NoRows,
           \A v \in Workers \ {w} : taken'[v] = taken[v],
           ClaimsAreExclusive',
           todo' \in [Workers -> SUBSET Tenants], found' \in [Workers -> SUBSET Jobs],
           taken' \in [Workers -> [take : Jobs \cup {None}, fail : SUBSET Jobs]],
           left' \in [Rare -> Nat]
    PROVE  IInv'
  <1>1. TypeOK'
    BY DEF IInv, TypeOK, jobVars, officeVars, staffVars
  <1>2. RowsExist' /\ OverdueAreHeld' /\ OneActivePerFile' /\ AttemptsAreTimeouts'
        /\ FiledBelongs'
    BY DEF IInv, RowsExist, OverdueAreHeld, OneActivePerFile, Active, AttemptsAreTimeouts,
           FiledBelongs, DocumentLive, jobVars, officeVars
  <1>3. StagesAgree'
    BY DEF IInv, StagesAgree, JobStages, Stages, jobVars
  <1>4. GoneStaysGone' /\ AskingFits' /\ RetryingExists'
    BY DEF IInv, GoneStaysGone, AskingFits, RetryingExists, DocumentLive, jobVars,
           officeVars, staffVars
  <1> QED
    BY <1>1, <1>2, <1>3, <1>4 DEF IInv

LEMMA ClaimTakePreserves ==
    ASSUME IInv, NEW w \in Workers, ClaimTake(w)
    PROVE  IInv'
  <1> DEFINE t    == TenantOf[file[Oldest(found[w])]]
             open == {j \in Queued(t) : Unlocked(j)}
             good == {j \in open : SourceLive(j)}
             rows == IF good = {} THEN [take |-> None, fail |-> open]
                     ELSE [take |-> Oldest(good), fail |-> {j \in open : j < Oldest(good)}]
  <1>1. /\ pc[w] = "claiming"
        /\ UNCHANGED <<jobVars, officeVars, staffVars, held, todo, left>>
        /\ \/ NextOrganisation(w) /\ UNCHANGED taken
           \/ /\ taken' = [taken EXCEPT ![w] = rows]
              /\ pc' = [pc EXCEPT ![w] = "committing"]
              /\ UNCHANGED found
    BY DEF ClaimTake
  <1>2. /\ open \in SUBSET Jobs /\ good \in SUBSET open /\ good \in SUBSET Nat
        /\ \A j \in open : status[j] = "queued" /\ Unlocked(j)
    BY QueueAssumptions DEF IInv, TypeOK, Queued, TenantsJobs, Jobs
  <1>3. good # {} => Oldest(good) \in good
    BY <1>2, OldestIsMember
  <1>4. CASE NextOrganisation(w) /\ UNCHANGED taken
    <2>1. /\ pc' \in [Workers -> Stages] /\ \A v \in Workers \ {w} : pc'[v] = pc[v]
          /\ pc'[w] \in {"idle", "claiming"} /\ found' \in [Workers -> SUBSET Jobs]
      BY <1>4 DEF NextOrganisation, IInv, TypeOK, Stages
    <2>2. ClaimsAreExclusive'
      BY <1>1, <1>4 DEF IInv, ClaimsAreExclusive, Rows, jobVars
    <2>3. /\ todo' \in [Workers -> SUBSET Tenants] /\ left' \in [Rare -> Nat]
          /\ taken' \in [Workers -> [take : Jobs \cup {None}, fail : SUBSET Jobs]]
          /\ taken'[w] = NoRows /\ \A v \in Workers \ {w} : taken'[v] = taken[v]
      BY <1>1, <1>4 DEF IInv, TypeOK, StagesAgree
    <2> QED
      BY <1>1, <2>1, <2>2, <2>3, ClaimStep
  <1>5. CASE /\ taken' = [taken EXCEPT ![w] = rows]
             /\ pc' = [pc EXCEPT ![w] = "committing"]
             /\ UNCHANGED found
    <2>1. /\ rows \in [take : Jobs \cup {None}, fail : SUBSET Jobs]
          /\ rows.fail \subseteq open
          /\ rows.take # None => rows.take \in open
      BY <1>2, <1>3
    <2> HIDE DEF rows
    <2>2. /\ pc' \in [Workers -> Stages] /\ \A v \in Workers \ {w} : pc'[v] = pc[v]
          /\ pc'[w] = "committing"
      BY <1>5 DEF IInv, TypeOK, Stages
    <2>3. /\ taken' \in [Workers -> [take : Jobs \cup {None}, fail : SUBSET Jobs]]
          /\ taken'[w] = rows /\ \A v \in Workers \ {w} : taken'[v] = taken[v]
      BY <1>5, <2>1 DEF IInv, TypeOK
    <2>4. /\ \A j \in Rows(w)' : status[j] = "queued" /\ Unlocked(j)
          /\ \A v \in Workers \ {w} : Rows(v)' = Rows(v)
      BY <1>2, <2>1, <2>3 DEF Rows
    <2>5. ClaimsAreExclusive'
      BY <1>1, <2>4 DEF IInv, ClaimsAreExclusive, Unlocked, jobVars
    <2>6. /\ todo' \in [Workers -> SUBSET Tenants] /\ left' \in [Rare -> Nat]
          /\ found' \in [Workers -> SUBSET Jobs]
      BY <1>1, <1>5 DEF IInv, TypeOK
    <2> QED
      BY <1>1, <2>2, <2>3, <2>5, <2>6, ClaimStep
  <1> QED
    BY <1>1, <1>4, <1>5

LEMMA ClaimAbortPreserves ==
    ASSUME IInv, NEW w \in Workers, ClaimAbort(w)
    PROVE  IInv'
  <1>1. /\ pc[w] = "committing"
        /\ taken' = [taken EXCEPT ![w] = NoRows]
        /\ found' = [found EXCEPT ![w] = {}]
        /\ pc' = [pc EXCEPT ![w] = "idle"]
        /\ UNCHANGED <<jobVars, officeVars, staffVars, held, todo>>
    BY DEF ClaimAbort
  <1>2. /\ pc' \in [Workers -> Stages] /\ \A v \in Workers \ {w} : pc'[v] = pc[v]
        /\ pc'[w] = "idle" /\ found' \in [Workers -> SUBSET Jobs]
        /\ todo' \in [Workers -> SUBSET Tenants]
    BY <1>1 DEF IInv, TypeOK, Stages
  <1>3. /\ taken' \in [Workers -> [take : Jobs \cup {None}, fail : SUBSET Jobs]]
        /\ taken'[w] = NoRows /\ \A v \in Workers \ {w} : taken'[v] = taken[v]
    BY <1>1, NoRowsType DEF IInv, TypeOK
  <1>4. left' \in [Rare -> Nat]
    BY DEF IInv, TypeOK, ClaimAbort, Spend, Rare
  <1>5. Rows(w)' = {} /\ \A v \in Workers \ {w} : Rows(v)' = Rows(v)
    BY <1>3 DEF Rows, NoRows
  <1>6. ClaimsAreExclusive'
    BY <1>1, <1>5 DEF IInv, ClaimsAreExclusive, jobVars
  <1> QED
    BY <1>1, <1>2, <1>3, <1>4, <1>6, ClaimStep

LEMMA ClaimCommitPreserves ==
    ASSUME IInv, NEW w \in Workers, NEW answered \in BOOLEAN, ClaimCommit(w, answered)
    PROVE  IInv'
  <1> DEFINE j == taken[w].take
  <1>1. /\ pc[w] = "committing"
        /\ status' = [i \in Jobs |-> IF i = j THEN "translating"
                                     ELSE IF i \in taken[w].fail THEN "failed" ELSE status[i]]
        /\ attempts' = [i \in Jobs |-> IF i \in Rows(w) THEN attempts[i] + 1 ELSE attempts[i]]
        /\ taken' = [taken EXCEPT ![w] = NoRows]
        /\ UNCHANGED <<made, file, overdue, timeouts, filed, officeVars, staffVars, todo, left>>
        /\ \/ /\ j = None /\ NextOrganisation(w) /\ UNCHANGED held
           \/ /\ j # None
              /\ found' = [found EXCEPT ![w] = {}]
              /\ held' = [held EXCEPT ![w] = IF answered THEN j ELSE None]
              /\ pc' = [pc EXCEPT ![w] = IF answered THEN "claimed" ELSE "idle"]
    BY DEF ClaimCommit
  <1>2. /\ j \in Jobs \cup {None} /\ taken[w].fail \subseteq Jobs /\ None \notin Jobs
        /\ Rows(w) = taken[w].fail \cup ({j} \ {None})
    BY QueueAssumptions DEF IInv, TypeOK, Rows, Jobs
  <1>3. \A i \in Rows(w) : /\ i \in Jobs /\ i \in 1..made /\ status[i] = "queued"
                           /\ i \notin overdue
                           /\ attempts[i] = timeouts[i] /\ attempts[i] < MaxAttempts
    <2>1. \A i \in Rows(w) : i \in Jobs /\ status[i] = "queued"
      BY <1>2 DEF IInv, ClaimsAreExclusive
    <2>2. \A i \in Rows(w) : i \in 1..made
      BY <2>1, QueueAssumptions DEF IInv, TypeOK, RowsExist, Jobs
    <2> QED
      BY <2>1, <2>2 DEF IInv, OverdueAreHeld, AttemptsAreTimeouts
  <1>4. \A i \in Jobs :
           \/ /\ i \notin Rows(w) /\ status'[i] = status[i] /\ attempts'[i] = attempts[i]
           \/ /\ i \in Rows(w) /\ status'[i] \in {"translating", "failed"}
              /\ attempts'[i] = attempts[i] + 1
    BY <1>1, <1>2
  <1>5. made \in 0..MaxJobs /\ \A i \in 1..made : i \in Jobs
    BY QueueAssumptions DEF IInv, TypeOK, Jobs
  <1>6. TypeOK'
    <2>1. status' \in [Jobs -> Statuses]
      BY <1>1 DEF IInv, TypeOK, Statuses
    <2>2. attempts' \in [Jobs -> 0..MaxAttempts]
      <3>1. \A i \in Jobs : attempts'[i] \in 0..MaxAttempts
        BY <1>3, <1>4, QueueAssumptions DEF IInv, TypeOK
      <3> QED
        BY <1>1, <3>1
    <2>3. /\ pc' \in [Workers -> Stages] /\ found' \in [Workers -> SUBSET Jobs]
          /\ held' \in [Workers -> Jobs \cup {None}]
      <3>1. CASE j = None /\ NextOrganisation(w) /\ UNCHANGED held
        BY <3>1 DEF IInv, TypeOK, Stages, NextOrganisation
      <3>2. CASE /\ j # None
                 /\ found' = [found EXCEPT ![w] = {}]
                 /\ held' = [held EXCEPT ![w] = IF answered THEN j ELSE None]
                 /\ pc' = [pc EXCEPT ![w] = IF answered THEN "claimed" ELSE "idle"]
        BY <1>2, <3>2 DEF IInv, TypeOK, Stages
      <3> QED
        BY <1>1, <3>1, <3>2
    <2>4. taken' \in [Workers -> [take : Jobs \cup {None}, fail : SUBSET Jobs]]
      BY <1>1, NoRowsType DEF IInv, TypeOK
    <2> QED
      BY <1>1, <2>1, <2>2, <2>3, <2>4 DEF IInv, TypeOK, officeVars, staffVars
  <1>7. RowsExist'
    BY <1>1, <1>3, <1>4, <1>5 DEF IInv, RowsExist, Jobs
  <1>8. OverdueAreHeld'
    BY <1>1, <1>3, <1>4 DEF IInv, TypeOK, OverdueAreHeld
  <1>9. OneActivePerFile'
    BY <1>1, <1>3, <1>4, <1>5, NothingBecomesActive DEF IInv, Active
  <1>10. AttemptsAreTimeouts'
    BY <1>1, <1>3, <1>4, <1>5 DEF IInv, AttemptsAreTimeouts
  <1>11. ClaimsAreExclusive'
    <2>1. Rows(w)' = {} /\ \A v \in Workers \ {w} : Rows(v)' = Rows(v)
      BY <1>1, NoRowsType DEF IInv, TypeOK, Rows, NoRows
    <2>2. \A v \in Workers \ {w} : \A i \in Rows(v) : i \in Jobs /\ i \notin Rows(w)
      BY DEF IInv, TypeOK, ClaimsAreExclusive, Rows
    <2> QED
      BY <1>4, <2>1, <2>2 DEF IInv, ClaimsAreExclusive
  <1>12. FiledBelongs'
    BY <1>1, <1>3, <1>4, <1>5 DEF IInv, FiledBelongs, DocumentLive, officeVars
  <1>13. StagesAgree'
    BY <1>1, <1>2, <1>3 DEF IInv, TypeOK, StagesAgree, JobStages, Stages, NextOrganisation
  <1>14. GoneStaysGone'
    BY <1>1 DEF IInv, TypeOK, GoneStaysGone, DocumentLive, NextOrganisation, officeVars
  <1>15. AskingFits' /\ RetryingExists'
    BY <1>1 DEF IInv, AskingFits, RetryingExists, staffVars
  <1> QED
    BY <1>6, <1>7, <1>8, <1>9, <1>10, <1>11, <1>12, <1>13, <1>14, <1>15 DEF IInv

(* Any step of a worker that ends its hold on a row, or keeps it.              *)
LEMMA ResultFiledPreserves ==
    ASSUME IInv, NEW w \in Workers, NEW answered \in BOOLEAN, ResultFiled(w, answered)
    PROVE  IInv'
  <1> DEFINE j == held[w]
  <1>1. /\ pc[w] = "filing" /\ Unlocked(j) /\ status[j] = "translating" /\ DocumentLive(j)
        /\ status' = [status EXCEPT ![j] = "translated"]
        /\ filed' = [filed EXCEPT ![j] = @ + 1]
        /\ overdue' = overdue \ {j}
        /\ UNCHANGED <<made, file, attempts, timeouts, officeVars, staffVars, left>>
        /\ pc' = [pc EXCEPT ![w] = IF answered THEN "idle" ELSE "sayFailed"]
        /\ held' = [held EXCEPT ![w] = IF answered THEN None ELSE @]
        /\ UNCHANGED <<todo, found, taken>>
    BY DEF ResultFiled, MayFile, Goto
  <1>2. j \in 1..made /\ j \in Jobs /\ \A i \in 1..made : i \in Jobs
    BY <1>1, QueueAssumptions DEF IInv, TypeOK, StagesAgree, JobStages, Stages, Jobs
  <1> HIDE DEF j
  <1>3. /\ status' \in [Jobs -> Statuses]
        /\ OverdueAreHeld' /\ OneActivePerFile' /\ AttemptsAreTimeouts' /\ ClaimsAreExclusive'
    BY <1>1, <1>2, RowStops
  <1>4. TypeOK'
    <2>1. filed' \in [Jobs -> Nat] /\ overdue' \subseteq Jobs
      BY <1>1, <1>2 DEF IInv, TypeOK
    <2>2. pc' \in [Workers -> Stages] /\ held' \in [Workers -> Jobs \cup {None}]
      BY <1>1 DEF IInv, TypeOK, Stages
    <2> QED
      BY <1>1, <1>3, <2>1, <2>2 DEF IInv, TypeOK, officeVars, staffVars
  <1>5. RowsExist' /\ FiledBelongs'
    <2>1. filed[j] = 0
      BY <1>1, <1>2 DEF IInv, TypeOK, FiledBelongs
    <2>2. \A i \in Jobs : /\ filed'[i] = IF i = j THEN 1 ELSE filed[i]
                          /\ status'[i] = IF i = j THEN "translated" ELSE status[i]
      BY <1>1, <2>1 DEF IInv, TypeOK
    <2>3. RowsExist'
      BY <1>1, <1>2, <2>2 DEF IInv, TypeOK, RowsExist, Jobs
    <2>4. FiledBelongs'
      BY <1>1, <1>2, <2>2 DEF IInv, FiledBelongs, DocumentLive, officeVars
    <2> QED
      BY <2>3, <2>4
  <1>6. StagesAgree' /\ GoneStaysGone'
    BY <1>1, <1>2 DEF IInv, TypeOK, StagesAgree, GoneStaysGone, DocumentLive, JobStages,
                      Stages, officeVars
  <1>7. AskingFits' /\ RetryingExists'
    BY <1>1 DEF IInv, AskingFits, RetryingExists, staffVars
  <1> QED
    BY <1>3, <1>4, <1>5, <1>6, <1>7 DEF IInv

LEMMA ResultDocumentGonePreserves ==
    ASSUME IInv, NEW w \in Workers, ResultDocumentGone(w)
    PROVE  IInv'
  <1> DEFINE j == held[w]
  <1>1. /\ pc[w] = "documentGone" /\ Unlocked(j)
        /\ status' = [status EXCEPT ![j] = "failed"]
        /\ overdue' = overdue \ {j}
        /\ UNCHANGED <<made, file, attempts, timeouts, filed, officeVars, staffVars, left>>
        /\ pc' = [pc EXCEPT ![w] = "sayFailed"]
        /\ held' = [held EXCEPT ![w] = @]
        /\ UNCHANGED <<todo, found, taken>>
    BY DEF ResultDocumentGone, Goto
  <1>2. /\ j \in 1..made /\ j \in Jobs /\ ~DocumentLive(j)
        /\ \A i \in 1..made : i \in Jobs
    <2>1. j \in 1..made
      BY <1>1 DEF IInv, StagesAgree, JobStages, Stages
    <2>2. ~DocumentLive(j)
      BY <1>1 DEF IInv, GoneStaysGone
    <2> QED
      BY <2>1, <2>2, QueueAssumptions DEF IInv, TypeOK, Jobs
  <1> HIDE DEF j
  <1>3. /\ status' \in [Jobs -> Statuses]
        /\ OverdueAreHeld' /\ OneActivePerFile' /\ AttemptsAreTimeouts' /\ ClaimsAreExclusive'
    BY <1>1, <1>2, RowStops
  <1>4. TypeOK'
    BY <1>1, <1>2, <1>3 DEF IInv, TypeOK, Stages, officeVars, staffVars
  <1>5. RowsExist' /\ FiledBelongs'
    BY <1>1, <1>2 DEF IInv, TypeOK, RowsExist, FiledBelongs, DocumentLive, officeVars, Jobs
  <1>6. StagesAgree' /\ GoneStaysGone'
    BY <1>1, <1>2 DEF IInv, TypeOK, StagesAgree, GoneStaysGone, DocumentLive, JobStages,
                      Stages, officeVars
  <1>7. AskingFits' /\ RetryingExists'
    BY <1>1 DEF IInv, AskingFits, RetryingExists, staffVars
  <1> QED
    BY <1>3, <1>4, <1>5, <1>6, <1>7 DEF IInv

(* A report that comes too late changes no row: the worker just goes on.       *)
LEMMA ReportIgnored ==
    ASSUME IInv, NEW w \in Workers, UNCHANGED <<jobVars, officeVars, staffVars, left>>,
           pc[w] \in JobStages, Goto(w, "idle")
    PROVE  IInv'
  <1>1. TypeOK'
    BY DEF IInv, TypeOK, Stages, Goto, jobVars, officeVars, staffVars
  <1>2. RowFacts'
    BY RowFactsKept DEF IInv, RowFacts, Goto, officeVars
  <1>3. StagesAgree' /\ GoneStaysGone'
    BY DEF IInv, TypeOK, StagesAgree, GoneStaysGone, DocumentLive, JobStages, Stages, Goto,
           jobVars, officeVars
  <1>4. AskingFits' /\ RetryingExists'
    BY DEF IInv, AskingFits, RetryingExists, jobVars, staffVars
  <1> QED
    BY <1>1, <1>2, <1>3, <1>4 DEF IInv, RowFacts

LEMMA ReportFailedPreserves ==
    ASSUME IInv, NEW w \in Workers, ReportFailed(w)
    PROVE  IInv'
  <1> DEFINE j == held[w]
  <1>1. /\ pc[w] = "sayFailed" /\ pc[w] \in JobStages /\ Goto(w, "idle")
        /\ UNCHANGED <<officeVars, staffVars, left>>
    BY DEF ReportFailed, JobStages, Stages
  <1>2. CASE UNCHANGED jobVars
    BY <1>1, <1>2, ReportIgnored
  <1>3. ASSUME status[j] = "translating",
               status' = [status EXCEPT ![j] = "failed"],
               overdue' = overdue \ {j},
               UNCHANGED <<made, file, attempts, timeouts, filed>>
        PROVE  IInv'
    <2>1. j \in 1..made /\ j \in Jobs /\ \A i \in 1..made : i \in Jobs
      BY <1>1, QueueAssumptions DEF IInv, TypeOK, StagesAgree, Jobs
    <2>2. /\ pc' = [pc EXCEPT ![w] = "idle"] /\ held' = [held EXCEPT ![w] = None]
          /\ UNCHANGED <<todo, found, taken>>
      BY <1>1 DEF Goto
    <2>3. Unlocked(j)
      BY <1>3, <2>1, OnlyQueuedAreLocked
    <2> HIDE DEF j
    <2>4. /\ status' \in [Jobs -> Statuses]
          /\ OverdueAreHeld' /\ OneActivePerFile' /\ AttemptsAreTimeouts' /\ ClaimsAreExclusive'
      BY <1>3, <2>1, <2>2, <2>3, RowStops
    <2>5. TypeOK'
      BY <1>1, <1>3, <2>2, <2>4 DEF IInv, TypeOK, Stages, officeVars, staffVars
    <2>6. RowsExist' /\ FiledBelongs'
      BY <1>1, <1>3, <2>1
      DEF IInv, TypeOK, RowsExist, FiledBelongs, DocumentLive, officeVars, Jobs
    <2>7. StagesAgree' /\ GoneStaysGone'
      BY <1>1, <1>3, <2>2
      DEF IInv, TypeOK, StagesAgree, GoneStaysGone, DocumentLive, JobStages, Stages, officeVars
    <2>8. AskingFits' /\ RetryingExists'
      BY <1>1, <1>3 DEF IInv, AskingFits, RetryingExists, staffVars
    <2> QED
      BY <2>4, <2>5, <2>6, <2>7, <2>8 DEF IInv
  <1> QED
    BY <1>2, <1>3 DEF ReportFailed, Reported

LEMMA ReportQueuedPreserves ==
    ASSUME IInv, NEW w \in Workers, ReportQueued(w)
    PROVE  IInv'
  <1> DEFINE j == held[w]
  <1>1. /\ pc[w] = "sayQueued" /\ pc[w] \in JobStages /\ Goto(w, "idle")
        /\ UNCHANGED <<officeVars, staffVars, left>>
    BY DEF ReportQueued, JobStages, Stages
  <1>2. CASE UNCHANGED jobVars
    BY <1>1, <1>2, ReportIgnored
  <1>3. ASSUME status[j] = "translating",
               status' = [status EXCEPT ![j] = "queued"],
               attempts' = [attempts EXCEPT ![j] = AttemptGivenBack(@)],
               overdue' = overdue \ {j},
               UNCHANGED <<made, file, timeouts, filed>>
        PROVE  IInv'
    <2>1. j \in 1..made /\ j \in Jobs /\ \A i \in 1..made : i \in Jobs
      BY <1>1, QueueAssumptions DEF IInv, TypeOK, StagesAgree, Jobs
    <2>2. /\ pc' = [pc EXCEPT ![w] = "idle"] /\ held' = [held EXCEPT ![w] = None]
          /\ UNCHANGED <<todo, found, taken>>
      BY <1>1 DEF Goto
    <2> HIDE DEF j
    <2>3. attempts[j] = timeouts[j] + 1 /\ attempts[j] \in 0..MaxAttempts
          /\ timeouts[j] \in 0..MaxAttempts
      BY <1>3, <2>1 DEF IInv, TypeOK, AttemptsAreTimeouts
    <2>4. AttemptGivenBack(attempts[j]) = timeouts[j]
      BY <2>3, QueueAssumptions DEF AttemptGivenBack
    <2>5. \A i \in Jobs : /\ status'[i] = IF i = j THEN "queued" ELSE status[i]
                          /\ attempts'[i] = IF i = j THEN timeouts[j] ELSE attempts[i]
      BY <1>3, <2>4 DEF IInv, TypeOK
    <2>6. TypeOK'
      <3>1. status' \in [Jobs -> Statuses] /\ attempts' \in [Jobs -> 0..MaxAttempts]
        BY <1>3, <2>3, <2>4 DEF IInv, TypeOK, Statuses
      <3> QED
        BY <1>1, <1>3, <2>2, <3>1 DEF IInv, TypeOK, Stages, officeVars, staffVars
    <2>7. RowsExist' /\ OverdueAreHeld' /\ FiledBelongs'
      BY <1>1, <1>3, <2>1, <2>5
      DEF IInv, TypeOK, RowsExist, OverdueAreHeld, FiledBelongs, DocumentLive, officeVars, Jobs
    <2>8. OneActivePerFile'
      BY <1>3, <2>1, <2>5, NothingBecomesActive DEF IInv, Active
    <2>9. AttemptsAreTimeouts'
      BY <1>3, <2>1, <2>3, <2>5, QueueAssumptions DEF IInv, AttemptsAreTimeouts
    <2>10. ClaimsAreExclusive'
      <3>1. ASSUME NEW v \in Workers, NEW i \in Rows(v) PROVE i \in Jobs /\ i # j
        BY <1>3, <3>1 DEF IInv, TypeOK, ClaimsAreExclusive, Rows
      <3> QED
        BY <2>2, <2>5, <3>1 DEF IInv, ClaimsAreExclusive, Rows
    <2>11. StagesAgree' /\ GoneStaysGone'
      BY <1>1, <1>3, <2>2
      DEF IInv, TypeOK, StagesAgree, GoneStaysGone, DocumentLive, JobStages, Stages, officeVars
    <2>12. AskingFits' /\ RetryingExists'
      BY <1>1, <1>3 DEF IInv, AskingFits, RetryingExists, staffVars
    <2> QED
      BY <2>6, <2>7, <2>8, <2>9, <2>10, <2>11, <2>12 DEF IInv
  <1> QED
    BY <1>2, <1>3 DEF ReportQueued, Reported

-----------------------------------------------------------------------------
(* The invariant is inductive. *)

LEMMA StutterPreserves == ASSUME IInv, UNCHANGED vars PROVE IInv'
  <1>1. TypeOK'
    BY DEF IInv, TypeOK, vars, jobVars, officeVars, staffVars, workerVars
  <1>2. RowFacts'
    BY RowFactsKept DEF IInv, RowFacts, vars, officeVars, workerVars
  <1>3. StagesAgree' /\ GoneStaysGone' /\ AskingFits' /\ RetryingExists'
    BY DEF IInv, StagesAgree, GoneStaysGone, AskingFits, RetryingExists, DocumentLive,
           vars, jobVars, officeVars, staffVars, workerVars
  <1> QED
    BY <1>1, <1>2, <1>3 DEF IInv, RowFacts

LEMMA NextPreserves == IInv /\ [Next]_vars => IInv'
  <1> SUFFICES ASSUME IInv, [Next]_vars PROVE IInv'
    OBVIOUS
  <1>1. CASE Staff
    <2>1. ASSUME NEW files \in SUBSET Files, NEW confirmed \in BOOLEAN,
                 CreateCheck(files, confirmed)
          PROVE  IInv'
      BY <2>1, CreateCheckPreserves
    <2>2. CASE CreateInsert
      BY <2>2, CreateInsertPreserves
    <2>3. ASSUME NEW j \in Jobs, RetryCheck(j) \/ Cancel(j) PROVE IInv'
      BY <2>3, RetryCheckPreserves, CancelPreserves
    <2>4. CASE RetryUpdate
      BY <2>4, RetryUpdatePreserves
    <2>5. ASSUME NEW t \in Tenants, ListJobs(t) \/ SwitchFeature(t) PROVE IInv'
      BY <2>5, ListJobsPreserves, SwitchFeaturePreserves
    <2>6. ASSUME NEW f \in Files, RemoveFile(f) PROVE IInv'
      BY <2>6, RemoveFilePreserves
    <2>7. ASSUME NEW d \in Documents, RemoveDocument(d) PROVE IInv'
      BY <2>7, RemoveDocumentPreserves
    <2> QED
      BY <1>1, <2>1, <2>2, <2>3, <2>4, <2>5, <2>6, <2>7 DEF Staff
  <1>2. ASSUME NEW w \in Workers, Claim(w) \/ ClaimAbort(w) PROVE IInv'
    BY <1>2, StartClaimPreserves, ScanTenantPreserves, ClaimTakePreserves,
       ClaimCommitPreserves, ClaimAbortPreserves
    DEF Claim
  <1>3. ASSUME NEW w \in Workers, Job(w) \/ Vanish(w) PROVE IInv'
    BY <1>3, DownloadPreserves, TranslatePreserves, CannotTranslatePreserves,
       HitUsageLimitPreserves, ResultReadJobPreserves, ResultReadDocumentPreserves,
       ResultFiledPreserves, ResultRefusedPreserves, ResultDocumentGonePreserves,
       ReportFailedPreserves, ReportQueuedPreserves, VanishPreserves
    DEF Job
  <1>4. ASSUME NEW j \in Jobs, GrowOverdue(j) PROVE IInv'
    BY <1>4, GrowOverduePreserves
  <1>5. CASE UNCHANGED vars
    BY <1>5, StutterPreserves
  <1> QED
    BY <1>1, <1>2, <1>3, <1>4, <1>5 DEF Next

(* Every reachable state satisfies the strengthened invariant: the core of    *)
(* every theorem below.                                                       *)
THEOREM Invariance == Spec => []IInv
  <1>1. Init => IInv
    BY InitEstablishes
  <1>2. IInv /\ [Next]_vars => IInv'
    BY NextPreserves
  <1> QED
    BY <1>1, <1>2, PTL DEF Spec

(* create_jobs, retry_job, requeue_stuck, the claim and the reports keep       *)
(* every row and every worker in its type, attempts within MaxAttempts.        *)
THEOREM TypeCorrect == Spec => []TypeOK
  <1>1. IInv => TypeOK
    BY DEF IInv
  <1> QED
    BY <1>1, Invariance, PTL

(* No sequence of clicks, retries and stuck jobs puts one source file into     *)
(* two active jobs: the partial unique index is enough.                        *)
THEOREM OneActivePerFileHolds == Spec => []OneActivePerFile
  <1>1. IInv => OneActivePerFile
    BY DEF IInv
  <1> QED
    BY <1>1, Invariance, PTL

(* attempts counts exactly the holds that ended in silence plus the current    *)
(* one, so three silent holds fail a job and a usage limit never does.         *)
THEOREM AttemptsAreTimeoutsHolds == Spec => []AttemptsAreTimeouts
  <1>1. IInv => AttemptsAreTimeouts
    BY DEF IInv
  <1> QED
    BY <1>1, Invariance, PTL

(* FOR UPDATE SKIP LOCKED gives a row to one claim only, and nothing moves it  *)
(* until that claim commits.                                                   *)
THEOREM ClaimsAreExclusiveHolds == Spec => []ClaimsAreExclusive
  <1>1. IInv => ClaimsAreExclusive
    BY DEF IInv
  <1> QED
    BY <1>1, Invariance, PTL

(* A job marked translated has exactly one filed result, and no job ever has   *)
(* two, however many workers post a result for it.                             *)
THEOREM ResultFiledOnceHolds == Spec => []ResultFiledOnce
  <1>1. IInv => ResultFiledOnce
    BY DEF IInv, FiledBelongs, ResultFiledOnce
  <1> QED
    BY <1>1, Invariance, PTL

-----------------------------------------------------------------------------
(* The queue implements the life of a job, and the one write that could break *)
(* it: post_result fails a job whose document is gone without looking whether *)
(* it is still being translated.                                              *)

GoneInTime == \A w \in Workers : ResultDocumentGone(w) => status[held[w]] = "translating"

Becomes(j, before, after, n) ==
    status[j] = before /\ status'[j] = after /\ attempts'[j] = n /\ file'[j] = file[j]

(* What a step may do to a row. *)
RowMoves(j) ==
    \/ status'[j] = status[j] /\ attempts'[j] = attempts[j] /\ file'[j] = file[j]
    \/ status[j] = "none" /\ status'[j] = "queued" /\ attempts'[j] = 0
    \/ Becomes(j, "queued", "translating", attempts[j] + 1)
    \/ Becomes(j, "queued", "failed", attempts[j] + 1)
    \/ Becomes(j, "queued", "cancelled", attempts[j])
    \/ Becomes(j, "translating", "translated", attempts[j])
    \/ Becomes(j, "translating", "failed", attempts[j])
    \/ Becomes(j, "translating", "queued", attempts[j])
    \/ Becomes(j, "translating", "queued", attempts[j] - 1)
    \/ Becomes(j, "failed", "queued", 0)

LEMMA StaffMovesRows ==
    ASSUME IInv, Staff, NEW j \in Jobs
    PROVE  RowMoves(j)
  <1>1. CASE UNCHANGED jobVars
    BY <1>1 DEF RowMoves, jobVars
  <1>2. CASE CreateInsert
    <2> DEFINE new == (made + 1)..(made + Cardinality(asking))
    <2>1. CASE UNCHANGED jobVars
      BY <2>1, <1>1
    <2>2. CASE ~UNCHANGED jobVars
      <3>1. /\ status' = [i \in Jobs |-> IF i \in new THEN "queued" ELSE status[i]]
            /\ attempts' = [i \in Jobs |-> IF i \in new THEN 0 ELSE attempts[i]]
            /\ \E picked : file' = [i \in Jobs |-> IF i \in new THEN picked[i] ELSE file[i]]
        BY <1>2, <2>2 DEF CreateInsert
      <3>2. \A i \in new : i > made
        BY DEF IInv, TypeOK
      <3> HIDE DEF new
      <3>3. CASE j \in new
        BY <3>1, <3>2, <3>3 DEF IInv, RowsExist, RowMoves
      <3>4. CASE j \notin new
        BY <3>1, <3>4 DEF RowMoves
      <3> QED
        BY <3>3, <3>4
    <2> QED
      BY <2>1, <2>2
  <1>3. CASE RetryUpdate
    BY <1>1, <1>3 DEF RetryUpdate, RowMoves, Becomes, IInv, TypeOK
  <1>4. ASSUME NEW i \in Jobs, Cancel(i) PROVE RowMoves(j)
    BY <1>4 DEF Cancel, RowMoves, Becomes, IInv, TypeOK
  <1>5. ASSUME NEW t \in Tenants, ListJobs(t) PROVE RowMoves(j)
    BY <1>5 DEF ListJobs, RequeueStuck, Stuck, OverdueAreHeld, RowMoves, Becomes, IInv, TypeOK
  <1>6. ASSUME NEW files \in SUBSET Files, NEW confirmed \in BOOLEAN, CreateCheck(files, confirmed)
        PROVE  RowMoves(j)
    BY <1>1, <1>6 DEF CreateCheck
  <1>7. ASSUME NEW i \in Jobs, RetryCheck(i) PROVE RowMoves(j)
    BY <1>1, <1>7 DEF RetryCheck
  <1>8. ASSUME NEW x, RemoveFile(x) \/ RemoveDocument(x) \/ SwitchFeature(x) PROVE RowMoves(j)
    BY <1>1, <1>8 DEF RemoveFile, RemoveDocument, SwitchFeature
  <1> QED
    BY <1>2, <1>3, <1>4, <1>5, <1>6, <1>7, <1>8 DEF Staff

LEMMA WorkersMoveRows ==
    ASSUME IInv, NEW w \in Workers, Claim(w) \/ ClaimAbort(w) \/ Job(w) \/ Vanish(w),
           [GoneInTime]_vars, NEW j \in Jobs
    PROVE  RowMoves(j)
  <1>1. CASE UNCHANGED jobVars
    BY <1>1 DEF RowMoves, jobVars
  <1>2. CASE ScanTenant(w)
    BY <1>2 DEF ScanTenant, RequeueStuck, Stuck, OverdueAreHeld, RowMoves, Becomes, IInv, TypeOK
  <1>3. ASSUME NEW answered \in BOOLEAN, ClaimCommit(w, answered) PROVE RowMoves(j)
    <2>1. \A i \in Rows(w) : status[i] = "queued"
      BY DEF IInv, ClaimsAreExclusive
    <2>2. j = taken[w].take \/ j \in taken[w].fail <=> j \in Rows(w)
      BY QueueAssumptions DEF Rows, Jobs
    <2>3. /\ status'[j] = IF j = taken[w].take THEN "translating"
                          ELSE IF j \in taken[w].fail THEN "failed" ELSE status[j]
          /\ attempts'[j] = IF j \in Rows(w) THEN attempts[j] + 1 ELSE attempts[j]
          /\ file' = file
      BY <1>3 DEF ClaimCommit
    <2> QED
      BY <2>1, <2>2, <2>3 DEF RowMoves, Becomes
  <1>4. ASSUME NEW answered \in BOOLEAN, ResultFiled(w, answered) PROVE RowMoves(j)
    BY <1>4 DEF ResultFiled, MayFile, RowMoves, Becomes, IInv, TypeOK
  <1>5. CASE ResultDocumentGone(w)
    <2>1. status[held[w]] = "translating"
      <3>1. GoneInTime
        <4>1. pc'[w] # pc[w]
          BY <1>5 DEF ResultDocumentGone, Goto, IInv, TypeOK
        <4> QED
          BY <4>1 DEF vars, workerVars
      <3> QED
        BY <1>5, <3>1 DEF GoneInTime
    <2> QED
      BY <1>5, <2>1 DEF ResultDocumentGone, RowMoves, Becomes, IInv, TypeOK
  <1>6. CASE ReportFailed(w)
    BY <1>1, <1>6 DEF ReportFailed, Reported, RowMoves, Becomes, IInv, TypeOK
  <1>7. CASE ReportQueued(w)
    <2>1. CASE ~Reported(w)
      BY <1>1, <1>7, <2>1 DEF ReportQueued
    <2>2. CASE Reported(w)
      <3> DEFINE i == held[w]
      <3>1. i \in 1..made /\ i \in Jobs
        BY <1>7, QueueAssumptions DEF ReportQueued, IInv, TypeOK, StagesAgree, JobStages, Stages, Jobs
      <3>2. attempts[i] \in Nat /\ timeouts[i] \in Nat /\ attempts[i] = timeouts[i] + 1
        BY <2>2, <3>1, QueueAssumptions DEF Reported, IInv, TypeOK, AttemptsAreTimeouts
      <3>3. AttemptGivenBack(attempts[i]) = attempts[i] - 1
        BY <3>2 DEF AttemptGivenBack
      <3> QED
        BY <1>7, <2>2, <3>3 DEF ReportQueued, Reported, RowMoves, Becomes, IInv, TypeOK
    <2> QED
      BY <2>1, <2>2
  <1>8. CASE \/ StartClaim(w) \/ ClaimTake(w) \/ ClaimAbort(w) \/ Download(w) \/ Translate(w)
             \/ CannotTranslate(w) \/ HitUsageLimit(w) \/ ResultReadJob(w) \/ ResultReadDocument(w)
             \/ ResultRefused(w) \/ Vanish(w)
    BY <1>1, <1>8 DEF StartClaim, ClaimTake, ClaimAbort, Download, Translate, CannotTranslate,
       HitUsageLimit, ResultReadJob, ResultReadDocument, ResultRefused, Vanish
  <1> QED
    BY <1>2, <1>3, <1>4, <1>5, <1>6, <1>7, <1>8 DEF Claim, Job

LEMMA StepMovesRows ==
    ASSUME IInv, [Next]_vars, [GoneInTime]_vars, NEW j \in Jobs
    PROVE  RowMoves(j)
  <1>1. CASE UNCHANGED jobVars
    BY <1>1 DEF RowMoves, jobVars
  <1>2. ASSUME NEW i \in Jobs, GrowOverdue(i) PROVE RowMoves(j)
    BY <1>2 DEF GrowOverdue, RowMoves
  <1>3. CASE UNCHANGED vars
    BY <1>1, <1>3 DEF vars
  <1> QED
    BY <1>2, <1>3, StaffMovesRows, WorkersMoveRows DEF Next

(* A move of a row is a move of its job. *)
LEMMA RowMoveIsMove ==
    ASSUME IInv, IInv', NEW j \in Jobs, RowMoves(j)
    PROVE  Lifecycle!Move(j)
  <1>1. /\ attempts[j] \in 0..MaxAttempts /\ attempts'[j] \in 0..MaxAttempts
        /\ status[j] \in Statuses /\ status'[j] \in Statuses /\ MaxAttempts \in Nat
    BY QueueAssumptions DEF IInv, TypeOK
  <1>2. status[j] = "queued" => attempts[j] < MaxAttempts
    BY QueueAssumptions DEF IInv, TypeOK, RowsExist, AttemptsAreTimeouts, Jobs
  <1>3. status'[j] = "queued" => attempts'[j] < MaxAttempts
    BY QueueAssumptions DEF IInv, TypeOK, RowsExist, AttemptsAreTimeouts, Jobs
  <1> QED
    BY <1>1, <1>2, <1>3
    DEF RowMoves, Becomes, LifecycleState, Statuses, Lifecycle!Move, Lifecycle!Stay, Lifecycle!Keep,
        Lifecycle!From, Lifecycle!Ask, Lifecycle!Hold, Lifecycle!Deliver, Lifecycle!Fail, Lifecycle!Spoil,
        Lifecycle!GiveBack, Lifecycle!PutBack, Lifecycle!Withdraw, Lifecycle!AskAgain

LEMMA InitLifecycle == ASSUME Init PROVE Lifecycle!Init
  <1>1. \A j \in Jobs : LifecycleState(j) = "absent"
    BY DEF Init, LifecycleState
  <1>2. [j \in Jobs |-> MaxAttempts - attempts[j]] = [j \in Jobs |-> MaxAttempts]
    BY QueueAssumptions DEF Init
  <1>3. file \in [Jobs -> Files]
    BY InitEstablishes DEF IInv, TypeOK
  <1> QED
    BY <1>1, <1>2, <1>3 DEF Lifecycle!Init

(* The partial unique index, read off the life of the jobs. *)
LEMMA OneActiveIsOnePerFile ==
    ASSUME IInv
    PROVE  \A i, j \in Jobs :
              /\ LifecycleState(i) \in {"waiting", "held"}
              /\ LifecycleState(j) \in {"waiting", "held"}
              /\ file[i] = file[j]
              => i = j
  <1>1. ASSUME NEW j \in Jobs, LifecycleState(j) \in {"waiting", "held"}
        PROVE  Active(j) /\ j \in 1..made
    <2>1. status[j] \in Statuses /\ made \in 0..MaxJobs
      BY DEF IInv, TypeOK
    <2>2. Active(j)
      BY <1>1, <2>1 DEF LifecycleState, Statuses, Active
    <2> QED
      BY <2>1, <2>2, QueueAssumptions DEF Active, IInv, RowsExist, Jobs
  <1> QED
    BY <1>1 DEF IInv, OneActivePerFile

LEMMA StepIsLifecycle ==
    ASSUME IInv, IInv', [Next]_vars, [GoneInTime]_vars
    PROVE  Lifecycle!Next
  <1>1. \A j \in Jobs : Lifecycle!Move(j)
    BY StepMovesRows, RowMoveIsMove
  <1>2. (\A i, j \in Jobs :
              /\ LifecycleState(i) \in {"waiting", "held"}
              /\ LifecycleState(j) \in {"waiting", "held"}
              /\ file[i] = file[j]
              => i = j)'
    BY OneActiveIsOnePerFile, PTL
  <1>3. Lifecycle!OnePerFile([j \in Jobs |-> LifecycleState(j)]', file')
    BY <1>2 DEF Lifecycle!OnePerFile, Lifecycle!IsActive
  <1> QED
    BY <1>1, <1>3 DEF Lifecycle!Next

(* Clicks, claims, lost answers, stuck jobs and retries, of any number of      *)
(* workers, look to the person who asked like the life of a job: every step    *)
(* moves each job as JobLifecycle allows, as long as post_result's unguarded   *)
(* write finds the job still being translated.                                 *)
THEOREM ImplementsLifecycleHolds == Spec /\ [][GoneInTime]_vars => ImplementsLifecycle
  <1>1. Init => Lifecycle!Init
    BY InitLifecycle
  <1>2. IInv /\ IInv' /\ [Next]_vars /\ [GoneInTime]_vars => [Lifecycle!Next]_(Lifecycle!lifecycleVars)
    BY StepIsLifecycle
  <1> QED
    BY <1>1, <1>2, Invariance, PTL DEF Spec, ImplementsLifecycle, Lifecycle!Spec

(* Under the same condition a translated or a cancelled job never moves again: *)
(* the only way out of either is post_result's unguarded write.                *)
THEOREM FinishedStaysFinishedHolds == Spec /\ [][GoneInTime]_vars => FinishedStaysFinished
  <1>1. ASSUME IInv, [Next]_vars, [GoneInTime]_vars, NEW j \in Jobs,
               status[j] \in {"translated", "cancelled"}
        PROVE  status'[j] = status[j]
    BY <1>1, StepMovesRows DEF RowMoves, Becomes
  <1>2. IInv /\ [Next]_vars /\ [GoneInTime]_vars
        => [\A j \in Jobs : status[j] \in {"translated", "cancelled"} => status'[j] = status[j]]_vars
    BY <1>1
  <1> QED
    BY <1>2, Invariance, PTL DEF Spec, FinishedStaysFinished

NoneDeleted == documents = Documents /\ left["removeDocument"] = 0

LEMMA NoneDeletedKept == ASSUME IInv, NoneDeleted, [Next]_vars PROVE NoneDeleted'
  <1> DEFINE Spent == \E k \in Rare \ {"removeDocument"} : Spend(k)
  <1>1. ASSUME UNCHANGED documents, UNCHANGED left \/ Spent PROVE NoneDeleted'
    BY <1>1 DEF NoneDeleted, IInv, TypeOK, Rare, Spend
  <1> HIDE DEF Spent
  <1>2. ASSUME Staff PROVE NoneDeleted'
    <2>1. CASE \E d \in Documents : RemoveDocument(d)
      BY <2>1 DEF NoneDeleted, RemoveDocument, Spend
    <2>2. CASE CreateInsert \/ RetryUpdate
      BY <1>1, <2>2 DEF CreateInsert, RetryUpdate, officeVars
    <2>3. CASE \E files \in SUBSET Files, confirmed \in BOOLEAN : CreateCheck(files, confirmed)
      BY <1>1, <2>3 DEF CreateCheck, officeVars
    <2>4. CASE \E j \in Jobs : RetryCheck(j) \/ Cancel(j)
      BY <1>1, <2>4 DEF RetryCheck, Cancel, officeVars, Spent, Rare
    <2>5. CASE \E t \in Tenants : ListJobs(t) \/ SwitchFeature(t)
      BY <1>1, <2>5 DEF ListJobs, SwitchFeature, officeVars, Spent, Rare
    <2>6. CASE \E f \in Files : RemoveFile(f)
      BY <1>1, <2>6 DEF RemoveFile, Spent, Rare
    <2> QED
      BY <1>2, <2>1, <2>2, <2>3, <2>4, <2>5, <2>6 DEF Staff
  <1>3. ASSUME NEW w \in Workers, Claim(w) \/ ClaimAbort(w) \/ Job(w) \/ Vanish(w)
        PROVE  NoneDeleted'
    <2>1. CASE Claim(w)
      BY <1>1, <2>1 DEF Claim, StartClaim, ScanTenant, ClaimTake, ClaimCommit, officeVars
    <2>2. CASE ClaimAbort(w) \/ Vanish(w)
      BY <1>1, <2>2 DEF ClaimAbort, Vanish, officeVars, Spent, Rare
    <2>3. CASE HitUsageLimit(w)
      BY <1>1, <2>3 DEF HitUsageLimit, officeVars, Spent, Rare
    <2>4. CASE \/ Download(w) \/ Translate(w) \/ CannotTranslate(w) \/ ResultReadJob(w)
               \/ ResultReadDocument(w) \/ ResultRefused(w) \/ ResultDocumentGone(w)
      BY <1>1, <2>4
      DEF Download, Translate, CannotTranslate, ResultReadJob, ResultReadDocument, ResultRefused,
          ResultDocumentGone, officeVars
    <2>5. CASE (\E answered \in BOOLEAN : ResultFiled(w, answered)) \/ ReportFailed(w) \/ ReportQueued(w)
      BY <1>1, <2>5 DEF ResultFiled, ReportFailed, ReportQueued, officeVars
    <2> QED
      BY <1>3, <2>1, <2>2, <2>3, <2>4, <2>5 DEF Job
  <1>4. ASSUME NEW j \in Jobs, GrowOverdue(j) PROVE NoneDeleted'
    BY <1>1, <1>4 DEF GrowOverdue, officeVars
  <1>5. ASSUME UNCHANGED vars PROVE NoneDeleted'
    BY <1>1, <1>5 DEF vars, officeVars
  <1> QED
    BY <1>2, <1>3, <1>4, <1>5 DEF Next

(* While nobody deletes an order's document the write is never reached, and    *)
(* the queue implements the life of a job with no further condition.           *)
THEOREM ImplementsLifecycleWhileDocumentsStay ==
    ASSUME Budget["removeDocument"] = 0
    PROVE  Spec => ImplementsLifecycle
  <1>1. Init => NoneDeleted
    BY DEF Init, NoneDeleted
  <1>2. IInv /\ NoneDeleted /\ [Next]_vars => NoneDeleted'
    BY NoneDeletedKept
  <1>3. ASSUME IInv, NoneDeleted PROVE GoneInTime
    <2>1. ASSUME NEW w \in Workers PROVE pc[w] # "documentGone"
      <3>1. SUFFICES ASSUME pc[w] = "documentGone" PROVE FALSE
        OBVIOUS
      <3>2. held[w] \in 1..made
        BY <1>3, <3>1 DEF IInv, StagesAgree, JobStages, Stages
      <3>3. file[held[w]] \in Files
        BY <1>3, <3>2, QueueAssumptions DEF IInv, TypeOK, Jobs
      <3>4. DocumentLive(held[w])
        BY <1>3, <3>3, QueueAssumptions DEF NoneDeleted, DocumentLive
      <3> QED
        BY <1>3, <3>1, <3>4 DEF IInv, GoneStaysGone
    <2> QED
      BY <2>1 DEF GoneInTime, ResultDocumentGone
  <1>4. Spec => [][GoneInTime]_vars
    BY <1>1, <1>2, <1>3, Invariance, PTL DEF Spec
  <1> QED
    BY <1>4, ImplementsLifecycleHolds, PTL
=============================================================================
