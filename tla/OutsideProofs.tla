---------------------------- MODULE OutsideProofs ----------------------------
(***************************************************************************)
(* The two parts that keep step with another system, for every instance:   *)
(*                                                                         *)
(* - Translate: filing a result once, and charging once for a file, for    *)
(*   every set of people and source files and every number of jobs, files  *)
(*   and saves;                                                            *)
(* - LegacySync: what came over from the old system, for every set of its  *)
(*   orders, clients, translators and statuses, and every number of dumps, *)
(*   payments and runs of the command.                                     *)
(***************************************************************************)
EXTENDS Translate, LegacySync, FiniteSetTheorems, WellFoundedInduction, TLAPS

-----------------------------------------------------------------------------
(* Suliko Translate. *)

Steps == {"idle", "send", "record", "ask", "fetch", "store", "html", "word"}

TypeOK ==
    /\ remote \in [Jobs -> RemoteStates \cup {None}]
    /\ balance \in [People -> Int]
    /\ job \in [Jobs -> JobRows \cup {None}]
    /\ file \in [Files -> FileRows \cup {None}]
    /\ lock \in [Jobs -> People \cup {None}]
    /\ overlapped \in BOOLEAN /\ saves \in Nat
    /\ DOMAIN desk = People
    /\ \A p \in People :
          /\ desk[p].step \in Steps
          /\ desk[p].step \in {"send", "record"} => desk[p].source \in Sources
          /\ desk[p].step \in {"record", "ask", "fetch", "store"} => desk[p].job \in Jobs
          /\ desk[p].step \in {"html", "word"} => desk[p].file \in Files /\ desk[p].records \subseteq Jobs

(* A job that is recorded, or about to be, is one suliko.ge has started; it  *)
(* is about to be recorded by one request, which finds no row.               *)
RemoteKnown ==
    /\ \A j \in Jobs : job[j] # None => remote[j] # None
    /\ \A p \in People : desk[p].step = "record" =>
          remote[desk[p].job] # None /\ job[desk[p].job] = None
    /\ \A p, q \in People : desk[p].step = "record" /\ desk[q].step = "record"
                            /\ desk[p].job = desk[q].job => p = q

(* A row that is no longer processing, or is being filed, is of a job that   *)
(* suliko.ge has ended.                                                      *)
EndedThere ==
    /\ \A j \in Jobs : job[j] # None /\ job[j].status # "processing" => remote[j] # "processing"
    /\ \A p \in People : desk[p].step \in {"fetch", "store"} => remote[desk[p].job] # "processing"

(* Whoever files a result has the row claimed and still processing; whoever  *)
(* asks about a job asks about a row.                                        *)
ClaimsAgree ==
    /\ \A p \in People : desk[p].step \in {"fetch", "store"} =>
          lock[desk[p].job] = p /\ job[desk[p].job].status = "processing"
    /\ \A p \in People : desk[p].step \in {"ask", "fetch", "store"} => job[desk[p].job] # None

(* A file filed for a job is the only one, and the job's row is finished.    *)
FilesAgree ==
    /\ \A f \in Files : file[f] # None /\ file[f].made =>
          job[file[f].of] # None /\ job[file[f].of].status # "processing"
    /\ \A f, g \in Files : file[f] # None /\ file[f].made /\ file[g] # None /\ file[g].made
                           /\ file[f].of = file[g].of => f = g
    /\ \A j \in Jobs : job[j] # None /\ job[j].result # 0 =>
          file[job[j].result] # None /\ file[job[j].result].of = j

(* What an editor opened is a file, and the records it read are of its job.  *)
EditorsAgree ==
    \A p \in People : desk[p].step \in {"html", "word"} =>
        /\ file[desk[p].file] # None
        /\ \A j \in desk[p].records : job[j] # None /\ file[desk[p].file].of = j

(* suliko.ge is at work on s for job j, which is recorded or about to be.    *)
AtWork(j, s) ==
    /\ remote[j] = "processing"
    /\ \/ job[j] # None /\ job[j].source = s
       \/ \E p \in People : desk[p].step = "record" /\ desk[p].source = s /\ desk[p].job = j

Starting(p) == desk[p].step \in {"send", "record"}

(* OneCharge with what the requests in flight know of it.                    *)
ChargedOnce ==
    ~overlapped =>
        /\ \A s \in Sources, i, j \in Jobs : AtWork(i, s) /\ AtWork(j, s) => i = j
        /\ \A p, q \in People :
              Starting(p) /\ Starting(q) /\ desk[p].source = desk[q].source => p = q
        /\ \A p \in People, j \in Jobs : desk[p].step = "send" => ~AtWork(j, desk[p].source)

IInv ==
    TypeOK /\ RemoteKnown /\ EndedThere /\ ClaimsAgree /\ FilesAgree /\ EditorsAgree /\ ChargedOnce
-----------------------------------------------------------------------------

(* The lowest free id is a free id. *)
LEMMA FreeFileIsFree == HasRoom => FreeFile \in Files /\ file[FreeFile] = None
  <1> SUFFICES ASSUME HasRoom PROVE FreeFile \in Files /\ file[FreeFile] = None
    OBVIOUS
  <1> DEFINE Free == {f \in Files : file[f] = None}
             Less == {d \in Nat \X Nat : d[1] < d[2]}
  <1>1. Free \subseteq Nat /\ Free # {}
    BY DEF HasRoom, Files
  <1>2. IsWellFoundedOn(Less, Nat)
    BY NatLessThanWellFounded DEF OpToRel
  <1>3. PICK x \in Free : \A y \in Free : <<y, x>> \notin Less
    <2> HIDE DEF Less, Free
    <2> QED BY <1>1, <1>2, WFMin
  <1>4. \A y \in Free : x <= y
    <2> SUFFICES ASSUME NEW y \in Free, y < x PROVE FALSE
      BY <1>1
    <2> DEFINE d == <<y, x>>
    <2>1. d \in Nat \X Nat /\ d[1] < d[2]
      BY <1>1
    <2> QED
      BY <2>1, <1>3
  <1>5. Min(Free) \in Free
    BY <1>4 DEF Min
  <1> QED
    BY <1>5 DEF FreeFile

LEMMA NoneIsNoRow ==
    /\ None \notin People /\ None # "processing" /\ None # "completed"
    /\ None # "failed" /\ None # "forgotten"
    /\ \A r \in JobRows : r # None
    /\ \A r \in FileRows : r # None
  BY NoneAssumption DEF RemoteStates

(* What the updates of a row write. *)
LEMMA JobRowStatus ==
    ASSUME NEW r \in JobRows, NEW st \in {"processing", "completed", "failed"}
    PROVE  LET new == [r EXCEPT !.status = st]
           IN  /\ new \in JobRows /\ new.status = st
               /\ new.source = r.source /\ new.result = r.result
  BY DEF JobRows

LEMMA FileRowRemoved ==
    ASSUME NEW r \in FileRows
    PROVE  LET new == [r EXCEPT !.removed = TRUE]
           IN  new \in FileRows /\ new.of = r.of /\ new.made = r.made
  BY DEF FileRows

LEMMA InitEstablishes == Init => IInv
  <1> SUFFICES ASSUME Init PROVE IInv
    OBVIOUS
  <1>1. TypeOK
    <2>1. MaxPages \in Nat /\ MaxSaves \in Nat
      BY TranslateAssumptions
    <2>2. /\ remote \in [Jobs -> RemoteStates \cup {None}] /\ balance \in [People -> Int]
          /\ job \in [Jobs -> JobRows \cup {None}] /\ file \in [Files -> FileRows \cup {None}]
          /\ lock \in [Jobs -> People \cup {None}]
          BY <2>1 DEF Init
    <2>3. DOMAIN desk = People /\ \A p \in People : desk[p].step = "idle"
      BY DEF Init, Idle
    <2> QED
      BY <2>1, <2>2, <2>3 DEF Init, TypeOK, Steps
  <1>2. RemoteKnown /\ EndedThere /\ ClaimsAgree /\ FilesAgree /\ EditorsAgree
    BY DEF Init, Idle, RemoteKnown, EndedThere, ClaimsAgree, FilesAgree, EditorsAgree
  <1>3. ChargedOnce
    BY DEF Init, Idle, ChargedOnce, AtWork, Starting
  <1> QED
    BY <1>1, <1>2, <1>3 DEF IInv

-----------------------------------------------------------------------------
(* Starting one. *)

LEMMA StartTranslationPreserves ==
    ASSUME IInv, NEW p \in People, NEW s \in Sources, StartTranslation(p, s)
    PROVE  IInv'
  <1>1. \A q \in People : desk'[q] = IF q = p THEN [step |-> "send", source |-> s] ELSE desk[q]
    BY DEF IInv, TypeOK, Goto, StartTranslation, RunningOn
  <1>2. TypeOK'
    BY <1>1 DEF IInv, TypeOK, Steps, Goto, StartTranslation, RunningOn
  <1>3. RemoteKnown'
    BY <1>1 DEF IInv, RemoteKnown, StartTranslation, RunningOn
  <1>4. EndedThere'
    BY <1>1 DEF IInv, EndedThere, StartTranslation, RunningOn
  <1>5. ClaimsAgree'
    BY <1>1 DEF IInv, ClaimsAgree, StartTranslation, RunningOn
  <1>6. FilesAgree'
    BY <1>1 DEF IInv, FilesAgree, StartTranslation, RunningOn
  <1>7. EditorsAgree'
    BY <1>1 DEF IInv, EditorsAgree, StartTranslation, RunningOn
  <1>8. ChargedOnce'
    <2> SUFFICES ASSUME ~overlapped' PROVE ChargedOnce'
      BY DEF ChargedOnce
    <2>1. ~overlapped /\ \A q \in People : ~(Starting(q) /\ desk[q].source = s)
      BY DEF StartTranslation, Starting
    <2>2. \A j \in Jobs : ~AtWork(j, s)
      BY <2>1 DEF IInv, AtWork, Starting, EndedThere, StartTranslation, RunningOn
    <2>3. \A j \in Jobs, r \in Sources : AtWork(j, r)' <=> AtWork(j, r)
      BY <1>1 DEF AtWork, StartTranslation, Idle
    <2>4. \A q \in People : Starting(q)' <=> Starting(q) \/ q = p
      BY <1>1 DEF Starting
    <2> QED
      BY <1>1, <2>1, <2>2, <2>3, <2>4 DEF IInv, TypeOK, ChargedOnce, Starting
  <1> QED
    BY <1>2, <1>3, <1>4, <1>5, <1>6, <1>7, <1>8 DEF IInv

LEMMA SendPreserves ==
    ASSUME IInv, NEW p \in People, Send(p)
    PROVE  IInv'
  <1>2. TypeOK'
    <2>1. PICK j \in Jobs : /\ remote' = [remote EXCEPT ![j] = "processing"]
                            /\ desk' = [desk EXCEPT ![p] =
                                           [step |-> "record", source |-> desk[p].source, job |-> j]]
                            /\ balance' = [balance EXCEPT ![p] = @ - 1]
      BY DEF Send, Goto
    <2>2. desk[p].source \in Sources /\ UNCHANGED <<job, file, lock, overlapped, saves>>
      BY DEF IInv, TypeOK, Send
    <2>3. remote' \in [Jobs -> RemoteStates \cup {None}] /\ balance' \in [People -> Int]
      BY <2>1 DEF IInv, TypeOK, RemoteStates
    <2>4. \A q \in People : desk'[q] =
             IF q = p THEN [step |-> "record", source |-> desk[p].source, job |-> j] ELSE desk[q]
      BY <2>1 DEF IInv, TypeOK
    <2> QED
      BY <2>1, <2>2, <2>3, <2>4 DEF IInv, TypeOK, Steps
  <1>3. RemoteKnown'
    BY NoneIsNoRow DEF IInv, TypeOK, RemoteKnown, Goto, Send
  <1>4. EndedThere'
    BY DEF IInv, EndedThere, ClaimsAgree, RemoteKnown, Goto, Send
  <1>5. ClaimsAgree'
    BY DEF IInv, ClaimsAgree, Goto, Send
  <1>6. FilesAgree'
    BY DEF IInv, FilesAgree, Send
  <1>7. EditorsAgree'
    BY DEF IInv, EditorsAgree, Goto, Send
  <1>8. ChargedOnce'
    BY DEF IInv, ChargedOnce, AtWork, Starting, RemoteKnown, Goto, Send
  <1> QED
    BY <1>2, <1>3, <1>4, <1>5, <1>6, <1>7, <1>8 DEF IInv

LEMMA RecordPreserves ==
    ASSUME IInv, NEW p \in People, Record(p)
    PROVE  IInv'
  <1>1. \A q \in People : desk'[q] = IF q = p THEN Idle ELSE desk[q]
    BY DEF IInv, TypeOK, Goto, Record, NewJob
  <1>2. TypeOK'
    BY <1>1 DEF IInv, TypeOK, Steps, Idle, Goto, Record, NewJob, JobRows
  <1>3. RemoteKnown'
    BY <1>1 DEF IInv, RemoteKnown, Idle, Record, NewJob
  <1>4. EndedThere'
    BY <1>1 DEF IInv, EndedThere, Idle, Record, NewJob
  <1>5. ClaimsAgree'
    BY <1>1 DEF IInv, ClaimsAgree, RemoteKnown, Idle, Record, NewJob
  <1>6. FilesAgree'
    BY <1>1 DEF IInv, FilesAgree, RemoteKnown, Record, NewJob
  <1>7. EditorsAgree'
    BY <1>1 DEF IInv, EditorsAgree, RemoteKnown, Idle, Record, NewJob
  <1>8. ChargedOnce'
    BY <1>1 DEF IInv, ChargedOnce, AtWork, Starting, Idle, Goto, Record, NewJob
  <1> QED
    BY <1>2, <1>3, <1>4, <1>5, <1>6, <1>7, <1>8 DEF IInv

(* A request that ends and has changed nothing. *)
GivesUp(p) == Goto(p, Idle) /\ UNCHANGED <<remote, balance, job, file, lock, overlapped, saves>>

LEMMA GivesUpPreserves ==
    ASSUME IInv, NEW p \in People, desk[p].step \notin {"fetch", "store"}, GivesUp(p)
    PROVE  IInv'
  <1>1. \A q \in People : desk'[q] = IF q = p THEN Idle ELSE desk[q]
    BY DEF IInv, TypeOK, Goto, GivesUp
  <1>2. TypeOK'
    BY <1>1 DEF IInv, TypeOK, Steps, Idle, Goto, GivesUp
  <1>3. RemoteKnown'
    BY <1>1 DEF IInv, RemoteKnown, Idle, GivesUp
  <1>4. EndedThere'
    BY <1>1 DEF IInv, EndedThere, Idle, GivesUp
  <1>5. ClaimsAgree'
    BY <1>1 DEF IInv, ClaimsAgree, Idle, GivesUp
  <1>6. FilesAgree'
    BY <1>1 DEF IInv, FilesAgree, GivesUp
  <1>7. EditorsAgree'
    BY <1>1 DEF IInv, EditorsAgree, Idle, GivesUp
  <1>8. ChargedOnce'
    BY <1>1 DEF IInv, ChargedOnce, AtWork, Starting, Idle, GivesUp
  <1> QED
    BY <1>2, <1>3, <1>4, <1>5, <1>6, <1>7, <1>8 DEF IInv

-----------------------------------------------------------------------------
(* suliko.ge. *)

LEMMA RemoteEndsPreserves ==
    ASSUME IInv, NEW j \in Jobs, NEW how \in {"completed", "failed"}, RemoteEnds(j, how)
    PROVE  IInv'
  <1>2. TypeOK'
    BY DEF IInv, TypeOK, RemoteEnds, RemoteStates
  <1>3. RemoteKnown'
    <2>1. \A i \in Jobs : remote'[i] = IF i = j THEN how ELSE remote[i]
      BY DEF IInv, TypeOK, RemoteEnds
    <2> QED
      BY <2>1, NoneIsNoRow DEF IInv, RemoteKnown, RemoteEnds
  <1>4. EndedThere'
    BY DEF IInv, EndedThere, RemoteEnds
  <1>5. ClaimsAgree'
    BY DEF IInv, ClaimsAgree, RemoteEnds
  <1>6. FilesAgree'
    BY DEF IInv, FilesAgree, RemoteEnds
  <1>7. EditorsAgree'
    BY DEF IInv, EditorsAgree, RemoteEnds
  <1>8. ChargedOnce'
    BY DEF IInv, ChargedOnce, AtWork, Starting, RemoteEnds
  <1> QED
    BY <1>2, <1>3, <1>4, <1>5, <1>6, <1>7, <1>8 DEF IInv

LEMMA RemoteForgetsPreserves ==
    ASSUME IInv, NEW j \in Jobs, RemoteForgets(j)
    PROVE  IInv'
  <1>2. TypeOK'
    BY DEF IInv, TypeOK, RemoteForgets, RemoteStates
  <1>3. RemoteKnown'
    <2>1. \A i \in Jobs : remote'[i] = IF i = j THEN "forgotten" ELSE remote[i]
      BY DEF IInv, TypeOK, RemoteForgets
    <2> QED
      BY <2>1, NoneIsNoRow DEF IInv, RemoteKnown, RemoteForgets
  <1>4. EndedThere'
    BY DEF IInv, EndedThere, RemoteForgets
  <1>5. ClaimsAgree'
    BY DEF IInv, ClaimsAgree, RemoteForgets
  <1>6. FilesAgree'
    BY DEF IInv, FilesAgree, RemoteForgets
  <1>7. EditorsAgree'
    BY DEF IInv, EditorsAgree, RemoteForgets
  <1>8. ChargedOnce'
    BY DEF IInv, ChargedOnce, AtWork, Starting, RemoteForgets
  <1> QED
    BY <1>2, <1>3, <1>4, <1>5, <1>6, <1>7, <1>8 DEF IInv

-----------------------------------------------------------------------------
(* Following them. *)

LEMMA RefreshPreserves ==
    ASSUME IInv, NEW p \in People, NEW j \in Jobs, Refresh(p, j)
    PROVE  IInv'
  <1>1. \A q \in People : desk'[q] = IF q = p THEN [step |-> "ask", job |-> j] ELSE desk[q]
    BY DEF IInv, TypeOK, Goto, Refresh
  <1>2. TypeOK'
    BY <1>1 DEF IInv, TypeOK, Steps, Goto, Refresh
  <1>3. RemoteKnown'
    BY <1>1 DEF IInv, RemoteKnown, Refresh
  <1>4. EndedThere'
    BY <1>1 DEF IInv, EndedThere, Refresh
  <1>5. ClaimsAgree'
    BY <1>1 DEF IInv, ClaimsAgree, Refresh
  <1>6. FilesAgree'
    BY <1>1 DEF IInv, FilesAgree, Refresh
  <1>7. EditorsAgree'
    BY <1>1 DEF IInv, EditorsAgree, Refresh
  <1>8. ChargedOnce'
    BY <1>1 DEF IInv, ChargedOnce, AtWork, Starting, Refresh
  <1> QED
    BY <1>2, <1>3, <1>4, <1>5, <1>6, <1>7, <1>8 DEF IInv

LEMMA AskFailedPreserves ==
    ASSUME IInv, NEW p \in People, AskFailed(p)
    PROVE  IInv'
  <1>1. \A q \in People : desk'[q] = IF q = p THEN Idle ELSE desk[q]
    BY DEF IInv, TypeOK, Goto, AskFailed
  <1>2. TypeOK'
    <2>1. desk[p].job \in Jobs /\ job[desk[p].job] \in JobRows
      BY DEF IInv, TypeOK, ClaimsAgree, AskFailed
    <2>2. job' \in [Jobs -> JobRows \cup {None}]
      BY <2>1, JobRowStatus DEF IInv, TypeOK, AskFailed
    <2> QED
      BY <1>1, <2>2 DEF IInv, TypeOK, Steps, Idle, Goto, AskFailed
  <1>3. RemoteKnown'
    BY <1>1 DEF IInv, RemoteKnown, ClaimsAgree, Idle, AskFailed
  <1>4. EndedThere'
    BY <1>1 DEF IInv, EndedThere, Idle, AskFailed
  <1>5. ClaimsAgree'
    BY <1>1, NoneIsNoRow DEF IInv, TypeOK, ClaimsAgree, Idle, AskFailed, JobRows
  <1>6. FilesAgree'
    BY <1>1, NoneIsNoRow DEF IInv, TypeOK, FilesAgree, ClaimsAgree, AskFailed, JobRows
  <1>7. EditorsAgree'
    BY <1>1, NoneIsNoRow DEF IInv, TypeOK, EditorsAgree, Idle, AskFailed, JobRows
  <1>8. ChargedOnce'
    BY <1>1 DEF IInv, ChargedOnce, AtWork, Starting, Idle, Goto, AskFailed
  <1> QED
    BY <1>2, <1>3, <1>4, <1>5, <1>6, <1>7, <1>8 DEF IInv

LEMMA ClaimPreserves ==
    ASSUME IInv, NEW p \in People, Claim(p)
    PROVE  IInv'
  <1>2. TypeOK'
    BY DEF IInv, TypeOK, Steps, Idle, Goto, Claim, Claimable
  <1>3. RemoteKnown'
    BY DEF IInv, TypeOK, RemoteKnown, Idle, Goto, Claim, Claimable
  <1>4. EndedThere'
    BY DEF IInv, TypeOK, EndedThere, Idle, Goto, Claim, Claimable
  <1>5. ClaimsAgree'
    BY NoneIsNoRow DEF IInv, TypeOK, ClaimsAgree, Idle, Goto, Claim, Claimable
  <1>6. FilesAgree'
    BY DEF IInv, FilesAgree, Claim, Claimable
  <1>7. EditorsAgree'
    BY DEF IInv, TypeOK, EditorsAgree, Idle, Goto, Claim, Claimable
  <1>8. ChargedOnce'
    <2>1. \A q \in People : q # p => desk'[q] = desk[q]
      BY DEF IInv, TypeOK, Claim, Goto
    <2>2. desk[p].step = "ask" /\ desk'[p].step \in {"fetch", "idle"}
      BY DEF IInv, TypeOK, Claim, Goto, Idle
    <2>3. \A j \in Jobs, s \in Sources : AtWork(j, s)' <=> AtWork(j, s)
      BY <2>1, <2>2 DEF AtWork, Claim
    <2>4. \A q \in People : Starting(q)' <=> Starting(q)
      BY <2>1, <2>2 DEF Starting
    <2>5. \A q \in People : Starting(q) => q # p /\ desk'[q] = desk[q]
      BY <2>1, <2>2 DEF Starting
    <2> QED
      BY <2>3, <2>4, <2>5 DEF IInv, TypeOK, ChargedOnce, Starting, Claim
  <1> QED
    BY <1>2, <1>3, <1>4, <1>5, <1>6, <1>7, <1>8 DEF IInv

LEMMA FetchResultPreserves ==
    ASSUME IInv, NEW p \in People, FetchResult(p)
    PROVE  IInv'
  <1>1. \A q \in People : desk'[q] = IF q = p THEN [step |-> "store", job |-> desk[p].job] ELSE desk[q]
    BY DEF IInv, TypeOK, Goto, FetchResult
  <1>2. TypeOK'
    BY <1>1 DEF IInv, TypeOK, Steps, Goto, FetchResult
  <1>3. RemoteKnown'
    BY <1>1 DEF IInv, RemoteKnown, FetchResult
  <1>4. EndedThere'
    BY <1>1 DEF IInv, EndedThere, FetchResult
  <1>5. ClaimsAgree'
    BY <1>1 DEF IInv, ClaimsAgree, FetchResult
  <1>6. FilesAgree'
    BY <1>1 DEF IInv, FilesAgree, FetchResult
  <1>7. EditorsAgree'
    BY <1>1 DEF IInv, EditorsAgree, FetchResult
  <1>8. ChargedOnce'
    BY <1>1 DEF IInv, ChargedOnce, AtWork, Starting, FetchResult
  <1> QED
    BY <1>2, <1>3, <1>4, <1>5, <1>6, <1>7, <1>8 DEF IInv

LEMMA FetchFailsPreserves ==
    ASSUME IInv, NEW p \in People, FetchFails(p)
    PROVE  IInv'
  <1>1. \A q \in People : desk'[q] = IF q = p THEN Idle ELSE desk[q]
    BY DEF IInv, TypeOK, Goto, FetchFails
  <1>2. TypeOK'
    <2>1. desk[p].job \in Jobs /\ job[desk[p].job] \in JobRows
      BY DEF IInv, TypeOK, ClaimsAgree, FetchFails
    <2>2. job' \in [Jobs -> JobRows \cup {None}]
      BY <2>1, JobRowStatus DEF IInv, TypeOK, FetchFails
    <2>3. lock' \in [Jobs -> People \cup {None}]
      BY <2>1 DEF IInv, TypeOK, FetchFails
    <2> QED
      BY <1>1, <2>2, <2>3 DEF IInv, TypeOK, Steps, Idle, Goto, FetchFails
  <1>3. RemoteKnown'
    BY <1>1 DEF IInv, RemoteKnown, ClaimsAgree, Idle, FetchFails
  <1>4. EndedThere'
    BY <1>1 DEF IInv, EndedThere, Idle, FetchFails
  <1>5. ClaimsAgree'
    BY <1>1, NoneIsNoRow DEF IInv, TypeOK, ClaimsAgree, Idle, FetchFails, JobRows
  <1>6. FilesAgree'
    BY <1>1 DEF IInv, FilesAgree, ClaimsAgree, FetchFails
  <1>7. EditorsAgree'
    BY <1>1, NoneIsNoRow DEF IInv, TypeOK, EditorsAgree, Idle, FetchFails, JobRows
  <1>8. ChargedOnce'
    BY <1>1 DEF IInv, ChargedOnce, AtWork, Starting, EndedThere, Idle, Goto, FetchFails
  <1> QED
    BY <1>2, <1>3, <1>4, <1>5, <1>6, <1>7, <1>8 DEF IInv

LEMMA CollectPreserves ==
    ASSUME IInv, NEW p \in People, NEW word \in BOOLEAN, Collect(p, word)
    PROVE  IInv'
  <1> DEFINE k == desk[p].job
             g == FreeFile
             new == [by |-> ResultUploader(k), removed |-> FALSE, of |-> k, made |-> TRUE, html |-> ~word]
  <1>1. DOMAIN desk' = People /\ \A q \in People : desk'[q] = IF q = p THEN Idle ELSE desk[q]
    BY DEF IInv, TypeOK, Goto, Collect
  <1>2. k \in Jobs /\ job[k] \in JobRows /\ job[k].status = "processing" /\ lock[k] = p
    BY DEF IInv, TypeOK, ClaimsAgree, Collect
  <1>3. g \in Files /\ file[g] = None /\ g # 0
    BY FreeFileIsFree DEF Collect, Files
  <1>4. new \in FileRows /\ new # None
    BY <1>2, NoneIsNoRow DEF FileRows, JobRows, ResultUploader
  <1>5. file' = [file EXCEPT ![g] = new]
    BY DEF Collect
  <1>6. file' \in [Files -> FileRows \cup {None}]
    BY <1>3, <1>4, <1>5 DEF IInv, TypeOK
  <1>7. \A f \in Files : file'[f] = IF f = g THEN new ELSE file[f]
    BY <1>5 DEF IInv, TypeOK
  <1> DEFINE row == [job[k] EXCEPT !.status = "completed", !.result = g, !.html = word]
  <1>8. row \in JobRows /\ row # None /\ row.status = "completed" /\ row.result = g /\ row.source = job[k].source
    <2> HIDE DEF k, g
    <2> QED
      BY <1>2, <1>3, NoneIsNoRow DEF JobRows
  <1>9. job' = [job EXCEPT ![k] = row]
    BY <1>2 DEF Collect, IInv
  <1>10. \A j \in Jobs : job'[j] = IF j = k THEN row ELSE job[j]
    BY <1>9 DEF IInv, TypeOK
  <1>11. job' \in [Jobs -> JobRows \cup {None}]
    BY <1>8, <1>9 DEF IInv, TypeOK
  <1>12. lock' = [lock EXCEPT ![k] = None] /\ UNCHANGED <<remote, balance, overlapped, saves>>
    BY DEF Collect
  <1>13. \A f \in Files : file[f] # None /\ file[f].made => file[f].of # k
    BY <1>2 DEF IInv, FilesAgree
  <1>14. \A q \in People \ {p} : desk[q].step \in {"fetch", "store"} => desk[q].job # k
    BY <1>2 DEF IInv, ClaimsAgree
  <1>15. new.of = k /\ new.made
    OBVIOUS
  <1>16. desk[p].step = "store" /\ remote[k] # "processing" /\ remote[k] # None
    BY <1>2, NoneIsNoRow DEF Collect, IInv, EndedThere, RemoteKnown
  <1> HIDE DEF new, row, g, k
  <1>17. TypeOK'
    <2>1. lock' \in [Jobs -> People \cup {None}]
      BY <1>12 DEF IInv, TypeOK
    <2> QED
      BY <1>1, <1>6, <1>11, <1>12, <2>1 DEF IInv, TypeOK, Steps, Idle
  <1>18. RemoteKnown'
    <2>1. \A q \in People : desk'[q].step = "record" => desk'[q] = desk[q] /\ desk[q].job \in Jobs
      BY <1>1 DEF IInv, TypeOK, Idle
    <2>2. \A j \in Jobs : job'[j] # None <=> job[j] # None
      BY <1>2, <1>8, <1>10, NoneIsNoRow
    <2> QED
      BY <1>12, <2>1, <2>2 DEF IInv, RemoteKnown
  <1>19. EndedThere'
    BY <1>1, <1>8, <1>10, <1>12, <1>16 DEF IInv, EndedThere, Idle
  <1>20. ClaimsAgree'
    <2>1. \A q \in People : desk'[q].step \in {"ask", "fetch", "store"} => q # p /\ desk'[q] = desk[q]
      BY <1>1 DEF Idle
    <2>2. \A q \in People : desk'[q].step \in {"ask", "fetch", "store"} => desk[q].job \in Jobs
      BY <2>1 DEF IInv, TypeOK
    <2>3. \A j \in Jobs : j # k => lock'[j] = lock[j] /\ job'[j] = job[j]
      BY <1>10, <1>12 DEF IInv
    <2> QED
      BY <1>8, <1>10, <1>14, <2>1, <2>2, <2>3 DEF IInv, ClaimsAgree
  <1>21. FilesAgree'
    <2>1. \A f \in Files : file'[f] # None /\ file'[f].made =>
             job'[file'[f].of] # None /\ job'[file'[f].of].status # "processing"
      <3> SUFFICES ASSUME NEW f \in Files, file'[f] # None, file'[f].made
                   PROVE  job'[file'[f].of] # None /\ job'[file'[f].of].status # "processing"
        OBVIOUS
      <3>1. CASE f = g
        BY <3>1, <1>2, <1>7, <1>8, <1>10, <1>15
      <3>2. CASE f # g
        <4>1. file'[f] = file[f] /\ file[f].of \in Jobs \ {k}
          BY <3>2, <1>7, <1>13 DEF IInv, TypeOK, FileRows
        <4> QED
          BY <4>1, <1>10 DEF IInv, FilesAgree
      <3> QED
        BY <3>1, <3>2
    <2>2. \A f, h \in Files : file'[f] # None /\ file'[f].made /\ file'[h] # None /\ file'[h].made
                              /\ file'[f].of = file'[h].of => f = h
      BY <1>7, <1>13, <1>15 DEF IInv, FilesAgree
    <2>3. \A j \in Jobs : job'[j] # None /\ job'[j].result # 0 =>
             file'[job'[j].result] # None /\ file'[job'[j].result].of = j
      <3> SUFFICES ASSUME NEW j \in Jobs, job'[j] # None, job'[j].result # 0
                   PROVE  file'[job'[j].result] # None /\ file'[job'[j].result].of = j
        OBVIOUS
      <3>1. CASE j = k
        BY <3>1, <1>3, <1>4, <1>7, <1>8, <1>10, <1>15
      <3>2. CASE j # k
        <4>1. job'[j] = job[j] /\ job[j].result \in Files
          BY <3>2, <1>10 DEF IInv, TypeOK, JobRows
        <4> QED
          BY <4>1, <1>3, <1>7 DEF IInv, FilesAgree
      <3> QED
        BY <3>1, <3>2
    <2> QED
      BY <2>1, <2>2, <2>3 DEF FilesAgree
  <1>22. EditorsAgree'
    <2>1. \A q \in People : desk'[q].step \in {"html", "word"} =>
             desk'[q] = desk[q] /\ desk[q].file \in Files /\ desk[q].records \subseteq Jobs
      BY <1>1 DEF IInv, TypeOK, Idle
    <2>2. \A f \in Files : file[f] # None => file'[f] = file[f]
      BY <1>3, <1>7
    <2>3. \A j \in Jobs : job[j] # None => job'[j] # None
      BY <1>8, <1>10
    <2> QED
      BY <2>1, <2>2, <2>3 DEF IInv, EditorsAgree
  <1>23. ChargedOnce'
    <2>1. \A j \in Jobs, s \in Sources : AtWork(j, s)' <=> AtWork(j, s)
      BY <1>1, <1>2, <1>8, <1>10, <1>12, <1>16 DEF AtWork, Idle
    <2>2. \A q \in People : Starting(q)' <=> Starting(q)
      BY <1>1, <1>16 DEF Starting, Idle
    <2>3. \A q \in People : Starting(q) => q # p /\ desk'[q] = desk[q]
      BY <1>1, <1>16 DEF Starting
    <2> QED
      BY <1>12, <2>1, <2>2, <2>3 DEF IInv, TypeOK, ChargedOnce, Starting
  <1> QED
    BY <1>17, <1>18, <1>19, <1>20, <1>21, <1>22, <1>23 DEF IInv

LEMMA StoreFailsPreserves ==
    ASSUME IInv, NEW p \in People, StoreFails(p)
    PROVE  IInv'
  <1>1. \A q \in People : desk'[q] = IF q = p THEN Idle ELSE desk[q]
    BY DEF IInv, TypeOK, Goto, StoreFails
  <1>2. TypeOK'
    BY <1>1 DEF IInv, TypeOK, Steps, Idle, Goto, StoreFails
  <1>3. RemoteKnown'
    BY <1>1 DEF IInv, RemoteKnown, Idle, StoreFails
  <1>4. EndedThere'
    BY <1>1 DEF IInv, EndedThere, Idle, StoreFails
  <1>5. ClaimsAgree'
    BY <1>1 DEF IInv, ClaimsAgree, Idle, StoreFails
  <1>6. FilesAgree'
    BY <1>1 DEF IInv, FilesAgree, StoreFails
  <1>7. EditorsAgree'
    BY <1>1 DEF IInv, EditorsAgree, Idle, StoreFails
  <1>8. ChargedOnce'
    BY <1>1 DEF IInv, ChargedOnce, AtWork, Starting, Idle, StoreFails
  <1> QED
    BY <1>2, <1>3, <1>4, <1>5, <1>6, <1>7, <1>8 DEF IInv

-----------------------------------------------------------------------------
(* Correcting one. *)

LEMMA OpenForEditPreserves ==
    ASSUME IInv, NEW p \in People, NEW f \in Files, NEW editor \in {"html", "word"}, OpenForEdit(p, f, editor)
    PROVE  IInv'
  <1>1. \A q \in People : desk'[q] = IF q = p THEN [step |-> editor, file |-> f, records |-> RecordsOf(f)] ELSE desk[q]
    BY DEF IInv, TypeOK, Goto, OpenForEdit, Editable, RecordsOf
  <1>2. TypeOK'
    BY <1>1 DEF IInv, TypeOK, Steps, Goto, OpenForEdit, Editable, RecordsOf
  <1>3. RemoteKnown'
    BY <1>1 DEF IInv, RemoteKnown, Goto, OpenForEdit, Editable, RecordsOf
  <1>4. EndedThere'
    BY <1>1 DEF IInv, EndedThere, Goto, OpenForEdit, Editable, RecordsOf
  <1>5. ClaimsAgree'
    BY <1>1 DEF IInv, ClaimsAgree, Goto, OpenForEdit, Editable, RecordsOf
  <1>6. FilesAgree'
    BY <1>1 DEF IInv, FilesAgree, OpenForEdit, Editable, RecordsOf
  <1>7. EditorsAgree'
    <2>1. 0 \notin Files
      BY DEF Files
    <2>2. \A j \in RecordsOf(f) : j \in Jobs /\ job[j] # None /\ job[j].result # 0 /\ file[f].of = j
      BY <2>1 DEF IInv, FilesAgree, RecordsOf
    <2>3. file[f] # None /\ file' = file /\ job' = job
      BY DEF OpenForEdit, Editable
    <2> QED
      BY <1>1, <2>2, <2>3 DEF IInv, EditorsAgree
  <1>8. ChargedOnce'
    BY <1>1 DEF IInv, TypeOK, ChargedOnce, AtWork, Starting, Goto, OpenForEdit, Editable,
       RecordsOf
  <1> QED
    BY <1>2, <1>3, <1>4, <1>5, <1>6, <1>7, <1>8 DEF IInv

(* A correction takes the old file's place and its records with it: what     *)
(* both editors do, each with the records it found.                          *)
Corrects(p, moved, still, html) ==
    /\ desk[p].step \in {"html", "word"} /\ HasRoom
    /\ Replace(p, still)
    /\ job' = [j \in Jobs |-> IF j \in moved THEN [job[j] EXCEPT !.result = FreeFile, !.html = html]
                              ELSE job[j]]
    /\ Goto(p, Idle)
    /\ UNCHANGED <<remote, balance, lock, overlapped, saves>>

LEMMA CorrectionPreserves ==
    ASSUME IInv, NEW p \in People, NEW moved \in SUBSET Jobs, NEW still \in BOOLEAN, NEW html \in BOOLEAN,
           \A j \in moved : job[j] # None /\ file[desk[p].file].of = j,
           Corrects(p, moved, still, html)
    PROVE  IInv'
  <1> DEFINE f == desk[p].file
             g == FreeFile
             struck == [file[f] EXCEPT !.removed = TRUE]
             new == [by |-> p, removed |-> FALSE, of |-> file[f].of, made |-> FALSE, html |-> still]
  <1>1. DOMAIN desk' = People /\ \A q \in People : desk'[q] = IF q = p THEN Idle ELSE desk[q]
    BY DEF IInv, TypeOK, Goto, Corrects
  <1>2. f \in Files /\ file[f] \in FileRows /\ f # 0
    <2>1. f \in Files /\ file[f] # None
      BY DEF IInv, TypeOK, EditorsAgree, Corrects
    <2> QED
      BY <2>1 DEF IInv, TypeOK, Files
  <1>3. g \in Files /\ file[g] = None /\ g # 0 /\ g # f
    <2>1. g \in Files /\ file[g] = None
      BY FreeFileIsFree DEF Corrects
    <2> QED
      BY <1>2, <2>1, NoneIsNoRow DEF Files
  <1>4. struck \in FileRows /\ struck # None /\ struck.of = file[f].of /\ struck.made = file[f].made
    BY <1>2, FileRowRemoved, NoneIsNoRow
  <1>5. file[f].of \in Jobs
    BY <1>2 DEF FileRows
  <1>6. new \in FileRows /\ new # None /\ new.of = file[f].of /\ ~new.made
    BY <1>5, NoneIsNoRow DEF FileRows
  <1>7. file' = [file EXCEPT ![f] = struck, ![g] = new]
    BY <1>2, <1>3 DEF Replace, IInv, Corrects
  <1>8. file' \in [Files -> FileRows \cup {None}]
    BY <1>2, <1>3, <1>4, <1>6, <1>7 DEF IInv, TypeOK
  <1>9. \A h \in Files : file'[h] = IF h = g THEN new ELSE IF h = f THEN struck ELSE file[h]
    BY <1>2, <1>3, <1>7 DEF IInv, TypeOK
  <1>10. \A j \in moved : job[j] \in JobRows
    BY DEF IInv, TypeOK
  <1>11. \A j \in moved : /\ job'[j] \in JobRows /\ job'[j] # None /\ job'[j].status = job[j].status
                           /\ job'[j].source = job[j].source /\ job'[j].result = g
    <2> SUFFICES ASSUME NEW j \in moved
                 PROVE  /\ job'[j] \in JobRows /\ job'[j] # None /\ job'[j].status = job[j].status
                        /\ job'[j].source = job[j].source /\ job'[j].result = g
      OBVIOUS
    <2>1. job'[j] = [job[j] EXCEPT !.result = g, !.html = html]
      BY DEF Corrects
    <2> HIDE DEF g
    <2> QED
      BY <1>3, <1>10, <2>1, NoneIsNoRow DEF JobRows
  <1>12. \A j \in Jobs \ moved : job'[j] = job[j]
    BY DEF Corrects
  <1>13. job' \in [Jobs -> JobRows \cup {None}]
    <2>1. DOMAIN job' = Jobs /\ job' = [j \in DOMAIN job' |-> job'[j]]
      BY DEF Corrects
    <2>2. \A j \in Jobs : job'[j] \in JobRows \cup {None}
      BY <1>11, <1>12 DEF IInv, TypeOK
    <2> HIDE DEF JobRows
    <2> QED
      BY <2>1, <2>2
  <1>14. \A j \in Jobs : /\ job'[j] # None <=> job[j] # None
                         /\ job[j] # None => job'[j].status = job[j].status /\ job'[j].source = job[j].source
    BY <1>11, <1>12
  <1>0. UNCHANGED <<remote, balance, lock, overlapped, saves>> /\ desk[p].step \in {"html", "word"}
    BY DEF Corrects
  <1> HIDE DEF new, struck, g, f
  <1>15. TypeOK'
    BY <1>0, <1>1, <1>8, <1>13 DEF IInv, TypeOK, Steps, Idle
  <1>16. RemoteKnown'
    <2>1. \A q \in People : desk'[q].step = "record" => desk'[q] = desk[q] /\ desk[q].job \in Jobs
      BY <1>1 DEF IInv, TypeOK, Idle
    <2> QED
      BY <1>0, <1>14, <2>1 DEF IInv, RemoteKnown
  <1>17. EndedThere'
    BY <1>0, <1>1, <1>14 DEF IInv, EndedThere, Idle
  <1>18. ClaimsAgree'
    <2>1. \A q \in People : desk'[q].step \in {"ask", "fetch", "store"} =>
             desk'[q] = desk[q] /\ desk[q].job \in Jobs
      BY <1>1 DEF IInv, TypeOK, Idle
    <2> QED
      BY <1>0, <1>14, <2>1 DEF IInv, ClaimsAgree
  <1>19. FilesAgree'
    <2>1. \A h \in Files : file'[h] # None /\ file'[h].made =>
             /\ file[h] # None /\ file[h].made /\ file'[h].of = file[h].of /\ file[h].of \in Jobs
      BY <1>2, <1>4, <1>6, <1>9, NoneIsNoRow DEF IInv, TypeOK, FileRows
    <2>2. \A h \in Files : file'[h] # None /\ file'[h].made =>
             job'[file'[h].of] # None /\ job'[file'[h].of].status # "processing"
      BY <1>14, <2>1 DEF IInv, FilesAgree
    <2>3. \A d, h \in Files : file'[d] # None /\ file'[d].made /\ file'[h] # None /\ file'[h].made
                              /\ file'[d].of = file'[h].of => d = h
      BY <2>1 DEF IInv, FilesAgree
    <2>4. \A j \in Jobs : job'[j] # None /\ job'[j].result # 0 =>
             file'[job'[j].result] # None /\ file'[job'[j].result].of = j
      <3> SUFFICES ASSUME NEW j \in Jobs, job'[j] # None, job'[j].result # 0
                   PROVE  file'[job'[j].result] # None /\ file'[job'[j].result].of = j
        OBVIOUS
      <3>1. CASE j \in moved
        BY <3>1, <1>3, <1>6, <1>9, <1>11 DEF f
      <3>2. CASE j \notin moved
        <4>1. job'[j] = job[j] /\ job[j].result \in Files
          BY <3>2, <1>12 DEF IInv, TypeOK, JobRows
        <4> QED
          BY <4>1, <1>2, <1>3, <1>4, <1>9 DEF IInv, FilesAgree
      <3> QED
        BY <3>1, <3>2
    <2> QED
      BY <2>2, <2>3, <2>4 DEF FilesAgree
  <1>20. EditorsAgree'
    <2>1. \A q \in People : desk'[q].step \in {"html", "word"} =>
             desk'[q] = desk[q] /\ desk[q].file \in Files /\ desk[q].records \subseteq Jobs
      BY <1>1 DEF IInv, TypeOK, Idle
    <2>2. \A h \in Files : file[h] # None => file'[h] # None /\ file'[h].of = file[h].of
      BY <1>3, <1>4, <1>9
    <2> QED
      BY <1>14, <2>1, <2>2 DEF IInv, EditorsAgree
  <1>21. ChargedOnce'
    <2>1. \A q \in People : \/ desk'[q] = desk[q]
                            \/ desk'[q].step = "idle" /\ desk[q].step \in {"html", "word"}
      BY <1>0, <1>1 DEF Idle
    <2>2. \A j \in Jobs, s \in Sources : AtWork(j, s)' <=> AtWork(j, s)
      BY <1>0, <1>14, <2>1 DEF AtWork
    <2>3. \A q \in People : Starting(q)' <=> Starting(q)
      BY <2>1 DEF Starting
    <2>4. \A q \in People : Starting(q) => desk'[q] = desk[q]
      BY <2>1 DEF Starting
    <2> QED
      BY <1>0, <2>2, <2>3, <2>4 DEF IInv, TypeOK, ChargedOnce, Starting
  <1> QED
    BY <1>15, <1>16, <1>17, <1>18, <1>19, <1>20, <1>21 DEF IInv

LEMMA SaveTranslationPreserves ==
    ASSUME IInv, NEW p \in People, SaveTranslation(p)
    PROVE  IInv'
  <1> DEFINE moved == desk[p].records
  <1>1. moved \in SUBSET Jobs /\ \A j \in moved : job[j] # None /\ file[desk[p].file].of = j
    BY DEF IInv, TypeOK, EditorsAgree, SaveTranslation
  <1>2. Corrects(p, moved, moved = {}, TRUE)
    BY DEF SaveTranslation, Corrects
  <1>3. (moved = {}) \in BOOLEAN
    OBVIOUS
  <1> HIDE DEF moved
  <1> QED
    BY <1>1, <1>2, <1>3, CorrectionPreserves

LEMMA SaveWordDocumentPreserves ==
    ASSUME IInv, NEW p \in People, SaveWordDocument(p)
    PROVE  IInv'
  <1> DEFINE moved == RecordsOf(desk[p].file)
  <1>1. moved \in SUBSET Jobs /\ \A j \in moved : job[j] # None /\ file[desk[p].file].of = j
    <2>1. desk[p].file \in Files /\ 0 \notin Files
      <3>1. desk[p].step = "word"
        BY DEF SaveWordDocument
      <3> QED
        BY <3>1 DEF IInv, TypeOK, Files
    <2> QED
      BY <2>1 DEF IInv, FilesAgree, RecordsOf
  <1>2. Corrects(p, moved, FALSE, FALSE)
    BY DEF SaveWordDocument, Corrects
  <1> HIDE DEF moved
  <1> QED
    BY <1>1, <1>2, CorrectionPreserves

LEMMA DeleteOrderFilePreserves ==
    ASSUME IInv, NEW p \in People, NEW f \in Files, DeleteOrderFile(p, f)
    PROVE  IInv'
  <1> DEFINE struck == [file[f] EXCEPT !.removed = TRUE]
  <1>1. file[f] \in FileRows
    BY DEF IInv, TypeOK, DeleteOrderFile
  <1>2. struck \in FileRows /\ struck # None /\ struck.of = file[f].of /\ struck.made = file[f].made
    BY <1>1, FileRowRemoved, NoneIsNoRow
  <1>3. file' = [file EXCEPT ![f] = struck] /\ UNCHANGED <<remote, balance, job, lock, desk, overlapped, saves>>
    BY DEF DeleteOrderFile, IInv
  <1> HIDE DEF struck
  <1>4. file' \in [Files -> FileRows \cup {None}]
    BY <1>2, <1>3 DEF IInv, TypeOK
  <1>5. \A h \in Files : /\ file'[h] # None <=> file[h] # None
                         /\ file[h] # None => file'[h].of = file[h].of /\ file'[h].made = file[h].made
    BY <1>1, <1>2, <1>3, NoneIsNoRow DEF IInv
  <1>6. TypeOK'
    BY <1>3, <1>4 DEF IInv, TypeOK
  <1>7. RemoteKnown' /\ EndedThere' /\ ClaimsAgree'
    BY <1>3 DEF IInv, RemoteKnown, EndedThere, ClaimsAgree
  <1>8. FilesAgree'
    <2>1. \A j \in Jobs : job[j] # None /\ job[j].result # 0 => job[j].result \in Files
      BY DEF IInv, TypeOK, JobRows
    <2> QED
      BY <1>3, <1>5, <2>1 DEF IInv, FilesAgree
  <1>9. EditorsAgree'
    BY <1>3, <1>5 DEF IInv, EditorsAgree
  <1>10. ChargedOnce'
    BY <1>3 DEF IInv, ChargedOnce, AtWork, Starting
  <1> QED
    BY <1>6, <1>7, <1>8, <1>9, <1>10 DEF IInv

-----------------------------------------------------------------------------

LEMMA NextPreserves == IInv /\ [Next]_vars => IInv'
  <1> SUFFICES ASSUME IInv, [Next]_vars PROVE IInv'
    OBVIOUS
  <1>1. CASE \E p \in People, s \in Sources : TranslateFile(p, s) \/ TranslateAssignedFile(p, s)
    BY <1>1, StartTranslationPreserves DEF TranslateFile, TranslateAssignedFile
  <1>2. ASSUME NEW p \in People, SendRefused(p) \/ RecordLost(p) \/ AskNothingNew(p) \/ SaveRefused(p)
        PROVE  IInv'
    <2>1. GivesUp(p) /\ desk[p].step \notin {"fetch", "store"}
      BY <1>2 DEF GivesUp, SendRefused, RecordLost, AskNothingNew, SaveRefused
    <2> QED
      BY <2>1, GivesUpPreserves
  <1>3. ASSUME NEW p \in People, Send(p) \/ Record(p)
        PROVE  IInv'
    BY <1>3, SendPreserves, RecordPreserves
  <1>4. ASSUME NEW p \in People,
               AskFailed(p) \/ Claim(p) \/ FetchResult(p) \/ FetchFails(p) \/ StoreFails(p)
        PROVE  IInv'
    BY <1>4, AskFailedPreserves, ClaimPreserves, FetchResultPreserves, FetchFailsPreserves,
       StoreFailsPreserves
  <1>5. ASSUME NEW p \in People, SaveTranslation(p) \/ SaveWordDocument(p)
        PROVE  IInv'
    BY <1>5, SaveTranslationPreserves, SaveWordDocumentPreserves
  <1>6. CASE \E p \in People, word \in BOOLEAN : Collect(p, word)
    BY <1>6, CollectPreserves
  <1>7. CASE \E p \in People, j \in Jobs : ListTranslations(p, j) \/ ListAssignedTranslations(p, j)
    BY <1>7, RefreshPreserves DEF ListTranslations, ListAssignedTranslations
  <1>8. CASE \E j \in Jobs, how \in {"completed", "failed"} : RemoteEnds(j, how)
    BY <1>8, RemoteEndsPreserves
  <1>9. CASE \E j \in Jobs : RemoteForgets(j)
    BY <1>9, RemoteForgetsPreserves
  <1>10. CASE \E p \in People, f \in Files, editor \in {"html", "word"} : OpenForEdit(p, f, editor)
    BY <1>10, OpenForEditPreserves
  <1>11. CASE \E p \in People, f \in Files : DeleteOrderFile(p, f)
    BY <1>11, DeleteOrderFilePreserves
  <1>12. CASE UNCHANGED vars
    BY <1>12 DEF vars, IInv, TypeOK, RemoteKnown, EndedThere, ClaimsAgree, FilesAgree,
       EditorsAgree, ChargedOnce, AtWork, Starting
  <1> QED
    BY <1>1, <1>2, <1>3, <1>4, <1>5, <1>6, <1>7, <1>8, <1>9, <1>10, <1>11, <1>12 DEF Next

(***************************************************************************)
(* What every reachable state satisfies: claims, rows, files, editors and  *)
(* charges agree, whatever the requests in flight.                         *)
(***************************************************************************)
THEOREM Invariance == Spec => []IInv
  BY InitEstablishes, NextPreserves, PTL DEF Spec

(* At most one of anything that is unique.                                   *)
LEMMA AtMostOne ==
    ASSUME NEW S, \A x, y \in S : x = y
    PROVE  Cardinality(S) <= 1
  <1>1. CASE S = {}
    BY <1>1, FS_EmptySet
  <1>2. CASE S # {}
    <2>1. PICK x \in S : S = {x}
      BY <1>2
    <2> QED
      BY <2>1, FS_Singleton
  <1> QED
    BY <1>1, <1>2

(***************************************************************************)
(* Two people looking at an order as a job finishes never file it twice,   *)
(* and the result a record names was made from its job.                    *)
(***************************************************************************)
THEOREM FiledOnceHolds == Spec => []FiledOnce
  <1>1. IInv => FiledOnce
    <2> SUFFICES ASSUME IInv, NEW j \in Jobs
                 PROVE  /\ Cardinality({f \in Files : file[f] # None /\ file[f].made /\ file[f].of = j}) <= 1
                        /\ job[j] # None /\ job[j].result # 0 => file[job[j].result].of = j
      BY DEF FiledOnce
    <2> DEFINE filed == {f \in Files : file[f] # None /\ file[f].made /\ file[f].of = j}
    <2>1. \A f, g \in filed : f = g
      BY DEF IInv, FilesAgree
    <2>2. Cardinality(filed) <= 1
      <3> HIDE DEF filed
      <3> QED
        BY <2>1, AtMostOne
    <2> QED
      BY <2>2 DEF IInv, FilesAgree
  <1> QED
    BY <1>1, Invariance, PTL

(***************************************************************************)
(* As long as two clicks on a file are not in flight together, suliko.ge   *)
(* is never at work on two jobs for it that are, or will be, recorded.     *)
(***************************************************************************)
THEOREM OneChargeHolds == Spec => []OneCharge
  <1>1. IInv => OneCharge
    <2> SUFFICES ASSUME IInv, ~overlapped, NEW s \in Sources
                 PROVE  Cardinality({j \in Jobs : remote[j] = "processing" /\
                          (\/ job[j] # None /\ job[j].source = s
                           \/ \E p \in People : desk[p].step = "record" /\ desk[p].source = s
                                                 /\ desk[p].job = j)}) <= 1
      BY DEF OneCharge
    <2> DEFINE jobs == {j \in Jobs : AtWork(j, s)}
    <2>1. \A i, j \in jobs : i = j
      BY DEF IInv, ChargedOnce
    <2>2. Cardinality(jobs) <= 1
      <3> HIDE DEF jobs
      <3> QED
        BY <2>1, AtMostOne
    <2> QED
      BY <2>2 DEF AtWork
  <1> QED
    BY <1>1, Invariance, PTL

-----------------------------------------------------------------------------
(* The import from the old system.  A property of all numbers, by the least one without it. *)

LEMMA Upwards ==
    ASSUME NEW good, 0 \in good, \A k \in Nat : k \in good => k + 1 \in good, NEW m \in Nat
    PROVE  m \in good
  <1> SUFFICES ASSUME m \notin good PROVE FALSE
    OBVIOUS
  <1>1. PICK less : less = {p \in Nat \X Nat : p[1] < p[2]}
    OBVIOUS
  <1>2. IsWellFoundedOn(less, Nat)
    <2>1. less = OpToRel(<, Nat)
      BY <1>1 DEF OpToRel
    <2> QED BY <2>1, NatLessThanWellFounded
  <1>3. PICK bad : bad = {n \in Nat : n \notin good}
    OBVIOUS
  <1>4. bad \subseteq Nat /\ bad # {}
    BY <1>3
  <1>5. PICK n \in bad : \A k \in bad : <<k, n>> \notin less
    BY <1>2, <1>4, WFMin
  <1>6. n \in Nat /\ n \notin good /\ n # 0 /\ n - 1 \in Nat /\ (n - 1) + 1 = n
    BY <1>3, <1>5
  <1>7. n - 1 \in good
    <2>1. PICK p : p = <<n - 1, n>>
      OBVIOUS
    <2>2. p \in Nat \X Nat /\ p[1] < p[2]
      BY <1>6, <2>1
    <2>3. p \in less
      BY <1>1, <2>2
    <2> QED BY <1>3, <1>5, <1>6, <2>1, <2>3
  <1> QED BY <1>6, <1>7
-----------------------------------------------------------------------------
(* What a sync leaves out of a history, and what it keeps.                   *)

(* A function told by what it was one before. *)
IsKept(f, history, before, m) ==
    f = [n \in 0..m |-> IF n = 0 THEN <<>>
                        ELSE IF history[n] \in before THEN f[n - 1] ELSE Append(f[n - 1], history[n])]

(* There is one. *)
LEMMA KeptExists ==
    ASSUME NEW history, NEW before, NEW m \in Nat
    PROVE  \E f : IsKept(f, history, before, m)
  <1> DEFINE Is(f, k) == IsKept(f, history, before, k)
  <1> USE DEF IsKept
  <1>1. PICK good : good = {k \in Nat : \E f : Is(f, k)}
    OBVIOUS
  <1>2. 0 \in good
    <2>1. PICK f : f = [n \in 0..0 |-> <<>>]
      OBVIOUS
    <2>2. Is(f, 0)
      BY <2>1
    <2> QED BY <1>1, <2>2
  <1>3. ASSUME NEW k \in Nat, k \in good PROVE k + 1 \in good
    <2>1. PICK f : Is(f, k)
      BY <1>1, <1>3
    <2>2. PICK g : g = [n \in 0..k + 1 |-> IF n <= k THEN f[n]
                                           ELSE IF history[n] \in before THEN f[k] ELSE Append(f[k], history[n])]
      OBVIOUS
    <2>3. \A n \in 0..k : g[n] = f[n]
      BY <2>2
    <2>4. \A n \in 0..k + 1 : g[n] = IF n = 0 THEN <<>>
                                     ELSE IF history[n] \in before THEN g[n - 1] ELSE Append(g[n - 1], history[n])
      <3> TAKE n \in 0..k + 1
      <3>1. CASE n <= k
        <4>1. n \in 0..k /\ g[n] = f[n] /\ (n # 0 => n - 1 \in 0..k /\ g[n - 1] = f[n - 1])
          BY <2>3, <3>1
        <4>2. f[n] = IF n = 0 THEN <<>> ELSE IF history[n] \in before THEN f[n - 1] ELSE Append(f[n - 1], history[n])
          BY <2>1, <4>1
        <4> QED BY <4>1, <4>2
      <3>2. CASE n = k + 1
        <4>1. n - 1 = k /\ n # 0 /\ k \in 0..k
          BY <3>2
        <4>2. g[n - 1] = f[k]
          BY <2>3, <4>1
        <4>3. g[n] = IF history[n] \in before THEN f[k] ELSE Append(f[k], history[n])
          BY <2>2, <3>2
        <4> QED BY <4>1, <4>2, <4>3
      <3> QED BY <3>1, <3>2
    <2>5. Is(g, k + 1)
      BY <2>2, <2>4
    <2>6. \E e : Is(e, k + 1)
      BY <2>5
    <2> HIDE DEF Is
    <2> QED BY <1>1, <2>6
  <1>4. m \in good
    BY <1>2, <1>3, Upwards
  <1> HIDE DEF IsKept
  <1> QED
    BY <1>1, <1>4

OldEvents == [status : Statuses, at : Nat]

(* By their time. *)
InOrder(events) == \A i, j \in DOMAIN events : i <= j => events[i].at <= events[j].at

(* What is kept of a history in its order is in order, and none of it was there before. *)
LEMMA AddedEventsAre ==
    ASSUME NEW history \in Seq(OldEvents), InOrder(history), NEW before
    PROVE  /\ AddedEvents(history, before) \in Seq(OldEvents)
           /\ InOrder(AddedEvents(history, before))
           /\ \A k \in DOMAIN AddedEvents(history, before) :
                 \E j \in DOMAIN history : /\ history[j] \notin before
                                           /\ AddedEvents(history, before)[k] = history[j]
  <1>1. PICK m : m = Len(history) /\ m \in Nat /\ DOMAIN history = 1..m
    OBVIOUS
  <1>2. PICK kept : /\ kept = [n \in 0..m |-> IF n = 0 THEN <<>>
                                            ELSE IF history[n] \in before THEN kept[n - 1]
                                            ELSE Append(kept[n - 1], history[n])]
                    /\ AddedEvents(history, before) = kept[m]
    <2>1. \E f : IsKept(f, history, before, m)
      BY <1>1, KeptExists
    <2>2. PICK f : f = CHOOSE g : IsKept(g, history, before, m)
      OBVIOUS
    <2>3. IsKept(f, history, before, m)
      BY <2>1, <2>2
    <2>4. AddedEvents(history, before) = f[m]
      BY <1>1, <2>2 DEF AddedEvents, IsKept
    <2> QED BY <2>3, <2>4 DEF IsKept
  <1> DEFINE Right(u, n) == /\ u \in Seq(OldEvents) /\ InOrder(u)
                            /\ \A k \in 1..Len(u) : \E j \in 1..n : history[j] \notin before /\ u[k] = history[j]
  <1>3. PICK good : good = {n \in Nat : n <= m => Right(kept[n], n)}
    OBVIOUS
  <1>4. 0 \in good
    <2>1. kept[0] = <<>>
      BY <1>1, <1>2
    <2>2. Right(<<>>, 0)
      BY DEF InOrder
    <2> QED BY <1>3, <2>1, <2>2
  <1>5. ASSUME NEW n \in Nat, n \in good PROVE n + 1 \in good
    <2>1. SUFFICES ASSUME n + 1 <= m PROVE Right(kept[n + 1], n + 1)
      BY <1>3
    <2>2. PICK u, e : u = kept[n] /\ e = history[n + 1]
      OBVIOUS
    <2>3. Right(u, n) /\ e \in OldEvents
      BY <1>1, <1>3, <1>5, <2>1, <2>2
    <2>4. kept[n + 1] = IF e \in before THEN u ELSE Append(u, e)
      <3>1. n + 1 \in 0..m /\ n + 1 # 0 /\ (n + 1) - 1 = n
        BY <1>1, <2>1
      <3> QED BY <1>2, <2>2, <3>1
    <2>5. CASE e \in before
      BY <2>3, <2>4, <2>5
    <2>6. CASE e \notin before
      <3>1. PICK w : w = Append(u, e)
        OBVIOUS
      <3>2. /\ w \in Seq(OldEvents) /\ Len(w) = Len(u) + 1 /\ Len(u) \in Nat
            /\ \A k \in 1..Len(u) : w[k] = u[k]
            /\ w[Len(u) + 1] = e
        BY <2>3, <3>1
      <3>3. \A k \in 1..Len(u) : u[k].at <= e.at /\ u[k].at \in Nat /\ e.at \in Nat
        <4> TAKE k \in 1..Len(u)
        <4>1. PICK j \in 1..n : u[k] = history[j]
          BY <2>3
        <4>2. j \in DOMAIN history /\ n + 1 \in DOMAIN history /\ j <= n + 1
          BY <1>1, <2>1
        <4>3. history[j].at <= e.at /\ history[j] \in OldEvents
          BY <1>1, <2>2, <4>2 DEF InOrder
        <4> QED BY <2>3, <4>1, <4>3 DEF OldEvents
      <3>4. InOrder(w)
        <4> SUFFICES ASSUME NEW i \in 1..Len(u) + 1, NEW j \in 1..Len(u) + 1, i <= j PROVE w[i].at <= w[j].at
          BY <3>2 DEF InOrder
        <4>1. CASE j <= Len(u)
          <5>1. i \in 1..Len(u) /\ j \in 1..Len(u)
            BY <3>2, <4>1
          <5>2. w[i] = u[i] /\ w[j] = u[j]
            BY <3>2, <5>1
          <5>3. InOrder(u) /\ DOMAIN u = 1..Len(u)
            BY <2>3
          <5>4. u[i].at <= u[j].at
            BY <5>1, <5>3 DEF InOrder
          <5> QED BY <5>2, <5>4
        <4>2. CASE j = Len(u) + 1 /\ i <= Len(u)
          BY <3>2, <3>3, <4>2
        <4>3. CASE j = Len(u) + 1 /\ i = Len(u) + 1
          <5>1. w[i] = e /\ w[j] = e /\ e.at \in Nat
            BY <2>3, <3>2, <4>3 DEF OldEvents
          <5> QED BY <5>1
        <4> QED BY <3>2, <4>1, <4>2, <4>3
      <3>5. \A k \in 1..Len(w) : \E j \in 1..n + 1 : history[j] \notin before /\ w[k] = history[j]
        <4> TAKE k \in 1..Len(w)
        <4>1. CASE k \in 1..Len(u)
          <5>1. PICK j \in 1..n : history[j] \notin before /\ u[k] = history[j]
            BY <2>3, <4>1
          <5> QED BY <3>2, <4>1, <5>1
        <4>2. CASE k = Len(u) + 1
          BY <2>2, <2>6, <3>2, <4>2
        <4> QED BY <3>2, <4>1, <4>2
      <3> QED BY <2>4, <2>6, <3>1, <3>2, <3>4, <3>5
    <2> QED BY <2>5, <2>6
  <1>6. m \in good
    BY <1>1, <1>4, <1>5, Upwards
  <1>7. Right(kept[m], m)
    BY <1>1, <1>3, <1>6
  <1>8. PICK u : u = AddedEvents(history, before)
    OBVIOUS
  <1>9. Right(u, m)
    BY <1>2, <1>7, <1>8
  <1>10. DOMAIN u = 1..Len(u)
    BY <1>9
  <1> QED
    BY <1>1, <1>8, <1>9, <1>10
-----------------------------------------------------------------------------
(* The old system and its dumps. *)

(* An order's status is where its history ends, and its history runs forward in time. *)
OrderFine(raw) ==
    /\ raw \in OldOrders
    /\ raw.status = IF raw.history = <<>> THEN Initial ELSE Last(raw.history).status
    /\ InOrder(raw.history)
    /\ \A k \in DOMAIN raw.history : raw.date <= raw.history[k].at
    /\ \A r, s \in raw.pays : r.n = s.n => r = s
    /\ \A r \in raw.pays : r.kind # "expense"

(* The numbers of these rows are their own. *)
OwnRows(pays) == pays \subseteq Payments /\ \A r, s \in pays : r.n = s.n => r = s

DumpShape == [orders : [Old -> OldOrders \cup {NoOrder}], hired : SUBSET Translators, expenses : SUBSET Payments]

DumpFine(d) ==
    /\ d \in DumpShape
    /\ OwnRows(d.expenses)
    /\ Orders(d) # {}
    /\ \A i \in Orders(d) : OrderFine(d.orders[i])

(* What is in the old system happened by now, and its rows have the numbers given out. *)
OldFine ==
    /\ DumpFine(old)
    /\ \A r \in old.expenses : r.n <= rows
    /\ \A i \in Orders(old) :
        /\ old.orders[i].date <= clock
        /\ \A k \in DOMAIN old.orders[i].history : old.orders[i].history[k].at <= clock
        /\ \A r \in old.orders[i].pays : r.n <= rows

(* An order, later: nothing is taken back. *)
Grows(raw, more) ==
    /\ raw.pays \subseteq more.pays
    /\ raw.date = more.date
    /\ Len(raw.history) <= Len(more.history)
    /\ \A k \in 1..Len(raw.history) : raw.history[k] = more.history[k]

Follows(d, p) ==
    /\ Orders(p) \subseteq Orders(d)
    /\ p.expenses \subseteq d.expenses
    /\ \A i \in Orders(p) : Grows(p.orders[i], d.orders[i])

(* While no row is edited, each dump has what the ones before it had. *)
DumpsFollow ==
    proper => \A k \in DOMAIN dumps :
        /\ Follows(old, dumps[k])
        /\ \A j \in DOMAIN dumps : j <= k => Follows(dumps[k], dumps[j])

-----------------------------------------------------------------------------
(* Office. *)

OfficeShape == [orders : [Old -> OfficeOrders \cup {NoOrder}], imported : [Clients -> Nat],
                registered : SUBSET Clients, spent : [RowIds -> Nat]]

OnlyImported(events) == \A k \in DOMAIN events : events[k].how = "imported"

EndsAt(raw) == IF raw.history = <<>> THEN raw.date ELSE Last(raw.history).at

(***************************************************************************)
(* These rows are in a book, each under its number, and nothing else is.   *)
(* One may be missing where staff changed the order's documents, or where  *)
(* an earlier listing had a row like it.  (Expenses have no documents: for *)
(* them docs is 1.)                                                        *)
(***************************************************************************)
BooksAgree(book, docs, pays, listings) ==
    /\ \A r \in pays :
        \/ book[r.n] = r.amount
        \/ book[r.n] = 0 /\ ((r.kind # "client" /\ docs # 1) \/ TakenForOld(r, listings))
    /\ \A n \in RowIds : (\A r \in pays : r.n # n) => book[n] = 0

(* What the dumps brought over listed: an order's payments, and the expenses. *)
Listings(i) == {Listed(dumps[k], i) : k \in brought}
Expenses    == {dumps[k].expenses : k \in brought}

(* Events that all came over end where the old history ends. *)
EventsAgree(events, raw) ==
    OnlyImported(events) =>
        /\ events # <<>>
        /\ InOrder(events)
        /\ Last(events).status = raw.status
        /\ Last(events).at <= EndsAt(raw)

CaughtUp(d) ==
    /\ LegacyOrders = Orders(d)
    /\ \A i \in Orders(d) :
        /\ BooksAgree(office.orders[i].books, office.orders[i].docs, d.orders[i].pays, Listings(i))
        /\ EventsAgree(office.orders[i].events, d.orders[i])
    /\ BooksAgree(office.spent, 1, d.expenses, Expenses)
    /\ \A c \in Clients : office.imported[c] <= 1

NothingYet ==
    /\ LegacyOrders = {}
    /\ \A id \in RowIds : office.spent[id] = 0
    /\ \A c \in Clients : office.imported[c] = 0

SyncTyped ==
    /\ office \in OfficeShape
    /\ dumps \in Seq(DumpShape)
    /\ loaded \in 0..Len(dumps)
    /\ brought \subseteq DOMAIN dumps
    /\ clock \in Nat /\ rows \in Nat
    /\ proper \in BOOLEAN

SyncInv ==
    /\ SyncTyped
    /\ OldFine
    /\ \A k \in DOMAIN dumps : DumpFine(dumps[k])
    /\ DumpsFollow
    /\ loaded = 0 => NothingYet
    /\ loaded > 0 => loaded \in brought
    /\ proper /\ loaded > 0 => CaughtUp(dumps[loaded])
-----------------------------------------------------------------------------
LEMMA OrderTypes ==
    ASSUME NEW raw, OrderFine(raw)
    PROVE  /\ raw = [status |-> raw.status, date |-> raw.date, pays |-> raw.pays, history |-> raw.history]
           /\ raw.status \in Statuses /\ raw.date \in Nat
           /\ raw.pays \subseteq Payments
           /\ raw.history \in Seq(OldEvents)
           /\ Len(raw.history) \in Nat /\ DOMAIN raw.history = 1..Len(raw.history)
           /\ \A k \in DOMAIN raw.history : raw.history[k].status \in Statuses /\ raw.history[k].at \in Nat
           /\ raw # NoOrder
  <1>1. raw \in [status : Statuses, date : Nat, pays : SUBSET Payments, history : Seq(OldEvents)]
    BY DEF OrderFine, OldOrders, OldEvents
  <1>2. raw.history \in Seq(OldEvents)
    BY <1>1
  <1>3. \A k \in DOMAIN raw.history : raw.history[k] \in OldEvents
    BY <1>2
  <1>4. raw # NoOrder
    BY LegacyAssumptions DEF OrderFine
  <1> QED
    BY <1>1, <1>2, <1>3, <1>4 DEF OldEvents

LEMMA GrowsSelf ==
    ASSUME NEW raw, OrderFine(raw)
    PROVE  Grows(raw, raw)
  BY OrderTypes DEF Grows

LEMMA FollowsSelf ==
    ASSUME NEW d, DumpFine(d)
    PROVE  Follows(d, d)
  BY GrowsSelf DEF Follows, DumpFine

LEMMA GrowsTrans ==
    ASSUME NEW a, NEW b, NEW c, OrderFine(a), OrderFine(b), OrderFine(c), Grows(a, b), Grows(b, c)
    PROVE  Grows(a, c)
  <1>1. Len(a.history) \in Nat /\ Len(b.history) \in Nat /\ Len(c.history) \in Nat
    BY OrderTypes
  <1> QED
    BY <1>1 DEF Grows

LEMMA FollowsTrans ==
    ASSUME NEW p, NEW d, NEW e, DumpFine(p), DumpFine(d), DumpFine(e), Follows(d, p), Follows(e, d)
    PROVE  Follows(e, p)
  <1>1. Orders(p) \subseteq Orders(e) /\ p.expenses \subseteq e.expenses
    BY DEF Follows
  <1>2. ASSUME NEW i \in Orders(p) PROVE Grows(p.orders[i], e.orders[i])
    <2>1. i \in Orders(d) /\ i \in Orders(e)
      BY DEF Follows
    <2>2. OrderFine(p.orders[i]) /\ OrderFine(d.orders[i]) /\ OrderFine(e.orders[i])
      BY <2>1 DEF DumpFine
    <2>3. Grows(p.orders[i], d.orders[i]) /\ Grows(d.orders[i], e.orders[i])
      BY <2>1 DEF Follows
    <2> QED BY <2>2, <2>3, GrowsTrans
  <1> QED
    BY <1>1, <1>2 DEF Follows

(* What Office has stays right while the dumps that were brought over are what they were. *)
LEMMA SameListings ==
    ASSUME NEW d, CaughtUp(d), UNCHANGED <<brought, office>>, \A m \in brought : dumps'[m] = dumps[m]
    PROVE  CaughtUp(d)'
  <1>1. Expenses' = Expenses /\ LegacyOrders' = LegacyOrders
    BY DEF Expenses, LegacyOrders
  <1>2. ASSUME NEW i PROVE Listings(i)' = Listings(i)
    BY DEF Listings
  <1> QED
    BY <1>1, <1>2 DEF CaughtUp

(* A step of the old system: Office does not see it, and the dumps stay what they were. *)
LEMMA OldKeeps ==
    ASSUME SyncInv, dumps' = dumps, office' = office, loaded' = loaded, brought' = brought, OldFine', clock' \in Nat, rows' \in Nat,
           proper' \in BOOLEAN, proper' => proper /\ Follows(old', old)
    PROVE  SyncInv'
  <1>1. SyncTyped'
    BY DEF SyncInv, SyncTyped
  <1>2. \A k \in DOMAIN dumps' : DumpFine(dumps'[k])
    BY DEF SyncInv
  <1>3. DumpsFollow'
    <2> SUFFICES ASSUME proper', NEW k \in DOMAIN dumps
                 PROVE  /\ Follows(old', dumps[k])
                        /\ \A j \in DOMAIN dumps : j <= k => Follows(dumps[k], dumps[j])
      BY DEF DumpsFollow
    <2>1. /\ Follows(old, dumps[k])
          /\ \A j \in DOMAIN dumps : j <= k => Follows(dumps[k], dumps[j])
      BY DEF SyncInv, DumpsFollow
    <2>2. PICK a, b : a = old /\ b = old'
      OBVIOUS
    <2>3. DumpFine(a) /\ DumpFine(b) /\ DumpFine(dumps[k]) /\ Follows(b, a) /\ Follows(a, dumps[k])
      <3>1. DumpFine(old) /\ DumpFine(dumps[k])
        BY DEF SyncInv, OldFine
      <3>2. DumpFine(old)'
        BY DEF OldFine
      <3>3. DumpFine(b)
        BY <2>2, <3>2 DEF DumpFine, Orders
      <3> QED BY <2>1, <2>2, <3>1, <3>3
    <2>4. Follows(b, dumps[k])
      BY <2>3, FollowsTrans
    <2> QED BY <2>1, <2>2, <2>4
  <1>4. loaded' = 0 => NothingYet'
    BY DEF SyncInv, NothingYet, LegacyOrders
  <1>5. proper' /\ loaded' > 0 => CaughtUp(dumps[loaded])'
    <2> SUFFICES ASSUME proper', loaded > 0 PROVE CaughtUp(dumps[loaded])'
      OBVIOUS
    <2>1. PICK d : d = dumps[loaded]
      OBVIOUS
    <2>2. CaughtUp(d)
      BY <2>1 DEF SyncInv
    <2>3. CaughtUp(d)'
      BY <2>2, SameListings
    <2> QED BY <2>1, <2>3
  <1>6. loaded' > 0 => loaded' \in brought'
    BY DEF SyncInv
  <1> QED
    BY <1>1, <1>2, <1>3, <1>4, <1>5, <1>6 DEF SyncInv

(* The old system writes one order, new or not. *)
LEMMA OldWrites ==
    ASSUME SyncInv, NEW i \in Old, NEW raw, OrderFine(raw), NEW hired \in SUBSET Translators,
           old' = [orders |-> [old.orders EXCEPT ![i] = raw], hired |-> hired, expenses |-> old.expenses],
           clock' = clock, rows' \in Nat, rows <= rows',
           raw.date <= clock, \A k \in DOMAIN raw.history : raw.history[k].at <= clock,
           \A r \in raw.pays : r.n <= rows',
           proper' \in BOOLEAN, proper' => proper /\ (i \in Orders(old) => Grows(old.orders[i], raw)),
           dumps' = dumps, office' = office, loaded' = loaded, brought' = brought
    PROVE  SyncInv'
  <1>1. PICK f : f = [old.orders EXCEPT ![i] = raw]
    OBVIOUS
  <1>2. /\ old.orders \in [Old -> OldOrders \cup {NoOrder}] /\ old.expenses \in SUBSET Payments
        /\ OwnRows(old.expenses) /\ \A r \in old.expenses : r.n <= rows
        /\ \A j \in Orders(old) : OrderFine(old.orders[j])
        /\ \A j \in Orders(old) :
            /\ old.orders[j].date <= clock
            /\ \A k \in DOMAIN old.orders[j].history : old.orders[j].history[k].at <= clock
            /\ \A r \in old.orders[j].pays : r.n <= rows
    BY DEF SyncInv, OldFine, DumpFine, DumpShape
  <1>3. raw \in OldOrders /\ raw # NoOrder
    BY OrderTypes DEF OrderFine
  <1>4. f \in [Old -> OldOrders \cup {NoOrder}] /\ f[i] = raw /\ \A j \in Old \ {i} : f[j] = old.orders[j]
    BY <1>1, <1>2, <1>3
  <1>5. old'.orders = f /\ old' \in DumpShape /\ old'.expenses = old.expenses
    BY <1>1, <1>2, <1>4 DEF DumpShape
  <1>6. Orders(old') = Orders(old) \cup {i}
    BY <1>3, <1>4, <1>5 DEF Orders
  <1>7. \A j \in Orders(old') : j = i \/ (j \in Orders(old) /\ f[j] = old.orders[j])
    BY <1>4, <1>6 DEF Orders
  <1>8. DumpFine(old')
    <2>1. OwnRows(old'.expenses)
      BY <1>2, <1>5
    <2> QED BY <1>2, <1>4, <1>5, <1>6, <1>7, <2>1 DEF DumpFine
  <1>9. \A j \in Orders(old') : \A r \in f[j].pays : r.n <= rows'
    <2> TAKE j \in Orders(old')
    <2>1. CASE j = i
      BY <1>4, <2>1
    <2>2. CASE j \in Orders(old) /\ f[j] = old.orders[j]
      <3>1. \A r \in old.orders[j].pays : r.n \in Nat /\ r.n <= rows /\ rows \in Nat
        <4>1. old.orders[j].pays \subseteq Payments
          BY <1>2, <2>2, OrderTypes
        <4> QED BY <1>2, <2>2, <4>1 DEF Payments, RowIds, SyncInv, SyncTyped
      <3> QED BY <2>2, <3>1
    <2> QED BY <1>7, <2>1, <2>2
  <1>10. OldFine'
    <2>1. DumpFine(old)'
      BY <1>8 DEF DumpFine, OwnRows, Orders
    <2>2. \A j \in Orders(old') :
            /\ f[j].date <= clock
            /\ \A k \in DOMAIN f[j].history : f[j].history[k].at <= clock
      BY <1>2, <1>4, <1>7
    <2>3. \A r \in old'.expenses : r.n <= rows'
      <3>1. \A r \in old.expenses : r.n \in Nat /\ r.n <= rows /\ rows \in Nat
        BY <1>2 DEF Payments, RowIds, SyncInv, SyncTyped
      <3> QED BY <1>5, <3>1
    <2> QED BY <1>5, <1>9, <2>1, <2>2, <2>3 DEF OldFine, Orders
  <1>11. proper' => proper /\ Follows(old', old)
    <2> SUFFICES ASSUME proper' PROVE Follows(old', old)
      OBVIOUS
    <2>1. ASSUME NEW j \in Orders(old) PROVE Grows(old.orders[j], f[j])
      <3>1. CASE j = i
        BY <1>4, <2>1, <3>1
      <3>2. CASE j # i
        BY <1>2, <1>4, <2>1, <3>2, GrowsSelf DEF Orders
      <3> QED BY <3>1, <3>2
    <2> QED BY <1>5, <1>6, <2>1 DEF Follows
  <1>12. clock' \in Nat
    BY DEF SyncInv, SyncTyped
  <1> QED
    BY <1>10, <1>11, <1>12, OldKeeps

LEMMA OldRecord == SyncInv => old = [orders |-> old.orders, hired |-> old.hired, expenses |-> old.expenses]
  BY DEF SyncInv, OldFine, DumpFine, DumpShape

LEMMA FreshOrder ==
    ASSUME NEW i \in Old, NEW when \in Nat, NEW raw, raw = OldOrder(i, when)
    PROVE  /\ OrderFine(raw) /\ raw.date = when /\ raw.pays = {}
           /\ \A k \in DOMAIN raw.history : raw.history[k].at = when
  <1>1. Initial \in Statuses
    BY LegacyAssumptions
  <1>2. /\ raw.history = (IF i \in Recorded THEN <<[status |-> Initial, at |-> when]>> ELSE <<>>)
        /\ raw.status = Initial /\ raw.date = when /\ raw.pays = {}
        /\ raw = [status |-> Initial, date |-> when, pays |-> {}, history |-> raw.history]
    BY DEF OldOrder
  <1>3. raw.history \in Seq(OldEvents) /\ \A k \in DOMAIN raw.history : k = 1 /\ raw.history[k].at = when
    <2>1. PICK e : e = [status |-> Initial, at |-> when]
      OBVIOUS
    <2>2. e \in OldEvents /\ e.at = when
      BY <1>1, <2>1 DEF OldEvents
    <2>3. raw.history = <<e>> \/ raw.history = <<>>
      BY <1>2, <2>1
    <2>4. CASE raw.history = <<e>>
      BY <2>2, <2>4
    <2>5. CASE raw.history = <<>>
      BY <2>5
    <2> QED BY <2>3, <2>4, <2>5
  <1>4. raw \in OldOrders
    BY <1>1, <1>2, <1>3 DEF OldOrders, OldEvents
  <1>5. raw.status = IF raw.history = <<>> THEN Initial ELSE Last(raw.history).status
    BY <1>2 DEF Last
  <1>6. InOrder(raw.history) /\ \A k \in DOMAIN raw.history : raw.date <= raw.history[k].at
    BY <1>2, <1>3 DEF InOrder
  <1> QED
    BY <1>2, <1>3, <1>4, <1>5, <1>6 DEF OrderFine

LEMMA OldCreatesKeeps ==
    ASSUME SyncInv, NEW i \in Old, OldCreates(i)
    PROVE  SyncInv'
  <1>1. PICK raw : raw = OldOrder(i, clock)
    OBVIOUS
  <1>2. clock \in Nat /\ By[i] \in Translators /\ rows \in Nat /\ proper \in BOOLEAN
    BY LegacyAssumptions DEF SyncInv, SyncTyped
  <1>3. /\ OrderFine(raw) /\ raw.date = clock /\ raw.pays = {}
        /\ \A k \in DOMAIN raw.history : raw.history[k].at = clock
    BY <1>1, <1>2, FreshOrder
  <1>4. old' = [orders |-> [old.orders EXCEPT ![i] = raw], hired |-> old.hired \cup {By[i]}, expenses |-> old.expenses]
    BY <1>1, OldRecord DEF OldCreates
  <1>5. old.hired \cup {By[i]} \in SUBSET Translators
    BY <1>2 DEF SyncInv, OldFine, DumpFine, DumpShape
  <1>6. raw.date <= clock /\ (\A k \in DOMAIN raw.history : raw.history[k].at <= clock) /\ \A r \in raw.pays : r.n <= rows
    BY <1>2, <1>3
  <1>7. i \notin Orders(old)
    BY DEF OldCreates, Orders
  <1>8. UNCHANGED <<clock, rows, proper, dumps, office, loaded, brought>>
    BY DEF OldCreates, OldStep
  <1> QED
    BY <1>2, <1>3, <1>4, <1>5, <1>6, <1>7, <1>8, OldWrites

LEMMA OldSetsStatusKeeps ==
    ASSUME SyncInv, NEW i \in Old, NEW s \in Statuses, OldSetsStatus(i, s)
    PROVE  SyncInv'
  <1>1. PICK was : was = old.orders[i]
    OBVIOUS
  <1>2. PICK raw : raw = [was EXCEPT !.status = s, !.history = Append(@, [status |-> s, at |-> clock])]
    OBVIOUS
  <1>3. i \in Orders(old) /\ OrderFine(was) /\ clock \in Nat /\ rows \in Nat /\ proper \in BOOLEAN
        /\ was.date <= clock /\ (\A k \in DOMAIN was.history : was.history[k].at <= clock)
        /\ \A r \in was.pays : r.n <= rows
    BY <1>1 DEF OldSetsStatus, Orders, SyncInv, SyncTyped, OldFine, DumpFine
  <1>4. PICK h, n : h = raw.history /\ n = Len(was.history)
    OBVIOUS
  <1>5. /\ was.history \in Seq(OldEvents) /\ n \in Nat /\ DOMAIN was.history = 1..n /\ was.pays \subseteq Payments
        /\ was.date \in Nat /\ \A k \in 1..n : was.history[k].at \in Nat
    BY <1>3, <1>4, OrderTypes
  <1>6. raw = [status |-> s, date |-> was.date, pays |-> was.pays, history |-> h] /\ h = Append(was.history, [status |-> s, at |-> clock])
    <2>1. was \in [status : Statuses, date : Nat, pays : SUBSET Payments, history : Seq(OldEvents)]
      BY <1>3 DEF OrderFine, OldOrders, OldEvents
    <2> QED BY <1>2, <1>4, <2>1
  <1>7. /\ h \in Seq(OldEvents) /\ Len(h) = n + 1 /\ DOMAIN h = 1..n + 1
        /\ h[n + 1] = [status |-> s, at |-> clock] /\ \A k \in 1..n : h[k] = was.history[k]
    BY <1>3, <1>4, <1>5, <1>6 DEF OldEvents
  <1>8. OrderFine(raw)
    <2>1. raw \in OldOrders
      BY <1>5, <1>6, <1>7 DEF OldOrders, OldEvents
    <2>2. h # <<>> /\ Last(h).status = s
      BY <1>5, <1>7 DEF Last
    <2>3. InOrder(h)
      <3> SUFFICES ASSUME NEW a \in 1..n + 1, NEW b \in 1..n + 1, a <= b PROVE h[a].at <= h[b].at
        BY <1>7 DEF InOrder
      <3>1. CASE b <= n
        <4>1. a \in DOMAIN was.history /\ b \in DOMAIN was.history
          BY <1>5, <3>1
        <4>2. was.history[a].at <= was.history[b].at
          BY <1>3, <4>1 DEF OrderFine, InOrder
        <4> QED BY <1>5, <1>7, <4>1, <4>2
      <3>2. CASE b = n + 1 /\ a <= n
        <4>1. h[b].at = clock
          BY <1>7, <3>2
        <4>2. a \in 1..n /\ a \in DOMAIN was.history
          BY <1>5, <3>2
        <4>3. h[a].at = was.history[a].at /\ was.history[a].at <= clock
          BY <1>3, <1>7, <4>2
        <4> QED BY <4>1, <4>3
      <3>3. CASE b = n + 1 /\ a = n + 1
        BY <1>3, <1>7, <3>3
      <3> QED BY <1>5, <3>1, <3>2, <3>3
    <2>4. \A k \in DOMAIN h : was.date <= h[k].at
      <3> TAKE k \in DOMAIN h
      <3>1. CASE k \in 1..n
        BY <1>3, <1>5, <1>7, <3>1 DEF OrderFine
      <3>2. CASE k = n + 1
        BY <1>3, <1>7, <3>2
      <3> QED BY <1>5, <1>7, <3>1, <3>2
    <2>5. (\A r, t \in was.pays : r.n = t.n => r = t) /\ \A r \in was.pays : r.kind # "expense"
      BY <1>3 DEF OrderFine
    <2> QED BY <1>6, <2>1, <2>2, <2>3, <2>4, <2>5 DEF OrderFine
  <1>9. old' = [orders |-> [old.orders EXCEPT ![i] = raw], hired |-> old.hired, expenses |-> old.expenses]
    <2>1. old'.orders = [old.orders EXCEPT ![i] = raw]
      <3>1. old.orders \in [Old -> OldOrders \cup {NoOrder}]
        BY DEF SyncInv, OldFine, DumpFine, DumpShape
      <3>2. was \in [status : Statuses, date : Nat, pays : SUBSET Payments, history : Seq(OldEvents)]
        BY <1>3 DEF OrderFine, OldOrders, OldEvents
      <3> QED BY <1>1, <1>2, <3>1, <3>2, OldRecord DEF OldSetsStatus
    <2> QED BY <2>1, OldRecord DEF OldSetsStatus
  <1>10. raw.date <= clock /\ (\A k \in DOMAIN raw.history : raw.history[k].at <= clock) /\ \A r \in raw.pays : r.n <= rows
    <2>1. \A k \in 1..n + 1 : h[k].at <= clock
      <3> TAKE k \in 1..n + 1
      <3>1. CASE k \in 1..n
        BY <1>3, <1>5, <1>7, <3>1
      <3>2. CASE k = n + 1
        BY <1>3, <1>7, <3>2
      <3> QED BY <1>5, <3>1, <3>2
    <2> QED BY <1>3, <1>6, <1>7, <2>1
  <1>11. Grows(was, raw)
    BY <1>4, <1>5, <1>6, <1>7 DEF Grows
  <1>12. UNCHANGED <<clock, rows, proper, dumps, office, loaded, brought>> /\ old.hired \in SUBSET Translators
    BY DEF OldSetsStatus, OldStep, SyncInv, OldFine, DumpFine, DumpShape
  <1> QED
    BY <1>1, <1>3, <1>8, <1>9, <1>10, <1>11, <1>12, OldWrites

LEMMA NewRowIs ==
    ASSUME NEW e \in Entries, rows \in Nat, rows < MaxRows
    PROVE  NewRow(e) \in Payments /\ NewRow(e).n = rows + 1 /\ NewRow(e).kind = e.kind
  <1>1. /\ e \in [button : BOOLEAN, kind : Kinds, amount : Amounts]
        /\ MaxRows \in Nat
    BY LegacyAssumptions DEF Contents
  <1>2. rows + 1 \in RowIds
    BY <1>1 DEF RowIds
  <1>3. PICK b, k, a : b = e.button /\ k = e.kind /\ a = e.amount
    OBVIOUS
  <1>4. b \in BOOLEAN /\ k \in Kinds /\ a \in Amounts
    BY <1>1, <1>3
  <1>5. NewRow(e) = [n |-> rows + 1, button |-> b, kind |-> k, amount |-> a]
    BY <1>3 DEF NewRow
  <1> QED
    BY <1>2, <1>3, <1>4, <1>5 DEF Payments

LEMMA OldPaysKeeps ==
    ASSUME SyncInv, NEW i \in Old, NEW e \in Entries, OldPays(i, e)
    PROVE  SyncInv'
  <1>1. PICK was, r : was = old.orders[i] /\ r = NewRow(e)
    OBVIOUS
  <1>2. PICK raw : raw = [was EXCEPT !.pays = @ \cup {r}]
    OBVIOUS
  <1>3. i \in Orders(old) /\ OrderFine(was) /\ clock \in Nat /\ rows \in Nat /\ proper \in BOOLEAN /\ rows' = rows + 1
        /\ was.date <= clock /\ (\A k \in DOMAIN was.history : was.history[k].at <= clock)
        /\ \A t \in was.pays : t.n <= rows
    BY <1>1 DEF OldPays, Orders, SyncInv, SyncTyped, OldFine, DumpFine
  <1>4. r \in Payments /\ r.n = rows + 1 /\ r.kind # "expense"
    BY <1>1, <1>3, NewRowIs DEF OldPays
  <1>5. was \in [status : Statuses, date : Nat, pays : SUBSET Payments, history : Seq(OldEvents)]
    BY <1>3 DEF OrderFine, OldOrders, OldEvents
  <1>6. raw = [status |-> was.status, date |-> was.date, pays |-> was.pays \cup {r}, history |-> was.history]
    BY <1>2, <1>5
  <1>7. \A t \in was.pays : t.n \in Nat /\ t.n <= rows
    BY <1>3, <1>5 DEF Payments, RowIds
  <1>8. OrderFine(raw)
    <2>1. raw \in OldOrders
      BY <1>4, <1>5, <1>6 DEF OldOrders, OldEvents
    <2>2. \A t, u \in raw.pays : t.n = u.n => t = u
      BY <1>3, <1>4, <1>6, <1>7 DEF OrderFine
    <2>3. \A t \in raw.pays : t.kind # "expense"
      BY <1>3, <1>4, <1>6 DEF OrderFine
    <2> QED BY <1>3, <1>6, <2>1, <2>2, <2>3 DEF OrderFine
  <1>9. old' = [orders |-> [old.orders EXCEPT ![i] = raw], hired |-> old.hired, expenses |-> old.expenses]
    <2>1. old'.orders = [old.orders EXCEPT ![i] = raw]
      <3>1. old.orders \in [Old -> OldOrders \cup {NoOrder}]
        BY DEF SyncInv, OldFine, DumpFine, DumpShape
      <3> QED BY <1>1, <1>2, <1>5, <3>1, OldRecord DEF OldPays
    <2> QED BY <2>1, OldRecord DEF OldPays
  <1>10. \A t \in raw.pays : t.n <= rows'
    BY <1>3, <1>4, <1>6, <1>7
  <1>11. Grows(was, raw)
    BY <1>3, <1>6, OrderTypes DEF Grows
  <1>12. UNCHANGED <<clock, proper, dumps, office, loaded, brought>> /\ old.hired \in SUBSET Translators
    BY DEF OldPays, OldStep, SyncInv, OldFine, DumpFine, DumpShape
  <1>13. /\ rows' \in Nat /\ rows <= rows' /\ raw.date <= clock /\ proper' \in BOOLEAN
         /\ \A k \in DOMAIN raw.history : raw.history[k].at <= clock
         /\ proper' => proper /\ (i \in Orders(old) => Grows(old.orders[i], raw))
    BY <1>1, <1>3, <1>6, <1>11, <1>12
  <1> QED
    BY <1>8, <1>9, <1>10, <1>12, <1>13, OldWrites

LEMMA OldEditsPaymentKeeps ==
    ASSUME SyncInv, NEW i \in Orders(old), NEW amount \in Amounts, NEW row \in old.orders[i].pays,
           OldEditsPayment(i, row, amount)
    PROVE  SyncInv'
  <1>1. PICK was, r : was = old.orders[i] /\ r = [row EXCEPT !.amount = amount]
    OBVIOUS
  <1>2. PICK raw : raw = [was EXCEPT !.pays = (@ \ {row}) \cup {r}]
    OBVIOUS
  <1>3. i \in Old /\ OrderFine(was) /\ clock \in Nat /\ rows \in Nat /\ proper' = FALSE
        /\ was.date <= clock /\ (\A k \in DOMAIN was.history : was.history[k].at <= clock)
        /\ \A t \in was.pays : t.n <= rows
    BY <1>1 DEF OldEditsPayment, Orders, SyncInv, SyncTyped, OldFine, DumpFine
  <1>4. was \in [status : Statuses, date : Nat, pays : SUBSET Payments, history : Seq(OldEvents)]
    BY <1>3 DEF OrderFine, OldOrders, OldEvents
  <1>5. row \in was.pays /\ r \in Payments /\ r.n = row.n /\ r.kind = row.kind
    BY <1>1, <1>4 DEF Payments
  <1>6. raw = [status |-> was.status, date |-> was.date, pays |-> (was.pays \ {row}) \cup {r}, history |-> was.history]
    BY <1>2, <1>4
  <1>7. OrderFine(raw)
    <2>1. raw \in OldOrders
      BY <1>4, <1>5, <1>6 DEF OldOrders, OldEvents
    <2>2. \A t, u \in was.pays : t.n = u.n => t = u
      BY <1>3 DEF OrderFine
    <2>3. (\A t, u \in raw.pays : t.n = u.n => t = u) /\ \A t \in raw.pays : t.kind # "expense"
      BY <1>3, <1>5, <1>6, <2>2 DEF OrderFine
    <2> QED BY <1>3, <1>6, <2>1, <2>3 DEF OrderFine
  <1>8. old' = [orders |-> [old.orders EXCEPT ![i] = raw], hired |-> old.hired, expenses |-> old.expenses]
    <2>1. old'.orders = [old.orders EXCEPT ![i] = raw]
      <3>1. old.orders \in [Old -> OldOrders \cup {NoOrder}]
        BY DEF SyncInv, OldFine, DumpFine, DumpShape
      <3> QED BY <1>1, <1>2, <1>3, <1>4, <3>1, OldRecord DEF OldEditsPayment
    <2> QED BY <2>1, OldRecord DEF OldEditsPayment
  <1>9. \A t \in raw.pays : t.n <= rows
    BY <1>3, <1>5, <1>6
  <1>10. UNCHANGED <<clock, rows, dumps, office, loaded, brought>> /\ old.hired \in SUBSET Translators
    BY DEF OldEditsPayment, OldStep, SyncInv, OldFine, DumpFine, DumpShape
  <1>11. /\ rows' \in Nat /\ rows <= rows' /\ raw.date <= clock
         /\ \A k \in DOMAIN raw.history : raw.history[k].at <= clock
         /\ \A t \in raw.pays : t.n <= rows'
    BY <1>3, <1>6, <1>9, <1>10
  <1>12. proper' \in BOOLEAN /\ ~proper'
    BY <1>3
  <1> QED
    BY <1>3, <1>7, <1>8, <1>10, <1>11, <1>12, OldWrites

LEMMA OldSpendsKeeps ==
    ASSUME SyncInv, NEW e \in Entries, OldSpends(e)
    PROVE  SyncInv'
  <1>1. /\ rows \in Nat /\ rows' = rows + 1 /\ rows < MaxRows /\ clock \in Nat /\ proper \in BOOLEAN
        /\ UNCHANGED <<clock, proper, dumps, office, loaded, brought>>
    BY DEF OldSpends, OldStep, SyncInv, SyncTyped
  <1>2. /\ old \in DumpShape /\ OwnRows(old.expenses) /\ \A r \in old.expenses : r.n <= rows
        /\ \A i \in Orders(old) : old.orders[i].pays \subseteq Payments
    BY OrderTypes DEF SyncInv, OldFine, DumpFine
  <1>3. PICK row, spent, more : row = NewRow(e) /\ spent = old.expenses /\ more = spent \cup {row}
    OBVIOUS
  <1>4. row \in Payments /\ row.n = rows + 1
    BY <1>1, <1>3, NewRowIs
  <1>5. old' = [orders |-> old.orders, hired |-> old.hired, expenses |-> more]
    BY <1>3, OldRecord DEF OldSpends
  <1>6. \A r \in spent : r \in Payments /\ r.n \in Nat /\ r.n <= rows
    BY <1>2, <1>3 DEF OwnRows, Payments, RowIds
  <1>7. OwnRows(more) /\ \A r \in more : r.n <= rows'
    <2>1. \A r \in more : r \in Payments /\ r.n <= rows + 1
      BY <1>1, <1>3, <1>4, <1>6
    <2>2. \A r, s \in more : r.n = s.n => r = s
      BY <1>1, <1>2, <1>3, <1>4, <1>6 DEF OwnRows
    <2> QED BY <1>1, <2>1, <2>2 DEF OwnRows
  <1>8. /\ old' \in DumpShape /\ old'.orders = old.orders /\ Orders(old') = Orders(old)
        /\ old'.expenses = more
    BY <1>2, <1>5, <1>7 DEF DumpShape, OwnRows, Orders
  <1>9. OldFine'
    <2>1. DumpFine(old')
      BY <1>7, <1>8 DEF SyncInv, OldFine, DumpFine
    <2>2. DumpFine(old)'
      BY <2>1 DEF DumpFine, OwnRows, Orders
    <2>3. \A i \in Orders(old) : \A r \in old.orders[i].pays : r.n <= rows + 1
      BY <1>1, <1>2 DEF SyncInv, OldFine, Payments, RowIds
    <2> QED BY <1>1, <1>7, <1>8, <2>2, <2>3 DEF SyncInv, OldFine, Orders
  <1>10. Follows(old', old)
    BY <1>3, <1>8, GrowsSelf DEF Follows, SyncInv, OldFine, DumpFine
  <1> QED
    BY <1>1, <1>9, <1>10, OldKeeps

LEMMA TickKeeps ==
    ASSUME SyncInv, Tick
    PROVE  SyncInv'
  <1>1. /\ clock \in Nat /\ clock' = clock + 1 /\ rows \in Nat /\ proper \in BOOLEAN
        /\ UNCHANGED <<old, rows, proper, dumps, office, loaded, brought>>
    BY DEF Tick, SyncInv, SyncTyped
  <1>2. DumpFine(old) /\ Follows(old, old)
    BY FollowsSelf DEF SyncInv, OldFine
  <1>3. OldFine'
    <2>1. DumpFine(old)'
      BY <1>1, <1>2 DEF DumpFine, Orders
    <2>2. \A i \in Orders(old) : OrderFine(old.orders[i])
      BY <1>2 DEF DumpFine
    <2>3. \A i \in Orders(old) :
            /\ old.orders[i].date <= clock + 1
            /\ \A k \in DOMAIN old.orders[i].history : old.orders[i].history[k].at <= clock + 1
      <3> TAKE i \in Orders(old)
      <3>1. PICK raw : raw = old.orders[i]
        OBVIOUS
      <3>2. /\ raw.date \in Nat /\ raw.date <= clock
            /\ \A k \in DOMAIN raw.history : raw.history[k].at \in Nat /\ raw.history[k].at <= clock
        BY <2>2, <3>1, OrderTypes DEF SyncInv, OldFine
      <3> QED BY <1>1, <3>1, <3>2
    <2> QED BY <1>1, <2>1, <2>3 DEF SyncInv, OldFine, Orders
  <1> QED
    BY <1>1, <1>2, <1>3, OldKeeps

LEMMA TakeDumpKeeps ==
    ASSUME SyncInv, TakeDump
    PROVE  SyncInv'
  <1>1. PICK n : n = Len(dumps)
    OBVIOUS
  <1>2. /\ dumps \in Seq(DumpShape) /\ n \in Nat /\ loaded \in 0..n /\ DOMAIN dumps = 1..n
        /\ old \in DumpShape /\ DumpFine(old)
        /\ UNCHANGED <<old, clock, rows, proper, office, loaded, brought>>
        /\ dumps' = Append(dumps, old)
    BY <1>1 DEF SyncInv, SyncTyped, OldFine, DumpFine, TakeDump
  <1>3. /\ dumps' \in Seq(DumpShape) /\ Len(dumps') = n + 1 /\ DOMAIN dumps' = 1..n + 1
        /\ dumps'[n + 1] = old /\ \A k \in 1..n : dumps'[k] = dumps[k]
    BY <1>1, <1>2
  <1>4. SyncTyped'
    BY <1>2, <1>3 DEF SyncInv, SyncTyped
  <1>5. OldFine'
    BY <1>2 DEF SyncInv, OldFine, DumpFine, Orders
  <1>6. \A k \in DOMAIN dumps' : DumpFine(dumps'[k])
    BY <1>2, <1>3 DEF SyncInv
  <1>7. DumpsFollow'
    <2> SUFFICES ASSUME proper, NEW k \in 1..n + 1
                 PROVE  /\ Follows(old, dumps'[k])
                        /\ \A j \in 1..n + 1 : j <= k => Follows(dumps'[k], dumps'[j])
      BY <1>2, <1>3 DEF DumpsFollow
    <2>1. Follows(old, old) /\ \A j \in 1..n : Follows(old, dumps[j]) /\ \A m \in 1..n : m <= j => Follows(dumps[j], dumps[m])
      BY <1>2, FollowsSelf DEF SyncInv, DumpsFollow
    <2>2. CASE k = n + 1
      <3>1. \A j \in 1..n + 1 : Follows(old, dumps'[j])
        BY <1>2, <1>3, <2>1
      <3> QED BY <1>3, <2>1, <2>2, <3>1
    <2>3. CASE k \in 1..n
      <3>1. \A j \in 1..n + 1 : j <= k => j \in 1..n /\ dumps'[j] = dumps[j]
        BY <1>2, <1>3, <2>3
      <3> QED BY <1>3, <2>1, <2>3, <3>1
    <2> QED BY <1>2, <2>2, <2>3
  <1>8. (loaded' = 0 => NothingYet') /\ (loaded' > 0 => loaded' \in brought')
    BY <1>2 DEF SyncInv, NothingYet, LegacyOrders
  <1>9. proper' /\ loaded' > 0 => CaughtUp(dumps[loaded])'
    <2> SUFFICES ASSUME proper, loaded > 0 PROVE CaughtUp(dumps[loaded])'
      BY <1>2
    <2>1. PICK d : d = dumps[loaded]
      OBVIOUS
    <2>2. CaughtUp(d) /\ dumps'[loaded'] = d /\ office' = office
      BY <1>2, <1>3, <2>1 DEF SyncInv
    <2>3. brought' = brought /\ \A m \in brought : dumps'[m] = dumps[m]
      BY <1>2, <1>3 DEF SyncInv, SyncTyped
    <2>4. CaughtUp(d)'
      BY <2>2, <2>3, SameListings
    <2> QED BY <2>2, <2>4
  <1> QED
    BY <1>4, <1>5, <1>6, <1>7, <1>8, <1>9 DEF SyncInv

-----------------------------------------------------------------------------
(* A step of Office. *)

LEMMA OfficeKeeps ==
    ASSUME SyncInv, UNCHANGED <<old, clock, dumps, rows>>, office' \in OfficeShape, loaded' \in 0..Len(dumps),
           brought' \subseteq DOMAIN dumps, loaded' > 0 => loaded' \in brought',
           proper' \in BOOLEAN, proper' => proper,
           loaded' = 0 => NothingYet', proper' /\ loaded' > 0 => CaughtUp(dumps[loaded])'
    PROVE  SyncInv'
  <1>1. SyncTyped'
    BY DEF SyncInv, SyncTyped
  <1>2. OldFine' /\ (\A k \in DOMAIN dumps : DumpFine(dumps[k]))'
    BY DEF SyncInv, OldFine, DumpFine, Orders
  <1>3. DumpsFollow'
    BY DEF SyncInv, DumpsFollow, Follows, Orders
  <1> QED
    BY <1>1, <1>2, <1>3 DEF SyncInv

LEMMA StaffKeeps ==
    ASSUME SyncInv, NEW orders, NEW registered \in SUBSET Clients,
           UNCHANGED <<old, clock, dumps, rows, loaded, brought, proper>>,
           office' = [orders |-> orders, imported |-> office.imported, registered |-> registered, spent |-> office.spent],
           orders \in [Old -> OfficeOrders \cup {NoOrder}],
           \A i \in Old : orders[i] = NoOrder <=> office.orders[i] = NoOrder,
           \A i \in LegacyOrders :
              /\ orders[i].books = office.orders[i].books
              /\ orders[i].docs = office.orders[i].docs \/ orders[i].docs # 1
              /\ OnlyImported(orders[i].events) => orders[i].events = office.orders[i].events
    PROVE  SyncInv'
  <1>1. /\ office' \in OfficeShape /\ loaded' \in 0..Len(dumps) /\ proper' \in BOOLEAN
        /\ brought' \subseteq DOMAIN dumps /\ (loaded' > 0 => loaded' \in brought')
    BY DEF SyncInv, SyncTyped, OfficeShape
  <1>2. office'.orders = orders /\ office'.imported = office.imported /\ office'.spent = office.spent
    OBVIOUS
  <1>3. LegacyOrders' = LegacyOrders
    BY <1>2 DEF LegacyOrders
  <1>4. loaded' = 0 => NothingYet'
    BY <1>2, <1>3 DEF SyncInv, NothingYet
  <1>5. ASSUME proper', loaded' > 0 PROVE CaughtUp(dumps[loaded])'
    <2>1. PICK d : d = dumps[loaded]
      OBVIOUS
    <2>2. CaughtUp(d)
      BY <1>5, <2>1 DEF SyncInv
    <2>3. /\ \A i \in Old : Listings(i)' = Listings(i)
          /\ Expenses' = Expenses
      BY DEF Listings, Expenses
    <2>4. ASSUME NEW i \in Orders(d)
          PROVE  /\ BooksAgree(orders[i].books, orders[i].docs, d.orders[i].pays, Listings(i))
                 /\ EventsAgree(orders[i].events, d.orders[i])
      <3>1. PICK here, after, listings : here = office.orders[i] /\ after = orders[i] /\ listings = Listings(i)
        OBVIOUS
      <3>2. /\ after.books = here.books /\ (after.docs = here.docs \/ after.docs # 1)
            /\ OnlyImported(after.events) => after.events = here.events
        BY <2>2, <2>4, <3>1 DEF CaughtUp
      <3>3. BooksAgree(here.books, here.docs, d.orders[i].pays, listings) /\ EventsAgree(here.events, d.orders[i])
        BY <2>2, <3>1 DEF CaughtUp
      <3>4. BooksAgree(after.books, after.docs, d.orders[i].pays, listings)
        BY <3>2, <3>3 DEF BooksAgree
      <3>5. EventsAgree(after.events, d.orders[i])
        BY <3>2, <3>3 DEF EventsAgree
      <3> QED BY <3>1, <3>4, <3>5
    <2>5. dumps'[loaded'] = d
      BY <2>1
    <2>6. Orders(d) \subseteq Old
      BY DEF Orders
    <2>7. CaughtUp(d)'
      <3>1. ASSUME NEW i \in Orders(d)
            PROVE  /\ BooksAgree(office'.orders[i].books, office'.orders[i].docs, d.orders[i].pays, Listings(i)')
                   /\ EventsAgree(office'.orders[i].events, d.orders[i])
        BY <1>2, <2>3, <2>4, <2>6
      <3>2. LegacyOrders' = Orders(d) /\ BooksAgree(office'.spent, 1, d.expenses, Expenses')
        BY <1>2, <1>3, <2>2, <2>3 DEF CaughtUp
      <3>3. \A c \in Clients : office'.imported[c] <= 1
        BY <1>2, <2>2 DEF CaughtUp
      <3> QED BY <3>1, <3>2, <3>3 DEF CaughtUp
    <2> QED BY <2>5, <2>7
  <1> QED
    BY <1>1, <1>4, <1>5, OfficeKeeps

LEMMA OfficeRecord ==
    ASSUME SyncInv
    PROVE  /\ office = [orders |-> office.orders, imported |-> office.imported,
                        registered |-> office.registered, spent |-> office.spent]
           /\ office.orders \in [Old -> OfficeOrders \cup {NoOrder}] /\ office.imported \in [Clients -> Nat]
           /\ office.registered \in SUBSET Clients /\ office.spent \in [RowIds -> Nat]
           /\ \A i \in LegacyOrders : i \in Old /\ office.orders[i] \in OfficeOrders /\ office.orders[i] # NoOrder
  BY DEF SyncInv, SyncTyped, OfficeShape, LegacyOrders

LEMMA SetStatusKeeps ==
    ASSUME SyncInv, NEW i \in Old, NEW s \in Statuses, SetStatus(i, s)
    PROVE  SyncInv'
  <1>1. PICK here : here = office.orders[i]
    OBVIOUS
  <1>2. PICK e : e = [status |-> s, at |-> clock, how |-> "staff"]
    OBVIOUS
  <1>3. PICK after : after = [here EXCEPT !.events = Append(@, e)]
    OBVIOUS
  <1>4. i \in LegacyOrders /\ here \in OfficeOrders /\ clock \in Nat
    BY <1>1, OfficeRecord DEF SetStatus, SyncInv, SyncTyped
  <1>5. e \in Events
    BY <1>2, <1>4 DEF Events
  <1>6. after \in OfficeOrders /\ after.books = here.books /\ after.docs = here.docs /\ after.events = Append(here.events, e)
    <2>1. here \in [events : Seq(Events), docs : {1, 2}, books : [RowIds -> Nat]]
      BY <1>4 DEF OfficeOrders
    <2>2. Append(here.events, e) \in Seq(Events)
      BY <1>5, <2>1
    <2> QED BY <1>3, <2>1, <2>2 DEF OfficeOrders
  <1>7. ~OnlyImported(after.events)
    <2>1. PICK n : n = Len(here.events) + 1
      OBVIOUS
    <2>2. n \in DOMAIN after.events /\ after.events[n] = e
      BY <1>4, <1>5, <1>6, <2>1 DEF OfficeOrders
    <2> QED BY <1>2, <2>2 DEF OnlyImported
  <1>8. PICK orders : orders = [office.orders EXCEPT ![i] = after]
    OBVIOUS
  <1>9. office' = [orders |-> orders, imported |-> office.imported, registered |-> office.registered, spent |-> office.spent]
    <2>1. here \in [events : Seq(Events), docs : {1, 2}, books : [RowIds -> Nat]]
      BY <1>4 DEF OfficeOrders
    <2>2. office'.orders = orders
      BY <1>1, <1>2, <1>3, <1>8, <2>1, OfficeRecord DEF SetStatus
    <2> QED BY <2>2, OfficeRecord DEF SetStatus
  <1>10. after # NoOrder /\ here # NoOrder
    BY <1>4, <1>6, LegacyAssumptions
  <1>11. /\ orders \in [Old -> OfficeOrders \cup {NoOrder}]
         /\ orders[i] = after /\ \A j \in Old \ {i} : orders[j] = office.orders[j]
    BY <1>6, <1>8, OfficeRecord
  <1>12. UNCHANGED <<old, clock, dumps, rows, loaded, brought, proper>>
    BY DEF SetStatus, StaffStep
  <1>13. \A j \in Old : orders[j] = NoOrder <=> office.orders[j] = NoOrder
    BY <1>1, <1>10, <1>11
  <1>14. \A j \in LegacyOrders :
            /\ orders[j].books = office.orders[j].books
            /\ orders[j].docs = office.orders[j].docs \/ orders[j].docs # 1
            /\ OnlyImported(orders[j].events) => orders[j].events = office.orders[j].events
    BY <1>1, <1>6, <1>7, <1>11 DEF LegacyOrders
  <1> QED
    BY <1>9, <1>11, <1>12, <1>13, <1>14, OfficeRecord, StaffKeeps

LEMMA AddDocumentKeeps ==
    ASSUME SyncInv, NEW i \in Old, AddDocument(i)
    PROVE  SyncInv'
  <1>1. PICK here : here = office.orders[i]
    OBVIOUS
  <1>2. PICK after : after = [here EXCEPT !.docs = 2]
    OBVIOUS
  <1>3. i \in LegacyOrders /\ here \in OfficeOrders
    BY <1>1, OfficeRecord DEF AddDocument
  <1>4. after \in OfficeOrders /\ after.books = here.books /\ after.docs = 2 /\ after.events = here.events
    BY <1>2, <1>3 DEF OfficeOrders
  <1>5. PICK orders : orders = [office.orders EXCEPT ![i] = after]
    OBVIOUS
  <1>6. office' = [orders |-> orders, imported |-> office.imported, registered |-> office.registered, spent |-> office.spent]
    BY <1>1, <1>2, <1>5, OfficeRecord DEF AddDocument
  <1>7. after # NoOrder /\ here # NoOrder
    BY <1>3, <1>4, LegacyAssumptions
  <1>8. /\ orders \in [Old -> OfficeOrders \cup {NoOrder}]
        /\ orders[i] = after /\ \A j \in Old \ {i} : orders[j] = office.orders[j]
    BY <1>4, <1>5, OfficeRecord
  <1>9. UNCHANGED <<old, clock, dumps, rows, loaded, brought, proper>>
    BY DEF AddDocument, StaffStep
  <1>10. \A j \in Old : orders[j] = NoOrder <=> office.orders[j] = NoOrder
    BY <1>1, <1>7, <1>8
  <1>11. \A j \in LegacyOrders :
            /\ orders[j].books = office.orders[j].books
            /\ orders[j].docs = office.orders[j].docs \/ orders[j].docs # 1
            /\ OnlyImported(orders[j].events) => orders[j].events = office.orders[j].events
    BY <1>1, <1>4, <1>8 DEF LegacyOrders
  <1> QED
    BY <1>6, <1>8, <1>9, <1>10, <1>11, OfficeRecord, StaffKeeps

LEMMA RegisterClientKeeps ==
    ASSUME SyncInv, NEW c \in Clients, RegisterClient(c)
    PROVE  SyncInv'
  <1>1. office' = [orders |-> office.orders, imported |-> office.imported,
                   registered |-> office.registered \cup {c}, spent |-> office.spent]
    BY OfficeRecord DEF RegisterClient
  <1>2. UNCHANGED <<old, clock, dumps, rows, loaded, brought, proper>>
    BY DEF RegisterClient, StaffStep
  <1>3. office.registered \cup {c} \in SUBSET Clients
    BY OfficeRecord
  <1> QED
    BY <1>1, <1>2, <1>3, OfficeRecord, StaffKeeps
-----------------------------------------------------------------------------
(* Events. *)

LEMMA MappedSeq ==
    ASSUME NEW S, NEW n \in Nat, NEW f \in [1..n -> S]
    PROVE  f \in Seq(S) /\ DOMAIN f = 1..n /\ Len(f) = n
  OBVIOUS

LEMMA ImportedIs ==
    ASSUME NEW history \in Seq(OldEvents)
    PROVE  /\ Imported(history) \in Seq(Events)
           /\ Len(Imported(history)) = Len(history) /\ DOMAIN Imported(history) = DOMAIN history
           /\ \A k \in DOMAIN history :
                Imported(history)[k] = [status |-> history[k].status, at |-> history[k].at, how |-> "imported"]
           /\ OnlyImported(Imported(history))
  <1>1. PICK n : n = Len(history) /\ n \in Nat /\ DOMAIN history = 1..n
    OBVIOUS
  <1>2. PICK f : f = Imported(history)
    OBVIOUS
  <1>3. \A k \in 1..n : history[k] \in OldEvents
    BY <1>1
  <1>4. /\ f = [k \in 1..n |-> Event(history[k], "imported")]
        /\ \A k \in 1..n : f[k] = [status |-> history[k].status, at |-> history[k].at, how |-> "imported"]
    BY <1>1, <1>2 DEF Imported, Event
  <1>5. \A k \in 1..n : f[k] \in Events /\ f[k].how = "imported"
    <2> TAKE k \in 1..n
    <2>1. PICK e, h : e = f[k] /\ h = history[k]
      OBVIOUS
    <2>2. h.status \in Statuses /\ h.at \in Nat /\ e = [status |-> h.status, at |-> h.at, how |-> "imported"]
      BY <1>3, <1>4, <2>1 DEF OldEvents
    <2>3. e \in Events /\ e.how = "imported"
      BY <2>2 DEF Events
    <2> QED BY <2>1, <2>3
  <1>6. f \in [1..n -> Events]
    BY <1>4, <1>5
  <1>7. f \in Seq(Events) /\ DOMAIN f = 1..n /\ Len(f) = n
    BY <1>1, <1>6, MappedSeq
  <1> QED
    BY <1>1, <1>2, <1>4, <1>5, <1>7 DEF OnlyImported

LEMMA StampIs ==
    ASSUME NEW s \in Statuses, NEW last, clock \in Nat
    PROVE  /\ Stamp(s, last) \in Seq(Events)
           /\ s = last => Stamp(s, last) = <<>>
           /\ s # last => ~OnlyImported(Stamp(s, last))
  <1>1. PICK e : e = [status |-> s, at |-> clock, how |-> "stamped"]
    OBVIOUS
  <1>2. e \in Events /\ e.how = "stamped"
    BY <1>1 DEF Events
  <1>3. CASE s = last
    <2>1. Stamp(s, last) = <<>>
      BY <1>3 DEF Stamp
    <2> QED BY <1>3, <2>1
  <1>4. CASE s # last
    <2>1. Stamp(s, last) = <<e>>
      BY <1>1, <1>4 DEF Stamp
    <2>2. 1 \in DOMAIN <<e>> /\ <<e>>[1] = e /\ <<e>> \in Seq(Events)
      BY <1>2
    <2> QED BY <1>2, <1>4, <2>1, <2>2 DEF OnlyImported
  <1> QED
    BY <1>3, <1>4

(* A list in order ends with the latest. *)
LEMMA LatestIsLast ==
    ASSUME NEW events \in Seq(Events), events # <<>>, InOrder(events)
    PROVE  Latest(events) = Last(events).status
  <1>1. PICK n : n = Len(events) /\ n \in Nat /\ n # 0 /\ DOMAIN events = 1..n
    OBVIOUS
  <1>2. PICK newest : newest = {k \in DOMAIN events : \A j \in DOMAIN events : events[j].at <= events[k].at}
    OBVIOUS
  <1>3. n \in newest /\ newest \subseteq 1..n
    BY <1>1, <1>2 DEF InOrder
  <1>4. Max(newest) = n
    <2>1. PICK x : x = Max(newest)
      OBVIOUS
    <2>2. \A k \in newest : n >= k
      BY <1>1, <1>3
    <2>3. x \in newest /\ \A k \in newest : x >= k
      BY <1>3, <2>1, <2>2 DEF Max
    <2> QED BY <1>1, <1>3, <2>1, <2>2, <2>3
  <1> QED
    BY <1>1, <1>2, <1>4 DEF Latest, Last

LEMMA Joined ==
    ASSUME NEW a \in Seq(Events), NEW b \in Seq(Events), NEW c, c = a \o b,
           NEW m, m = Len(a), NEW n, n = Len(b)
    PROVE  /\ c \in Seq(Events) /\ m \in Nat /\ n \in Nat /\ DOMAIN a = 1..m /\ DOMAIN b = 1..n /\ DOMAIN c = 1..m + n
           /\ \A k \in 1..m : c[k] = a[k]
           /\ \A k \in 1..n : c[m + k] = b[k]
  OBVIOUS

LEMMA JoinedEvents ==
    ASSUME NEW a \in Seq(Events), NEW b \in Seq(Events)
    PROVE  /\ a \o b \in Seq(Events)
           /\ OnlyImported(a \o b) <=> OnlyImported(a) /\ OnlyImported(b)
           /\ b = <<>> => a \o b = a
  <1>1. PICK c, m, n : c = a \o b /\ m = Len(a) /\ n = Len(b)
    OBVIOUS
  <1>2. /\ c \in Seq(Events) /\ m \in Nat /\ n \in Nat /\ DOMAIN a = 1..m /\ DOMAIN b = 1..n /\ DOMAIN c = 1..m + n
        /\ \A k \in 1..m : c[k] = a[k]
        /\ \A k \in 1..n : c[m + k] = b[k]
    BY <1>1, Joined
  <1>3. OnlyImported(c) => OnlyImported(a) /\ OnlyImported(b)
    <2> SUFFICES ASSUME OnlyImported(c) PROVE OnlyImported(a) /\ OnlyImported(b)
      OBVIOUS
    <2>1. \A k \in 1..m : k \in DOMAIN c
      BY <1>2
    <2>2. \A k \in 1..n : m + k \in DOMAIN c
      BY <1>2
    <2>3. \A k \in 1..m : a[k].how = "imported"
      BY <1>2, <2>1 DEF OnlyImported
    <2>4. \A k \in 1..n : b[k].how = "imported"
      BY <1>2, <2>2 DEF OnlyImported
    <2> QED BY <1>2, <2>3, <2>4 DEF OnlyImported
  <1>4. OnlyImported(a) /\ OnlyImported(b) => OnlyImported(c)
    <2> SUFFICES ASSUME OnlyImported(a), OnlyImported(b), NEW k \in 1..m + n PROVE c[k].how = "imported"
      BY <1>2 DEF OnlyImported
    <2>1. CASE k \in 1..m
      BY <1>2, <2>1 DEF OnlyImported
    <2>2. CASE k \notin 1..m
      <3>1. PICK j : j = k - m
        OBVIOUS
      <3>2. j \in 1..n /\ m + j = k /\ j \in DOMAIN b
        BY <1>2, <2>2, <3>1
      <3> QED BY <1>2, <3>2 DEF OnlyImported
    <2> QED BY <2>1, <2>2
  <1> QED
    BY <1>1, <1>2, <1>3, <1>4

LEMMA EndsGrow ==
    ASSUME NEW before, NEW after, OrderFine(before), OrderFine(after), Grows(before, after)
    PROVE  EndsAt(before) \in Nat /\ EndsAt(after) \in Nat /\ EndsAt(before) <= EndsAt(after)
  <1>1. PICK h, u, m, n : h = before.history /\ u = after.history /\ n = Len(h) /\ m = Len(u)
    OBVIOUS
  <1>2. /\ h \in Seq(OldEvents) /\ u \in Seq(OldEvents) /\ m \in Nat /\ n \in Nat /\ DOMAIN h = 1..n /\ DOMAIN u = 1..m
        /\ \A k \in 1..n : h[k].at \in Nat
        /\ \A k \in 1..m : u[k].at \in Nat
        /\ before.date \in Nat /\ after.date \in Nat
    BY <1>1, OrderTypes
  <1>3. /\ n <= m /\ before.date = after.date /\ \A k \in 1..n : h[k] = u[k]
        /\ \A k \in 1..m : after.date <= u[k].at
        /\ \A i, j \in 1..m : i <= j => u[i].at <= u[j].at
    BY <1>1, <1>2 DEF Grows, OrderFine, InOrder
  <1>4. EndsAt(before) = (IF n = 0 THEN before.date ELSE h[n].at) /\ EndsAt(after) = (IF m = 0 THEN after.date ELSE u[m].at)
    <2>1. (h = <<>> <=> n = 0) /\ (u = <<>> <=> m = 0)
      BY <1>1, <1>2
    <2> QED BY <1>1, <2>1 DEF EndsAt, Last
  <1> QED
    BY <1>2, <1>3, <1>4

(* What a sync finds new in a history is later than what was there. *)
LEMMA AddedAreLater ==
    ASSUME NEW before, NEW after, OrderFine(before), OrderFine(after), Grows(before, after),
           NEW h, h = AddedEvents(after.history, ToSet(before.history))
    PROVE  /\ h \in Seq(OldEvents) /\ InOrder(h)
           /\ \A k \in DOMAIN h : EndsAt(before) <= h[k].at /\ h[k].at <= EndsAt(after)
  <1>1. PICK b, u, m, n : b = before.history /\ u = after.history /\ n = Len(b) /\ m = Len(u)
    OBVIOUS
  <1>2. /\ b \in Seq(OldEvents) /\ u \in Seq(OldEvents) /\ m \in Nat /\ n \in Nat /\ DOMAIN b = 1..n /\ DOMAIN u = 1..m
        /\ \A k \in 1..m : u[k].at \in Nat
        /\ before.date \in Nat /\ after.date \in Nat
    BY <1>1, OrderTypes
  <1>3. /\ n <= m /\ before.date = after.date /\ \A k \in 1..n : b[k] = u[k]
        /\ \A k \in 1..m : after.date <= u[k].at
        /\ InOrder(u)
        /\ \A i, j \in 1..m : i <= j => u[i].at <= u[j].at
    BY <1>1, <1>2 DEF Grows, OrderFine, InOrder
  <1>4. PICK seen : seen = ToSet(b)
    OBVIOUS
  <1>5. h = AddedEvents(u, seen)
    BY <1>1, <1>4
  <1>6. /\ h \in Seq(OldEvents) /\ InOrder(h)
        /\ \A k \in DOMAIN h : \E j \in 1..m : u[j] \notin seen /\ h[k] = u[j]
    BY <1>2, <1>3, <1>5, AddedEventsAre
  <1>7. EndsAt(before) = (IF n = 0 THEN before.date ELSE b[n].at) /\ EndsAt(after) = (IF m = 0 THEN after.date ELSE u[m].at)
    <2>1. (b = <<>> <=> n = 0) /\ (u = <<>> <=> m = 0)
      BY <1>1, <1>2
    <2> QED BY <1>1, <2>1 DEF EndsAt, Last
  <1>8. ASSUME NEW k \in DOMAIN h PROVE EndsAt(before) <= h[k].at /\ h[k].at <= EndsAt(after)
    <2>1. PICK j \in 1..m : u[j] \notin seen /\ h[k] = u[j]
      BY <1>6
    <2>2. j > n
      <3> SUFFICES ASSUME j <= n PROVE FALSE
        BY <1>2
      <3>1. j \in 1..n /\ u[j] = b[j] /\ j \in DOMAIN b
        BY <1>2, <1>3
      <3> QED BY <1>4, <2>1, <3>1 DEF ToSet
    <2>3. m # 0 /\ u[j].at <= u[m].at
      BY <1>2, <1>3
    <2>4. n # 0 => n \in 1..m /\ b[n] = u[n] /\ u[n].at <= u[j].at
      BY <1>2, <1>3, <2>2
    <2> QED BY <1>2, <1>3, <1>7, <2>1, <2>3, <2>4
  <1> QED
    BY <1>6, <1>8

(* An order comes over with its history, and shows its status. *)
LEMMA FirstEventsAgree ==
    ASSUME NEW raw, OrderFine(raw), clock \in Nat
    PROVE  FirstEvents(raw) \in Seq(Events) /\ EventsAgree(FirstEvents(raw), raw)
  <1>1. PICK told : told = IF raw.history = <<>> THEN <<[status |-> Initial, at |-> raw.date]>> ELSE raw.history
    OBVIOUS
  <1>2. /\ told \in Seq(OldEvents) /\ told # <<>> /\ InOrder(told)
        /\ Last(told).status = raw.status /\ Last(told).at = EndsAt(raw)
    <2>1. CASE raw.history = <<>>
      <3>1. PICK e : e = [status |-> Initial, at |-> raw.date]
        OBVIOUS
      <3>2. e \in OldEvents /\ e.at \in Nat
        BY <3>1, OrderTypes, LegacyAssumptions DEF OldEvents
      <3>3. told = <<e>>
        BY <1>1, <2>1, <3>1
      <3>4. told \in Seq(OldEvents) /\ told # <<>> /\ Last(told) = e /\ DOMAIN told = {1} /\ told[1] = e
        BY <3>2, <3>3 DEF Last
      <3>5. raw.status = Initial /\ EndsAt(raw) = raw.date
        BY <2>1 DEF OrderFine, EndsAt
      <3> QED BY <3>1, <3>2, <3>4, <3>5 DEF InOrder
    <2>2. CASE raw.history # <<>>
      BY <1>1, <2>2, OrderTypes DEF OrderFine, EndsAt
    <2> QED BY <2>1, <2>2
  <1>3. PICK events, last : events = Imported(told) /\ last = Last(told)
    OBVIOUS
  <1>4. /\ events \in Seq(Events) /\ Len(events) = Len(told) /\ DOMAIN events = DOMAIN told /\ OnlyImported(events)
        /\ \A k \in DOMAIN told : events[k].at = told[k].at /\ events[k].status = told[k].status
    <2>1. /\ events \in Seq(Events) /\ Len(events) = Len(told) /\ DOMAIN events = DOMAIN told /\ OnlyImported(events)
          /\ \A k \in DOMAIN told : events[k] = [status |-> told[k].status, at |-> told[k].at, how |-> "imported"]
      BY <1>2, <1>3, ImportedIs
    <2> QED BY <2>1
  <1>5. PICK n : n = Len(told) /\ n \in Nat /\ n # 0 /\ DOMAIN told = 1..n
    BY <1>2
  <1>6. events # <<>> /\ Last(events) = events[n] /\ last = told[n]
    BY <1>3, <1>4, <1>5 DEF Last
  <1>7. InOrder(events)
    BY <1>2, <1>4 DEF InOrder
  <1>8. Last(events).status = raw.status /\ Last(events).at = EndsAt(raw)
    BY <1>2, <1>3, <1>4, <1>5, <1>6
  <1>9. FirstEvents(raw) = events
    <2>1. FirstEvents(raw) = events \o Stamp(raw.status, last.status)
      BY <1>1, <1>3 DEF FirstEvents
    <2>2. Stamp(raw.status, last.status) = <<>>
      BY <1>2, <1>3 DEF Stamp
    <2> QED BY <1>4, <2>1, <2>2
  <1>10. EndsAt(raw) \in Nat
    BY EndsGrow, GrowsSelf
  <1> QED
    BY <1>4, <1>6, <1>7, <1>8, <1>9, <1>10 DEF EventsAgree

LEMMA DeltaIs ==
    ASSUME NEW before, NEW after, OrderFine(before), OrderFine(after)
    PROVE  /\ Delta(after, before).history = AddedEvents(after.history, ToSet(before.history))
           /\ Delta(after, before).pays = Added(after.pays, before.pays)
           /\ Delta(after, before).status = after.status
           /\ Delta(after, before).was = before.status
           /\ Delta(after, before).history \in Seq(OldEvents)
           /\ Delta(after, before).pays \subseteq Payments
  <1>1. /\ Delta(after, before).history = AddedEvents(after.history, ToSet(before.history))
        /\ Delta(after, before).pays = Added(after.pays, before.pays)
        /\ Delta(after, before).status = after.status
        /\ Delta(after, before).was = before.status
    BY DEF Delta
  <1>2. AddedEvents(after.history, ToSet(before.history)) \in Seq(OldEvents)
    BY OrderTypes, AddedEventsAre DEF OrderFine
  <1>3. Added(after.pays, before.pays) \subseteq after.pays
    BY DEF Added
  <1> QED
    BY <1>1, <1>2, <1>3, OrderTypes

LEMMA MoreEventsTyped ==
    ASSUME NEW events \in Seq(Events), NEW delta, delta.history \in Seq(OldEvents), delta.status \in Statuses, clock \in Nat
    PROVE  MoreEvents(events, delta) \in Seq(Events)
  <1>1. PICK last : last = IF delta.history = <<>> THEN Latest(events) ELSE Last(delta.history).status
    OBVIOUS
  <1>2. PICK a, b : a = Imported(delta.history) /\ b = Stamp(delta.status, last)
    OBVIOUS
  <1>3. a \o b \in Seq(Events)
    BY <1>2, ImportedIs, StampIs, JoinedEvents
  <1>4. MoreEvents(events, delta) = <<>> \/ MoreEvents(events, delta) = a \o b
    BY <1>1, <1>2 DEF MoreEvents
  <1>5. PICK more : more = MoreEvents(events, delta)
    OBVIOUS
  <1>6. more \in Seq(Events)
    <2>1. CASE more = <<>>
      BY <2>1
    <2>2. CASE more = a \o b
      BY <1>3, <2>2
    <2> QED BY <1>4, <1>5, <2>1, <2>2
  <1> QED
    BY <1>5, <1>6

(* A sync: events that all came over end where the history does now. *)
LEMMA MoreEventsAgree ==
    ASSUME NEW before, NEW after, OrderFine(before), OrderFine(after), Grows(before, after), clock \in Nat,
           NEW events \in Seq(Events), EventsAgree(events, before)
    PROVE  EventsAgree(events \o MoreEvents(events, Delta(after, before)), after)
  <1>1. PICK delta, h, more, new :
            /\ delta = Delta(after, before) /\ h = delta.history
            /\ more = MoreEvents(events, delta) /\ new = events \o more
    OBVIOUS
  <1>2. /\ h = AddedEvents(after.history, ToSet(before.history)) /\ h \in Seq(OldEvents)
        /\ delta.status = after.status /\ delta.was = before.status
    BY <1>1, DeltaIs
  <1>3. after.status \in Statuses /\ more \in Seq(Events)
    BY <1>1, <1>2, OrderTypes, MoreEventsTyped
  <1>4. SUFFICES ASSUME OnlyImported(new)
                 PROVE  /\ new # <<>> /\ InOrder(new)
                        /\ Last(new).status = after.status /\ Last(new).at <= EndsAt(after)
    BY <1>1 DEF EventsAgree
  <1>5. OnlyImported(events) /\ OnlyImported(more)
    BY <1>1, <1>3, <1>4, JoinedEvents
  <1>6. events # <<>> /\ InOrder(events) /\ Last(events).status = before.status /\ Last(events).at <= EndsAt(before)
    BY <1>5 DEF EventsAgree
  <1>7. Latest(events) = before.status
    BY <1>6, LatestIsLast
  <1>8. PICK m : m = Len(events) /\ m \in Nat /\ m # 0 /\ DOMAIN events = 1..m /\ Last(events) = events[m]
    BY <1>6 DEF Last
  <1>9. Last(events).at \in Nat /\ EndsAt(before) \in Nat /\ EndsAt(after) \in Nat /\ EndsAt(before) <= EndsAt(after)
    <2>1. events[m] \in Events
      BY <1>8
    <2>2. Last(events).at \in Nat
      BY <1>8, <2>1 DEF Events
    <2> QED BY <2>2, EndsGrow
  <1>10. ASSUME more = <<>>, before.status = after.status
         PROVE  /\ new # <<>> /\ InOrder(new)
                /\ Last(new).status = after.status /\ Last(new).at <= EndsAt(after)
    <2>1. new = events
      BY <1>1, <1>10
    <2> QED BY <1>6, <1>9, <1>10, <2>1
  <1>11. CASE h = <<>> /\ delta.status = delta.was
    <2>1. more = <<>>
      BY <1>1, <1>11 DEF MoreEvents
    <2> QED BY <1>2, <1>10, <1>11, <2>1
  <1>12. CASE ~(h = <<>> /\ delta.status = delta.was)
    <2>1. PICK last : last = IF h = <<>> THEN Latest(events) ELSE Last(h).status
      OBVIOUS
    <2>2. PICK a, b : a = Imported(h) /\ b = Stamp(after.status, last)
      OBVIOUS
    <2>3. more = a \o b
      BY <1>1, <1>2, <1>7, <1>12, <2>1, <2>2 DEF MoreEvents, Untouched
    <2>4. a \in Seq(Events) /\ b \in Seq(Events) /\ Len(a) = Len(h) /\ DOMAIN a = DOMAIN h
          /\ \A k \in DOMAIN h : a[k].at = h[k].at /\ a[k].status = h[k].status
      <3>1. a \in Seq(Events) /\ Len(a) = Len(h) /\ DOMAIN a = DOMAIN h
            /\ \A k \in DOMAIN h : a[k] = [status |-> h[k].status, at |-> h[k].at, how |-> "imported"]
        BY <1>2, <2>2, ImportedIs
      <3>2. b \in Seq(Events)
        BY <1>3, <2>2, StampIs
      <3> QED BY <3>1, <3>2
    <2>5. OnlyImported(b)
      BY <1>5, <2>3, <2>4, JoinedEvents
    <2>6. after.status = last /\ b = <<>>
      BY <1>3, <2>2, <2>5, StampIs
    <2>7. more = a
      BY <2>3, <2>4, <2>6
    <2>8. CASE h = <<>>
      <3>1. more = <<>> /\ before.status = after.status
        BY <1>7, <2>1, <2>4, <2>6, <2>7, <2>8
      <3> QED BY <1>10, <3>1
    <2>9. CASE h # <<>>
      <3>1. PICK n : n = Len(h) /\ n \in Nat /\ n # 0 /\ DOMAIN h = 1..n /\ Last(h) = h[n]
        BY <1>2, <2>9 DEF Last
      <3>2. /\ new \in Seq(Events) /\ DOMAIN new = 1..m + n
            /\ \A k \in 1..m : new[k] = events[k]
            /\ \A k \in 1..n : new[m + k] = a[k]
        <4>1. new = events \o a /\ Len(a) = n /\ a \in Seq(Events) /\ Len(events) = m /\ events \in Seq(Events)
          BY <1>1, <1>8, <2>4, <2>7, <3>1
        <4>2. PICK joined : joined = events \o a
          OBVIOUS
        <4>3. events \in Seq(Events) /\ a \in Seq(Events) /\ joined = events \o a /\ m = Len(events) /\ n = Len(a)
          BY <4>1, <4>2
        <4>4. /\ joined \in Seq(Events) /\ DOMAIN joined = 1..m + n
              /\ \A k \in 1..m : joined[k] = events[k]
              /\ \A k \in 1..n : joined[m + k] = a[k]
          BY <4>3, Joined
        <4> QED BY <4>1, <4>2, <4>4
      <3>3. InOrder(h) /\ \A k \in 1..n : EndsAt(before) <= h[k].at /\ h[k].at <= EndsAt(after)
        BY <1>2, <3>1, AddedAreLater
      <3>4. \A k \in 1..n : h[k].at \in Nat /\ a[k].at = h[k].at
        <4>1. \A k \in 1..n : h[k] \in OldEvents
          BY <1>2, <3>1
        <4> QED BY <2>4, <3>1, <4>1 DEF OldEvents
      <3>5. \A k \in 1..m : events[k].at \in Nat /\ events[k].at <= events[m].at
        <4>1. \A k \in 1..m : events[k] \in Events
          BY <1>8
        <4> QED BY <1>6, <1>8, <4>1 DEF Events, InOrder
      <3>6. InOrder(new)
        <4> SUFFICES ASSUME NEW i \in 1..m + n, NEW j \in 1..m + n, i <= j PROVE new[i].at <= new[j].at
          BY <3>2 DEF InOrder
        <4>1. CASE j <= m
          <5>1. i \in 1..m /\ j \in 1..m
            BY <1>8, <4>1
          <5> QED BY <1>6, <1>8, <3>2, <5>1 DEF InOrder
        <4>2. CASE i <= m /\ j > m
          <5>1. PICK k : k = j - m
            OBVIOUS
          <5>2. k \in 1..n /\ j = m + k /\ i \in 1..m
            BY <1>8, <3>1, <4>2, <5>1
          <5>3. new[i] = events[i] /\ new[j] = a[k] /\ a[k].at = h[k].at
            BY <3>2, <3>4, <5>2
          <5>4. events[i].at <= events[m].at /\ events[m].at <= EndsAt(before) /\ EndsAt(before) <= h[k].at
            BY <1>6, <1>8, <3>3, <3>5, <5>2
          <5>5. events[i].at \in Nat /\ events[m].at \in Nat /\ h[k].at \in Nat
            BY <1>8, <3>4, <3>5, <5>2
          <5>6. events[i].at <= h[k].at
            <6>1. PICK x, y, z : x = events[m].at /\ y = EndsAt(before) /\ z = h[k].at
              OBVIOUS
            <6>2. events[i].at \in Nat /\ x \in Nat /\ y \in Nat /\ z \in Nat
              BY <1>9, <5>5, <6>1
            <6>3. events[i].at <= x /\ x <= y /\ y <= z
              BY <5>4, <6>1
            <6> QED BY <6>1, <6>2, <6>3
          <5> QED BY <5>3, <5>6
        <4>3. CASE i > m
          <5>1. PICK k, l : k = i - m /\ l = j - m
            OBVIOUS
          <5>2. k \in 1..n /\ l \in 1..n /\ k <= l /\ i = m + k /\ j = m + l
            BY <1>8, <3>1, <4>3, <5>1
          <5>3. new[i] = a[k] /\ new[j] = a[l] /\ a[k].at = h[k].at /\ a[l].at = h[l].at
            BY <3>2, <3>4, <5>2
          <5>4. h[k].at <= h[l].at
            BY <3>1, <3>3, <5>2 DEF InOrder
          <5> QED BY <5>3, <5>4
        <4> QED BY <1>8, <4>1, <4>2, <4>3
      <3>7. Last(new) = a[n] /\ new # <<>>
        BY <1>8, <3>1, <3>2 DEF Last
      <3>8. a[n].status = h[n].status /\ a[n].at = h[n].at /\ h[n].at <= EndsAt(after)
        BY <2>4, <3>1, <3>3
      <3> QED BY <2>1, <2>6, <2>9, <3>1, <3>6, <3>7, <3>8
    <2> QED BY <2>8, <2>9
  <1> QED
    BY <1>11, <1>12
-----------------------------------------------------------------------------
(* What the command writes: payments into the books. *)

LEMMA AmountOfIs ==
    ASSUME NEW pays, OwnRows(pays), NEW id
    PROVE  /\ AmountOf(pays, id) \in Nat
           /\ \A r \in pays : r.n = id => AmountOf(pays, id) = r.amount
           /\ (\A r \in pays : r.n # id) => AmountOf(pays, id) = 0
  <1>1. \A r \in pays : r.amount \in Nat
    BY LegacyAssumptions DEF OwnRows, Payments
  <1>2. CASE \E r \in pays : r.n = id
    <2>1. PICK r \in pays : r.n = id
      BY <1>2
    <2>2. PICK s : s = CHOOSE t \in pays : t.n = id
      OBVIOUS
    <2>3. s \in pays /\ s.n = id
      BY <2>1, <2>2
    <2>4. AmountOf(pays, id) = s.amount
      BY <2>1, <2>2 DEF AmountOf
    <2> QED BY <1>1, <2>1, <2>3, <2>4 DEF OwnRows
  <1>3. CASE \A r \in pays : r.n # id
    <2>1. AmountOf(pays, id) = 0
      BY <1>3 DEF AmountOf
    <2> QED BY <1>3, <2>1
  <1> QED
    BY <1>2, <1>3

LEMMA BookedIs ==
    ASSUME NEW book \in [RowIds -> Nat], NEW pays, OwnRows(pays)
    PROVE  /\ Booked(book, pays) \in [RowIds -> Nat]
           /\ \A id \in RowIds : Booked(book, pays)[id] = book[id] + AmountOf(pays, id)
  <1>1. \A id \in RowIds : AmountOf(pays, id) \in Nat
    BY AmountOfIs
  <1>2. \A id \in RowIds : book[id] + AmountOf(pays, id) \in Nat
    BY <1>1
  <1> QED
    BY <1>2 DEF Booked

LEMMA PaysOwnRows ==
    ASSUME NEW raw, OrderFine(raw), NEW some \in SUBSET raw.pays
    PROVE  OwnRows(some)
  BY OrderTypes DEF OrderFine, OwnRows

LEMMA NewOrderIs ==
    ASSUME NEW raw, OrderFine(raw), clock \in Nat
    PROVE  /\ NewOrder(raw) \in OfficeOrders /\ NewOrder(raw) # NoOrder
           /\ \A listings : BooksAgree(NewOrder(raw).books, NewOrder(raw).docs, raw.pays, listings)
           /\ EventsAgree(NewOrder(raw).events, raw)
  <1>1. PICK events, books, pays : events = FirstEvents(raw) /\ books = Booked(NoBooks, raw.pays) /\ pays = raw.pays
    OBVIOUS
  <1>2. PICK here : here = [events |-> events, docs |-> 1, books |-> books]
    OBVIOUS
  <1>3. here = NewOrder(raw)
    BY <1>1, <1>2 DEF NewOrder
  <1>4. events \in Seq(Events) /\ EventsAgree(events, raw)
    BY <1>1, FirstEventsAgree
  <1>5. OwnRows(pays)
    BY <1>1, PaysOwnRows
  <1>6. NoBooks \in [RowIds -> Nat] /\ \A id \in RowIds : NoBooks[id] = 0
    BY DEF NoBooks
  <1>7. /\ books \in [RowIds -> Nat]
        /\ \A id \in RowIds : books[id] = NoBooks[id] + AmountOf(pays, id) /\ AmountOf(pays, id) \in Nat
    BY <1>1, <1>5, <1>6, BookedIs, AmountOfIs
  <1>8. \A id \in RowIds : books[id] = AmountOf(pays, id)
    BY <1>6, <1>7
  <1>9. here \in OfficeOrders
    BY <1>2, <1>4, <1>7 DEF OfficeOrders
  <1>10. ASSUME NEW listings PROVE BooksAgree(books, 1, pays, listings)
    <2>1. ASSUME NEW r \in pays PROVE books[r.n] = r.amount
      <3>1. r.n \in RowIds
        BY <1>5 DEF OwnRows, Payments
      <3>2. AmountOf(pays, r.n) = r.amount
        BY <1>5, AmountOfIs
      <3> QED BY <1>8, <3>1, <3>2
    <2>2. ASSUME NEW id \in RowIds, \A r \in pays : r.n # id PROVE books[id] = 0
      <3>1. AmountOf(pays, id) = 0
        BY <1>5, <2>2, AmountOfIs
      <3> QED BY <1>8, <3>1
    <2> QED BY <2>1, <2>2 DEF BooksAgree
  <1>11. here.events = events /\ here.docs = 1 /\ here.books = books /\ here # NoOrder
    BY <1>2, <1>9, LegacyAssumptions
  <1> QED
    BY <1>1, <1>3, <1>4, <1>9, <1>10, <1>11

MostPlaced(placed, a, b, docs) ==
    /\ placed \in SUBSET Added(a, b)
    /\ \A r \in Added(a, b) : r \in placed \/ (r.kind # "client" /\ docs # 1)

BookedOn(more, book, placed) == \A id \in RowIds : more[id] = book[id] + AmountOf(placed, id)

(***************************************************************************)
(* A list of rows, later: what is placed is what is new, less what staff's *)
(* documents leave no room for.  A row that is not new and was not there   *)
(* before is like one that was.                                            *)
(***************************************************************************)
LEMMA MoreBooksAgree ==
    ASSUME NEW b, NEW a, OwnRows(a), b \subseteq a, NEW docs,
           NEW book \in [RowIds -> Nat], NEW listings, BooksAgree(book, docs, b, listings),
           NEW placed, MostPlaced(placed, a, b, docs),
           NEW more, BookedOn(more, book, placed),
           NEW later, listings \subseteq later, b \in later
    PROVE  BooksAgree(more, docs, a, later)
  <1>0. /\ placed \in SUBSET Added(a, b)
        /\ \A r \in Added(a, b) : r \in placed \/ (r.kind # "client" /\ docs # 1)
        /\ \A id \in RowIds : more[id] = book[id] + AmountOf(placed, id)
    BY DEF MostPlaced, BookedOn
  <1>1. OwnRows(placed) /\ placed \subseteq a
    BY <1>0 DEF OwnRows, Added
  <1>2. \A r, s \in a : r.n = s.n => r = s
    BY DEF OwnRows
  <1>3. \A r \in a : r.n \in RowIds /\ r.amount \in Nat
    BY LegacyAssumptions DEF OwnRows, Payments
  <1>4. /\ \A r \in placed : AmountOf(placed, r.n) = r.amount
        /\ \A id : (\A r \in placed : r.n # id) => AmountOf(placed, id) = 0
    BY <1>1, AmountOfIs
  <1>5. \A r \in placed : r \notin b
    BY <1>0 DEF Added
  <1>6. \A r : TakenForOld(r, listings) => TakenForOld(r, later)
    BY DEF TakenForOld
  <1>7. ASSUME NEW r \in a
        PROVE  \/ more[r.n] = r.amount
               \/ more[r.n] = 0 /\ ((r.kind # "client" /\ docs # 1) \/ TakenForOld(r, later))
    <2>1. r.n \in RowIds /\ r.amount \in Nat /\ more[r.n] = book[r.n] + AmountOf(placed, r.n) /\ book[r.n] \in Nat
      BY <1>0, <1>3
    <2>2. CASE r \in b
      <3>1. \A s \in placed : s.n # r.n
        BY <1>1, <1>2, <1>5, <2>2
      <3>2. AmountOf(placed, r.n) = 0
        BY <1>4, <3>1
      <3>3. more[r.n] = book[r.n]
        BY <2>1, <3>2
      <3>4. \/ book[r.n] = r.amount
            \/ book[r.n] = 0 /\ ((r.kind # "client" /\ docs # 1) \/ TakenForOld(r, listings))
        BY <2>2 DEF BooksAgree
      <3> QED BY <1>6, <3>3, <3>4
    <2>3. CASE r \notin b
      <3>1. \A s \in b : s.n # r.n
        BY <1>2, <2>3
      <3>2. book[r.n] = 0
        BY <2>1, <3>1 DEF BooksAgree
      <3>3. CASE r \in placed
        <4>1. AmountOf(placed, r.n) = r.amount
          BY <1>4, <3>3
        <4> QED BY <2>1, <3>2, <4>1
      <3>4. CASE r \notin placed
        <4>1. \A s \in placed : s.n # r.n
          BY <1>1, <1>2, <3>4
        <4>2. AmountOf(placed, r.n) = 0
          BY <1>4, <4>1
        <4>3. more[r.n] = 0
          BY <2>1, <3>2, <4>2
        <4>4. CASE r \in Added(a, b)
          BY <1>0, <3>4, <4>3, <4>4
        <4>5. CASE r \notin Added(a, b)
          <5>1. \E q \in b : Identity(q) = Identity(r)
            BY <4>5 DEF Added
          <5>2. TakenForOld(r, later)
            BY <2>3, <5>1 DEF TakenForOld
          <5> QED BY <4>3, <5>2
        <4> QED BY <4>4, <4>5
      <3> QED BY <3>3, <3>4
    <2> QED BY <2>2, <2>3
  <1>8. ASSUME NEW id \in RowIds, \A r \in a : r.n # id PROVE more[id] = 0
    <2>1. (\A r \in b : r.n # id) /\ \A r \in placed : r.n # id
      BY <1>1, <1>8
    <2>2. book[id] = 0 /\ AmountOf(placed, id) = 0
      BY <1>4, <2>1 DEF BooksAgree
    <2> QED BY <1>0, <2>2
  <1> QED
    BY <1>7, <1>8 DEF BooksAgree

(* The expenses have no documents to place them on. *)
LEMMA ExpensesAgree ==
    ASSUME NEW b, NEW a, OwnRows(a), b \subseteq a,
           NEW book \in [RowIds -> Nat], NEW listings, BooksAgree(book, 1, b, listings),
           NEW later, listings \subseteq later, b \in later
    PROVE  BooksAgree(Booked(book, Added(a, b)), 1, a, later)
  <1>1. PICK new, more : new = Added(a, b) /\ more = Booked(book, new)
    OBVIOUS
  <1>2. OwnRows(new)
    BY <1>1 DEF OwnRows, Added
  <1>3. BookedOn(more, book, new)
    BY <1>1, <1>2, BookedIs DEF BookedOn
  <1>4. MostPlaced(new, a, b, 1)
    BY <1>1 DEF MostPlaced
  <1>5. BooksAgree(more, 1, a, later)
    BY <1>3, <1>4, MoreBooksAgree
  <1> QED
    BY <1>1, <1>5

-----------------------------------------------------------------------------
(* What the command writes: clients. *)

(* A client with a row of the import's making gets no other from a sync. *)
LEMMA WithClientsIs ==
    ASSUME SyncInv, NEW wanted, NEW sync \in BOOLEAN
    PROVE  /\ WithClients(wanted, sync) \in [Clients -> Nat]
           /\ \A c \in Clients :
                /\ WithClients(wanted, sync)[c] <= office.imported[c] + 1
                /\ sync /\ office.imported[c] > 0 => WithClients(wanted, sync)[c] = office.imported[c]
  <1>1. PICK book : book = office.imported
    OBVIOUS
  <1>2. book \in [Clients -> Nat]
    BY <1>1, OfficeRecord
  <1>3. ASSUME NEW c \in Clients
        PROVE  /\ WithClients(wanted, sync)[c] = book[c] \/ WithClients(wanted, sync)[c] = book[c] + 1
               /\ sync /\ book[c] > 0 => WithClients(wanted, sync)[c] = book[c]
    <2>1. WithClients(wanted, sync)[c] = book[c] + IF c \in wanted /\ ~Known(c, sync) THEN 1 ELSE 0
      BY <1>1 DEF WithClients
    <2>2. sync /\ book[c] > 0 => Known(c, sync)
      BY <1>1 DEF Known, InOffice
    <2>3. book[c] \in Nat
      BY <1>2
    <2> QED BY <2>1, <2>2, <2>3
  <1>4. WithClients(wanted, sync) = [c \in Clients |-> WithClients(wanted, sync)[c]]
    BY DEF WithClients
  <1>5. \A c \in Clients : book[c] \in Nat /\ WithClients(wanted, sync)[c] \in Nat
    BY <1>2, <1>3
  <1>6. WithClients(wanted, sync) \in [Clients -> Nat]
    BY <1>4, <1>5
  <1>7. ASSUME NEW c \in Clients
        PROVE  /\ WithClients(wanted, sync)[c] <= book[c] + 1
               /\ sync /\ book[c] > 0 => WithClients(wanted, sync)[c] = book[c]
    BY <1>3, <1>5
  <1> QED
    BY <1>1, <1>6, <1>7

-----------------------------------------------------------------------------
(* The command. *)

(* A run that loads a dump adds it to those brought over. *)
LEMMA OneMoreListing ==
    ASSUME NEW k, brought' = brought \cup {k}, dumps' = dumps
    PROVE  /\ \A i : Listings(i)' = Listings(i) \cup {Listed(dumps[k], i)}
           /\ Expenses' = Expenses \cup {dumps[k].expenses}
  BY DEF Listings, Expenses

LEMMA ImportKeeps ==
    ASSUME SyncInv, UNCHANGED <<old, clock, dumps, rows>>, NEW k \in DOMAIN dumps, loaded' = k,
           brought' = brought \cup {k}, NEW d, d = dumps[k],
           proper' \in BOOLEAN, proper' => proper,
           NEW orders \in [Old -> OfficeOrders \cup {NoOrder}], NEW imported \in [Clients -> Nat], NEW spent \in [RowIds -> Nat],
           office' = [orders |-> orders, imported |-> imported, registered |-> office.registered, spent |-> spent],
           proper' => /\ \A i \in Old : orders[i] # NoOrder <=> i \in Orders(d)
                      /\ \A i \in Orders(d) :
                            /\ BooksAgree(orders[i].books, orders[i].docs, d.orders[i].pays,
                                          Listings(i) \cup {Listed(d, i)})
                            /\ EventsAgree(orders[i].events, d.orders[i])
                      /\ BooksAgree(spent, 1, d.expenses, Expenses \cup {d.expenses})
                      /\ \A c \in Clients : imported[c] <= 1
    PROVE  SyncInv'
  <1>1. office' \in OfficeShape
    BY OfficeRecord DEF OfficeShape
  <1>2. /\ k \in 1..Len(dumps) /\ loaded' \in 0..Len(dumps) /\ loaded' # 0 /\ dumps'[loaded'] = d
        /\ brought' \subseteq DOMAIN dumps /\ loaded' \in brought'
    BY DEF SyncInv, SyncTyped
  <1>3. office'.orders = orders /\ office'.imported = imported /\ office'.spent = spent
    OBVIOUS
  <1>4. ASSUME proper' PROVE CaughtUp(dumps[loaded])'
    <2>1. LegacyOrders' = {i \in Old : orders[i] # NoOrder}
      BY <1>3 DEF LegacyOrders
    <2>2. Orders(d) \subseteq Old
      BY DEF Orders
    <2>3. LegacyOrders' = Orders(d)
      BY <1>4, <2>1, <2>2
    <2>4. /\ \A i : Listings(i)' = Listings(i) \cup {Listed(d, i)}
          /\ Expenses' = Expenses \cup {d.expenses}
      BY OneMoreListing
    <2>5. ASSUME NEW i \in Orders(d)
          PROVE  /\ BooksAgree(office'.orders[i].books, office'.orders[i].docs, d.orders[i].pays, Listings(i)')
                 /\ EventsAgree(office'.orders[i].events, d.orders[i])
      BY <1>3, <1>4, <2>4
    <2>6. BooksAgree(office'.spent, 1, d.expenses, Expenses')
      BY <1>3, <1>4, <2>4
    <2>7. \A c \in Clients : office'.imported[c] <= 1
      BY <1>3, <1>4
    <2>8. CaughtUp(d)'
      BY <2>3, <2>5, <2>6, <2>7 DEF CaughtUp
    <2> QED BY <1>2, <2>8
  <1> QED
    BY <1>1, <1>2, <1>4, OfficeKeeps

LEMMA FullImportKeeps ==
    ASSUME SyncInv, NEW keep \in BOOLEAN, FullImport(keep)
    PROVE  SyncInv'
  <1>1. PICK k, d : k = Len(dumps) /\ d = dumps[k]
    OBVIOUS
  <1>2. PICK orders, imported, spent :
            /\ orders = [i \in Old |-> IF i \in Orders(d) THEN NewOrder(d.orders[i]) ELSE NoOrder]
            /\ imported = WithClients(DumpClients(d), FALSE)
            /\ spent = Booked(office.spent, d.expenses)
    OBVIOUS
  <1>3. office' = [office EXCEPT !.orders = orders, !.imported = imported, !.spent = spent]
    BY <1>1, <1>2 DEF FullImport
  <1>4. office' = [orders |-> orders, imported |-> imported, registered |-> office.registered, spent |-> spent]
    BY <1>3, OfficeRecord
  <1>5. loaded' = k /\ brought' = brought \cup {k} /\ UNCHANGED <<old, clock, dumps, rows>> /\ dumps # <<>>
    BY <1>1 DEF FullImport
  <1>6. k \in DOMAIN dumps /\ DumpFine(d) /\ clock \in Nat
    BY <1>1, <1>5 DEF SyncInv, SyncTyped
  <1>7. proper' \in BOOLEAN /\ (proper' => proper /\ loaded = 0)
    BY DEF FullImport, SyncInv, SyncTyped
  <1>8. ASSUME NEW i \in Orders(d)
        PROVE  /\ i \in Old /\ orders[i] = NewOrder(d.orders[i])
               /\ orders[i] \in OfficeOrders /\ orders[i] # NoOrder
               /\ \A listings : BooksAgree(orders[i].books, orders[i].docs, d.orders[i].pays, listings)
               /\ EventsAgree(orders[i].events, d.orders[i])
    <2>1. i \in Old /\ OrderFine(d.orders[i])
      BY <1>6 DEF DumpFine, Orders
    <2>2. orders[i] = NewOrder(d.orders[i])
      BY <1>2, <2>1
    <2> QED BY <1>6, <2>1, <2>2, NewOrderIs
  <1>9. \A i \in Old : i \notin Orders(d) => orders[i] = NoOrder
    BY <1>2
  <1>10. orders \in [Old -> OfficeOrders \cup {NoOrder}]
    <2>1. \A i \in Old : orders[i] \in OfficeOrders \cup {NoOrder}
      BY <1>8, <1>9
    <2>2. orders = [i \in Old |-> orders[i]]
      BY <1>2
    <2> QED BY <2>1, <2>2
  <1>11. imported \in [Clients -> Nat] /\ \A c \in Clients : imported[c] <= office.imported[c] + 1
    BY <1>2, WithClientsIs
  <1>12. OwnRows(d.expenses) /\ spent \in [RowIds -> Nat]
         /\ \A id \in RowIds : spent[id] = office.spent[id] + AmountOf(d.expenses, id)
    <2>1. OwnRows(d.expenses)
      BY <1>6 DEF DumpFine
    <2> QED BY <1>2, <2>1, OfficeRecord, BookedIs
  <1>13. ASSUME proper'
         PROVE  /\ \A i \in Old : orders[i] # NoOrder <=> i \in Orders(d)
                /\ \A i \in Orders(d) :
                      /\ BooksAgree(orders[i].books, orders[i].docs, d.orders[i].pays,
                                    Listings(i) \cup {Listed(d, i)})
                      /\ EventsAgree(orders[i].events, d.orders[i])
                /\ BooksAgree(spent, 1, d.expenses, Expenses \cup {d.expenses})
                /\ \A c \in Clients : imported[c] <= 1
    <2>1. NothingYet
      BY <1>7, <1>13 DEF SyncInv
    <2>2. BooksAgree(spent, 1, d.expenses, Expenses \cup {d.expenses})
      <3>1. PICK pays : pays = d.expenses
        OBVIOUS
      <3>2. /\ \A id \in RowIds : AmountOf(pays, id) \in Nat
            /\ \A r \in pays : r.n \in RowIds /\ AmountOf(pays, r.n) = r.amount
            /\ \A id \in RowIds : (\A r \in pays : r.n # id) => AmountOf(pays, id) = 0
        BY <1>12, <3>1, AmountOfIs DEF OwnRows, Payments
      <3>3. \A id \in RowIds : spent[id] = AmountOf(pays, id)
        BY <1>12, <2>1, <3>1, <3>2 DEF NothingYet
      <3> QED BY <3>1, <3>2, <3>3 DEF BooksAgree
    <2>3. \A c \in Clients : imported[c] <= 1
      BY <1>11, <2>1 DEF NothingYet
    <2> QED BY <1>8, <1>9, <2>2, <2>3
  <1> QED
    BY <1>1, <1>4, <1>5, <1>6, <1>7, <1>10, <1>11, <1>12, <1>13, ImportKeeps

LEMMA UpdatedKeeps ==
    ASSUME SyncInv, NEW i \in LegacyOrders, NEW before, NEW after, OrderFine(before), OrderFine(after), NEW covered,
           NEW there,
           there = Updated(i, Delta(after, before), covered),
           NEW listings, NEW later, listings \subseteq later, before.pays \in later
    PROVE  /\ there \in OfficeOrders /\ there # NoOrder
           /\ /\ Grows(before, after) /\ ~Refused(i, Delta(after, before).pays, covered)
              /\ BooksAgree(office.orders[i].books, office.orders[i].docs, before.pays, listings)
              /\ EventsAgree(office.orders[i].events, before)
              => BooksAgree(there.books, there.docs, after.pays, later) /\ EventsAgree(there.events, after)
  <1>1. PICK here, delta : here = office.orders[i] /\ delta = Delta(after, before)
    OBVIOUS
  <1>2. PICK events, docs, books : events = here.events /\ docs = here.docs /\ books = here.books
    OBVIOUS
  <1>3. /\ here = [events |-> events, docs |-> docs, books |-> books]
        /\ events \in Seq(Events) /\ docs \in {1, 2} /\ books \in [RowIds -> Nat]
    <2>1. here \in OfficeOrders
      BY <1>1, OfficeRecord
    <2> QED BY <1>2, <2>1 DEF OfficeOrders
  <1>4. /\ delta.pays = Added(after.pays, before.pays) /\ delta.history \in Seq(OldEvents) /\ delta.status = after.status
        /\ after.status \in Statuses /\ clock \in Nat /\ after.pays \subseteq Payments
    BY <1>1, DeltaIs, OrderTypes DEF SyncInv, SyncTyped
  <1>5. PICK more, placed : more = MoreEvents(events, delta) /\ placed = Placed(i, delta.pays, covered)
    OBVIOUS
  <1>6. there = [events |-> events \o more, docs |-> docs, books |-> Booked(books, placed)]
    BY <1>1, <1>2, <1>3, <1>5 DEF Updated
  <1>7. placed \in SUBSET Added(after.pays, before.pays) /\ OwnRows(placed)
    <2>1. placed \in SUBSET Added(after.pays, before.pays)
      BY <1>4, <1>5 DEF Placed
    <2>2. placed \in SUBSET after.pays
      BY <2>1 DEF Added
    <2> QED BY <2>1, <2>2, PaysOwnRows
  <1>8. more \in Seq(Events) /\ events \o more \in Seq(Events)
    <2>1. more \in Seq(Events)
      BY <1>3, <1>4, <1>5, MoreEventsTyped
    <2> QED BY <1>3, <2>1, JoinedEvents
  <1>9. Booked(books, placed) \in [RowIds -> Nat]
    BY <1>3, <1>7, BookedIs
  <1>10. PICK newEvents, newBooks : newEvents = events \o more /\ newBooks = Booked(books, placed)
    OBVIOUS
  <1>11. there = [events |-> newEvents, docs |-> docs, books |-> newBooks]
    BY <1>6, <1>10
  <1>12. newEvents \in Seq(Events) /\ newBooks \in [RowIds -> Nat]
    BY <1>8, <1>9, <1>10
  <1>13. there \in OfficeOrders
    BY <1>3, <1>11, <1>12 DEF OfficeOrders
  <1>14. there \in OfficeOrders /\ there # NoOrder
    BY <1>13, LegacyAssumptions
  <1>15. ASSUME Grows(before, after), ~Refused(i, delta.pays, covered), BooksAgree(books, docs, before.pays, listings),
                EventsAgree(events, before)
         PROVE  BooksAgree(there.books, there.docs, after.pays, later) /\ EventsAgree(there.events, after)
    <2>1. there.books = Booked(books, placed) /\ there.docs = docs /\ there.events = events \o more
      <3>1. PICK now : now = [events |-> newEvents, docs |-> docs, books |-> newBooks]
        OBVIOUS
      <3>2. now.books = newBooks /\ now.docs = docs /\ now.events = newEvents
        BY <3>1
      <3>3. now = there
        BY <1>11, <3>1
      <3> QED BY <1>10, <3>2, <3>3
    <2>2. before.pays \subseteq after.pays
      BY <1>15 DEF Grows
    <2>3. ASSUME NEW r \in Added(after.pays, before.pays), r \notin placed
          PROVE  r.kind # "client" /\ docs # 1
      <3>1. r \in delta.pays /\ r.kind \in Kinds
        BY <1>4, <2>3 DEF Payments, Added
      <3>2. ~(CASE r.kind = "client"     -> TRUE
                [] r.kind = "translator" -> By[i] \in covered
                [] r.kind = "notary"     -> Paired(i))
        BY <1>5, <2>3, <3>1 DEF Placed
      <3>3. Paired(i) <=> docs = 1
        BY <1>1, <1>2 DEF Paired
      <3>4. CASE r.kind = "client"
        BY <3>2, <3>4
      <3>5. CASE r.kind = "translator"
        BY <1>15, <3>1, <3>2, <3>3, <3>5 DEF Refused
      <3>6. CASE r.kind = "notary"
        BY <3>2, <3>3, <3>6
      <3>7. r.kind # "expense"
        BY <2>3 DEF Added, OrderFine
      <3> QED BY <3>1, <3>4, <3>5, <3>6, <3>7 DEF Kinds
    <2>5. \A r \in Added(after.pays, before.pays) : r \in placed \/ (r.kind # "client" /\ docs # 1)
      BY <2>3
    <2>6. BooksAgree(there.books, there.docs, after.pays, later)
      <3>1. OwnRows(after.pays)
        BY PaysOwnRows
      <3>2. \A id \in RowIds : Booked(books, placed)[id] = books[id] + AmountOf(placed, id)
        BY <1>3, <1>7, BookedIs
      <3>3. PICK a, b, now : a = after.pays /\ b = before.pays /\ now = Booked(books, placed)
        OBVIOUS
      <3>4. OwnRows(a) /\ b \subseteq a /\ books \in [RowIds -> Nat] /\ BooksAgree(books, docs, b, listings)
        BY <1>3, <1>15, <2>2, <3>1, <3>3
      <3>5. MostPlaced(placed, a, b, docs)
        BY <1>7, <2>5, <3>3 DEF MostPlaced
      <3>6. BookedOn(now, books, placed)
        BY <3>2, <3>3 DEF BookedOn
      <3>7. listings \subseteq later /\ b \in later
        BY <3>3
      <3>8. BooksAgree(now, docs, a, later)
        BY <3>4, <3>5, <3>6, <3>7, MoreBooksAgree
      <3> QED BY <2>1, <3>3, <3>8
    <2>7. EventsAgree(events \o MoreEvents(events, Delta(after, before)), after)
      BY <1>3, <1>4, <1>15, MoreEventsAgree
    <2> QED BY <1>1, <1>5, <2>1, <2>6, <2>7
  <1> QED
    BY <1>1, <1>2, <1>14, <1>15

LEMMA NoNewsKeeps ==
    ASSUME NEW before, NEW after, OrderFine(before), OrderFine(after), Grows(before, after),
           ~HasNews(Delta(after, before)),
           NEW here \in OfficeOrders, NEW listings, NEW later, listings \subseteq later, before.pays \in later,
           BooksAgree(here.books, here.docs, before.pays, listings), EventsAgree(here.events, before)
    PROVE  BooksAgree(here.books, here.docs, after.pays, later) /\ EventsAgree(here.events, after)
  <1>1. Added(after.pays, before.pays) = {} /\ after.status = before.status
    BY DeltaIs DEF HasNews
  <1>2. PICK a, b, book, docs : a = after.pays /\ b = before.pays /\ book = here.books /\ docs = here.docs
    OBVIOUS
  <1>3. BooksAgree(book, docs, a, later)
    <2>1. OwnRows(a) /\ b \subseteq a /\ book \in [RowIds -> Nat]
      BY <1>2, PaysOwnRows DEF Grows, OfficeOrders
    <2>2. \A id \in RowIds : AmountOf({}, id) = 0 /\ book[id] \in Nat
      BY <2>1 DEF AmountOf
    <2>3. BookedOn(book, book, {})
      BY <2>2 DEF BookedOn
    <2>4. MostPlaced({}, a, b, docs) /\ BooksAgree(book, docs, b, listings) /\ b \in later
      BY <1>1, <1>2 DEF MostPlaced
    <2> QED BY <2>1, <2>3, <2>4, MoreBooksAgree
  <1>4. EndsAt(before) \in Nat /\ EndsAt(after) \in Nat /\ EndsAt(before) <= EndsAt(after)
    BY EndsGrow
  <1>5. PICK events : events = here.events
    OBVIOUS
  <1>6. events \in Seq(Events)
    BY <1>5 DEF OfficeOrders
  <1>7. ASSUME OnlyImported(events)
        PROVE  /\ events # <<>> /\ InOrder(events)
               /\ Last(events).status = after.status /\ Last(events).at <= EndsAt(after)
    <2>1. /\ events # <<>> /\ InOrder(events)
          /\ Last(events).status = before.status /\ Last(events).at <= EndsAt(before)
      BY <1>5, <1>7 DEF EventsAgree
    <2>2. Last(events) \in Events
      BY <1>6, <2>1 DEF Last
    <2>3. Last(events).at \in Nat
      BY <2>2 DEF Events
    <2> QED BY <1>1, <1>4, <2>1, <2>3
  <1> QED
    BY <1>2, <1>3, <1>5, <1>7 DEF EventsAgree

LEMMA StandsKeeps ==
    ASSUME SyncInv, UNCHANGED <<old, clock, dumps, office, loaded, brought, rows, proper>>
    PROVE  SyncInv'
  <1>1. loaded' = loaded /\ proper' = proper /\ UNCHANGED office
    OBVIOUS
  <1>2. /\ office' \in OfficeShape /\ loaded' \in 0..Len(dumps) /\ proper' \in BOOLEAN
        /\ brought' \subseteq DOMAIN dumps /\ (loaded' > 0 => loaded' \in brought')
    BY DEF SyncInv, SyncTyped
  <1>3. loaded' = 0 => NothingYet'
    BY DEF SyncInv, NothingYet, LegacyOrders
  <1>4. proper' /\ loaded' > 0 => CaughtUp(dumps[loaded])'
    <2> SUFFICES ASSUME proper', loaded > 0 PROVE CaughtUp(dumps[loaded])'
      OBVIOUS
    <2>1. PICK d : d = dumps[loaded]
      OBVIOUS
    <2>2. CaughtUp(d)
      BY <2>1 DEF SyncInv
    <2>3. CaughtUp(d)'
      BY <2>2, SameListings
    <2> QED BY <2>1, <2>3
  <1> QED
    BY <1>1, <1>2, <1>3, <1>4, OfficeKeeps

LEMMA SyncKeeps ==
    ASSUME SyncInv, NEW since \in DOMAIN dumps, Sync(since)
    PROVE  SyncInv'
  <1>1. PICK k, d, p : k = Len(dumps) /\ d = dumps[k] /\ p = dumps[since]
    OBVIOUS
  <1>2. PICK covered, changed, new : covered = TranslatorsCovered(d, p) /\ changed = Changed(d, p) /\ new = NewOrders(d)
    OBVIOUS
  <1>3. PICK delta, wanted :
            /\ delta = News(d, p)
            /\ wanted = (DumpClients(d) \ DumpClients(p)) \cup {ClientOf[i] : i \in NewOrders(d) \cup Changed(d, p)}
    OBVIOUS
  <1>4. DOMAIN delta = changed /\ \A i \in changed : delta[i] = Delta(d.orders[i], p.orders[i])
    BY <1>2, <1>3 DEF News
  <1>5. CASE Breaks(d, p)
    <2>1. UNCHANGED <<old, clock, dumps, office, loaded, brought, rows, proper>>
      BY <1>1, <1>5 DEF Sync
    <2> QED BY <2>1, StandsKeeps
  <1>6. CASE ~Breaks(d, p)
    <2>1. \A i \in changed : ~Refused(i, delta[i].pays, covered)
      BY <1>2, <1>3, <1>4, <1>6 DEF Breaks
    <2>2. PICK orders, imported, spent :
              /\ orders = UpToDate(d, p)
              /\ imported = WithClients(wanted, TRUE)
              /\ spent = Booked(office.spent, Added(d.expenses, p.expenses))
      OBVIOUS
    <2>3. /\ orders = [i \in Old |-> orders[i]]
          /\ \A i \in Old : i \in new /\ i \notin changed => orders[i] = NewOrder(d.orders[i])
          /\ \A i \in Old : i \notin new /\ i \notin changed => orders[i] = office.orders[i]
          /\ \A i \in Old : i \notin new /\ i \in changed => orders[i] = Updated(i, delta[i], covered)
      <3>1. orders = [i \in Old |-> CASE i \in NewOrders(d)       -> NewOrder(d.orders[i])
                                    [] i \in DOMAIN News(d, p) -> Updated(i, News(d, p)[i], TranslatorsCovered(d, p))
                                    [] OTHER                   -> office.orders[i]]
        BY <2>2 DEF UpToDate
      <3> QED BY <1>2, <1>3, <1>4, <3>1
    <2>4. /\ office' = [office EXCEPT !.orders = orders, !.imported = imported, !.spent = spent]
          /\ loaded' = k /\ brought' = brought \cup {k} /\ proper' = (proper /\ since = loaded)
          /\ UNCHANGED <<old, clock, dumps, rows>>
      BY <1>1, <1>3, <1>6, <2>2 DEF Sync
    <2>5. office' = [orders |-> orders, imported |-> imported, registered |-> office.registered, spent |-> spent]
      BY <2>4, OfficeRecord
    <2>6. k \in DOMAIN dumps /\ DumpFine(d) /\ DumpFine(p) /\ clock \in Nat /\ since <= k
      BY <1>1 DEF SyncInv, SyncTyped
    <2>7. proper' \in BOOLEAN /\ (proper' => proper /\ since = loaded)
      BY <2>4 DEF SyncInv, SyncTyped
    <2>8. /\ new = Orders(d) \ LegacyOrders /\ Orders(d) \subseteq Old /\ LegacyOrders \subseteq Old
          /\ changed \subseteq Orders(d) \cap LegacyOrders \cap Orders(p)
          /\ \A i \in Orders(d) \cap LegacyOrders \cap Orders(p) : i \notin changed => ~HasNews(Delta(d.orders[i], p.orders[i]))
      BY <1>2 DEF NewOrders, Changed, Orders, LegacyOrders
    <2>9. /\ \A i \in Orders(d) : OrderFine(d.orders[i])
          /\ \A i \in Orders(p) : OrderFine(p.orders[i])
      BY <2>6 DEF DumpFine
    <2>10. ASSUME NEW i \in new
           PROVE  /\ orders[i] \in OfficeOrders /\ orders[i] # NoOrder
                  /\ BooksAgree(orders[i].books, orders[i].docs, d.orders[i].pays, Listings(i) \cup {Listed(d, i)})
                  /\ EventsAgree(orders[i].events, d.orders[i])
      <3>1. i \in Old /\ OrderFine(d.orders[i]) /\ i \notin changed
        BY <2>8, <2>9
      <3>2. orders[i] = NewOrder(d.orders[i])
        BY <2>3, <3>1
      <3> QED BY <2>6, <3>1, <3>2, NewOrderIs
    <2>11. ASSUME NEW i \in changed, NEW listings, NEW later, listings \subseteq later, p.orders[i].pays \in later
           PROVE  /\ orders[i] \in OfficeOrders /\ orders[i] # NoOrder
                  /\ /\ Grows(p.orders[i], d.orders[i])
                     /\ BooksAgree(office.orders[i].books, office.orders[i].docs, p.orders[i].pays, listings)
                     /\ EventsAgree(office.orders[i].events, p.orders[i])
                     => /\ BooksAgree(orders[i].books, orders[i].docs, d.orders[i].pays, later)
                        /\ EventsAgree(orders[i].events, d.orders[i])
      <3>1. /\ i \in Old /\ i \in LegacyOrders /\ i \notin new
            /\ OrderFine(d.orders[i]) /\ OrderFine(p.orders[i])
        BY <2>8, <2>9
      <3>2. PICK before, after, there : before = p.orders[i] /\ after = d.orders[i] /\ there = orders[i]
        OBVIOUS
      <3>3. delta[i] = Delta(after, before)
        BY <1>4, <3>2
      <3>4. there = Updated(i, delta[i], covered)
        BY <2>3, <3>1, <3>2
      <3>5. there = Updated(i, Delta(after, before), covered)
        BY <3>3, <3>4
      <3>6. OrderFine(before) /\ OrderFine(after)
        BY <3>1, <3>2
      <3>7. ~Refused(i, Delta(after, before).pays, covered)
        BY <2>1, <3>3
      <3>8. /\ there \in OfficeOrders /\ there # NoOrder
            /\ /\ Grows(before, after) /\ ~Refused(i, Delta(after, before).pays, covered)
               /\ BooksAgree(office.orders[i].books, office.orders[i].docs, before.pays, listings)
               /\ EventsAgree(office.orders[i].events, before)
               => BooksAgree(there.books, there.docs, after.pays, later) /\ EventsAgree(there.events, after)
        <4>1. listings \subseteq later /\ before.pays \in later
          BY <2>11, <3>2
        <4> QED BY <3>1, <3>5, <3>6, <4>1, UpdatedKeeps
      <3> QED BY <3>2, <3>7, <3>8
    <2>12. \A i \in Old : i \notin new /\ i \notin changed => orders[i] = office.orders[i]
      BY <2>3
    <2>13. orders \in [Old -> OfficeOrders \cup {NoOrder}]
      <3>1. office.orders \in [Old -> OfficeOrders \cup {NoOrder}]
        BY OfficeRecord
      <3>2. \A i \in Old : orders[i] \in OfficeOrders \cup {NoOrder}
        <4>1. ASSUME NEW i \in changed PROVE orders[i] \in OfficeOrders
          <5>1. {} \subseteq {p.orders[i].pays} /\ p.orders[i].pays \in {p.orders[i].pays}
            OBVIOUS
          <5> QED BY <2>11, <5>1
        <4> QED BY <2>10, <2>12, <3>1, <4>1
      <3> QED BY <2>3, <3>2
    <2>14. imported \in [Clients -> Nat]
           /\ \A c \in Clients : /\ imported[c] <= office.imported[c] + 1
                                 /\ office.imported[c] > 0 => imported[c] = office.imported[c]
      BY <2>2, WithClientsIs
    <2>15. spent \in [RowIds -> Nat] /\ OwnRows(d.expenses)
      <3>1. OwnRows(d.expenses)
        BY <2>6 DEF DumpFine
      <3>2. OwnRows(Added(d.expenses, p.expenses))
        BY <3>1 DEF OwnRows, Added
      <3> QED BY <2>2, <3>1, <3>2, OfficeRecord, BookedIs
    <2>16. ASSUME proper'
           PROVE  /\ \A i \in Old : orders[i] # NoOrder <=> i \in Orders(d)
                  /\ \A i \in Orders(d) :
                        /\ BooksAgree(orders[i].books, orders[i].docs, d.orders[i].pays, Listings(i) \cup {Listed(d, i)})
                        /\ EventsAgree(orders[i].events, d.orders[i])
                  /\ BooksAgree(spent, 1, d.expenses, Expenses \cup {d.expenses})
                  /\ \A c \in Clients : imported[c] <= 1
      <3>1. proper /\ since = loaded /\ loaded > 0
        <4>1. loaded \in DOMAIN dumps /\ DOMAIN dumps = 1..Len(dumps) /\ Len(dumps) \in Nat /\ proper /\ since = loaded
          BY <2>7, <2>16 DEF SyncInv, SyncTyped
        <4> QED BY <4>1
      <3>2. CaughtUp(p)
        BY <1>1, <3>1 DEF SyncInv
      <3>3. Follows(d, p)
        BY <1>1, <2>6, <3>1 DEF SyncInv, DumpsFollow
      <3>4. /\ LegacyOrders = Orders(p) /\ Orders(p) \subseteq Orders(d) /\ p.expenses \subseteq d.expenses
            /\ \A i \in Orders(p) :
                  /\ Grows(p.orders[i], d.orders[i])
                  /\ BooksAgree(office.orders[i].books, office.orders[i].docs, p.orders[i].pays, Listings(i))
                  /\ EventsAgree(office.orders[i].events, p.orders[i])
        BY <3>2, <3>3 DEF CaughtUp, Follows
      <3>10. /\ p.expenses \in Expenses
             /\ \A i \in Orders(p) : p.orders[i].pays \in Listings(i)
        <4>1. since \in brought
          BY <3>1 DEF SyncInv
        <4>2. p.expenses \in Expenses
          BY <1>1, <4>1 DEF Expenses
        <4>3. ASSUME NEW i \in Orders(p) PROVE p.orders[i].pays \in Listings(i)
          BY <1>1, <4>1, <4>3 DEF Listings, Listed
        <4> QED BY <4>2, <4>3
      <3>5. ASSUME NEW i \in Orders(d)
            PROVE  /\ orders[i] # NoOrder
                   /\ BooksAgree(orders[i].books, orders[i].docs, d.orders[i].pays, Listings(i) \cup {Listed(d, i)})
                   /\ EventsAgree(orders[i].events, d.orders[i])
        <4> DEFINE later == Listings(i) \cup {Listed(d, i)}
        <4>1. CASE i \in new
          BY <2>10, <4>1
        <4>2. CASE i \in changed
          <5>1. i \in Orders(p) /\ Listings(i) \subseteq later /\ p.orders[i].pays \in later
            BY <2>8, <3>10, <4>2
          <5> HIDE DEF later
          <5>2. /\ orders[i] \in OfficeOrders /\ orders[i] # NoOrder
                /\ /\ Grows(p.orders[i], d.orders[i])
                   /\ BooksAgree(office.orders[i].books, office.orders[i].docs, p.orders[i].pays, Listings(i))
                   /\ EventsAgree(office.orders[i].events, p.orders[i])
                   => /\ BooksAgree(orders[i].books, orders[i].docs, d.orders[i].pays, later)
                      /\ EventsAgree(orders[i].events, d.orders[i])
            BY <2>11, <4>2, <5>1
          <5>3. /\ orders[i] # NoOrder /\ BooksAgree(orders[i].books, orders[i].docs, d.orders[i].pays, later)
                /\ EventsAgree(orders[i].events, d.orders[i])
            BY <3>4, <5>1, <5>2
          <5> QED BY <5>3 DEF later
        <4>3. CASE i \notin new /\ i \notin changed
          <5>1. i \in LegacyOrders /\ i \in Orders(p) /\ i \in Old
            BY <2>8, <3>4, <4>3
          <5>2. PICK before, after, here, listings :
                    before = p.orders[i] /\ after = d.orders[i] /\ here = office.orders[i] /\ listings = Listings(i)
            OBVIOUS
          <5>3. /\ OrderFine(before) /\ OrderFine(after) /\ Grows(before, after) /\ ~HasNews(Delta(after, before))
                /\ BooksAgree(here.books, here.docs, before.pays, listings) /\ EventsAgree(here.events, before)
            BY <2>8, <2>9, <3>4, <4>3, <5>1, <5>2
          <5>4. here \in OfficeOrders /\ here # NoOrder
            BY <5>1, <5>2, OfficeRecord
          <5>5. listings \subseteq later /\ before.pays \in later
            BY <3>10, <5>1, <5>2
          <5> HIDE DEF later
          <5>6. BooksAgree(here.books, here.docs, after.pays, later) /\ EventsAgree(here.events, after)
            BY <5>3, <5>4, <5>5, NoNewsKeeps
          <5>7. orders[i] = here
            BY <2>12, <4>3, <5>1, <5>2
          <5> QED BY <5>2, <5>4, <5>6, <5>7 DEF later
        <4> QED BY <4>1, <4>2, <4>3
      <3>6. ASSUME NEW i \in Old, i \notin Orders(d)
            PROVE  orders[i] = NoOrder
        <4>1. i \notin new /\ i \notin changed /\ i \notin LegacyOrders
          BY <2>8, <3>4, <3>6
        <4>2. office.orders[i] = NoOrder
          BY <4>1 DEF LegacyOrders
        <4> QED BY <2>12, <4>1, <4>2
      <3>7. BooksAgree(office.spent, 1, p.expenses, Expenses)
        BY <3>2 DEF CaughtUp
      <3>8. BooksAgree(spent, 1, d.expenses, Expenses \cup {d.expenses})
        <4>1. PICK a, b, book, listings, later :
                  /\ a = d.expenses /\ b = p.expenses /\ book = office.spent
                  /\ listings = Expenses /\ later = Expenses \cup {d.expenses}
          OBVIOUS
        <4>2. /\ OwnRows(a) /\ b \subseteq a /\ book \in [RowIds -> Nat] /\ BooksAgree(book, 1, b, listings)
              /\ listings \subseteq later /\ b \in later
          BY <2>15, <3>4, <3>7, <3>10, <4>1, OfficeRecord
        <4>3. BooksAgree(Booked(book, Added(a, b)), 1, a, later)
          BY <4>2, ExpensesAgree
        <4> QED BY <2>2, <4>1, <4>3
      <3>9. ASSUME NEW c \in Clients PROVE imported[c] <= 1
        <4>1. office.imported[c] <= 1 /\ office.imported[c] \in Nat
          BY <3>2, OfficeRecord DEF CaughtUp
        <4> QED BY <2>14, <4>1
      <3> QED BY <3>5, <3>6, <3>8, <3>9
    <2>17. /\ UNCHANGED <<old, clock, dumps, rows>> /\ k \in DOMAIN dumps /\ loaded' = k /\ d = dumps[k]
           /\ brought' = brought \cup {k}
           /\ proper' \in BOOLEAN /\ (proper' => proper)
           /\ orders \in [Old -> OfficeOrders \cup {NoOrder}] /\ imported \in [Clients -> Nat] /\ spent \in [RowIds -> Nat]
      BY <1>1, <2>4, <2>6, <2>7, <2>13, <2>14, <2>15
    <2> QED
      BY <2>5, <2>16, <2>17, ImportKeeps
  <1> QED
    BY <1>5, <1>6

-----------------------------------------------------------------------------
(* The invariant. *)

LEMMA MinOfOld == Min(Old) \in Old
  <1>1. PICK less : less = OpToRel(<, Nat)
    OBVIOUS
  <1>2. PICK i \in Old : \A j \in Old : <<j, i>> \notin less
    BY <1>1, NatLessThanWellFounded, WFMin, LegacyAssumptions
  <1>3. ASSUME NEW j \in Old PROVE i <= j
    <2>1. i \in Nat /\ j \in Nat
      BY LegacyAssumptions
    <2>2. j < i => <<j, i>> \in less
      BY <1>1, <2>1 DEF OpToRel
    <2> QED BY <1>2, <2>1, <2>2
  <1> QED
    BY <1>3 DEF Min

LEMMA InitKeeps == SyncInit => SyncInv
  <1> SUFFICES ASSUME SyncInit PROVE SyncInv
    OBVIOUS
  <1>1. old = [orders |-> [i \in Old |-> IF i = Min(Old) THEN OldOrder(i, 0) ELSE NoOrder],
               hired |-> {By[Min(Old)]}, expenses |-> {}]
    BY DEF SyncInit
  <1>2. PICK first, raw, orders :
            /\ first = Min(Old) /\ raw = OldOrder(first, 0)
            /\ orders = [i \in Old |-> IF i = Min(Old) THEN OldOrder(i, 0) ELSE NoOrder]
    OBVIOUS
  <1>3. first \in Old /\ By[first] \in Translators
    BY <1>2, MinOfOld, LegacyAssumptions
  <1>4. /\ OrderFine(raw) /\ raw.date = 0 /\ raw.pays = {}
        /\ \A k \in DOMAIN raw.history : raw.history[k].at = 0
        /\ raw \in OldOrders /\ raw # NoOrder
    BY <1>2, <1>3, FreshOrder, LegacyAssumptions DEF OrderFine
  <1>5. /\ orders \in [Old -> OldOrders \cup {NoOrder}] /\ orders[first] = raw
        /\ \A i \in Old : i # first => orders[i] = NoOrder
    BY <1>2, <1>3, <1>4
  <1>6. PICK hired : hired = {By[first]}
    OBVIOUS
  <1>7. old = [orders |-> orders, hired |-> hired, expenses |-> {}] /\ hired \in SUBSET Translators
    BY <1>1, <1>2, <1>3, <1>6
  <1>8. old \in DumpShape /\ Orders(old) = {first} /\ old.orders[first] = raw
    BY <1>3, <1>4, <1>5, <1>7 DEF DumpShape, Orders
  <1>9. DumpFine(old) /\ old.expenses = {}
    BY <1>4, <1>7, <1>8 DEF DumpFine, OwnRows
  <1>10. /\ clock = 0 /\ dumps = <<>> /\ loaded = 0 /\ brought = {} /\ rows = 0 /\ proper = TRUE
         /\ office = [orders |-> [i \in Old |-> NoOrder], imported |-> [c \in Clients |-> 0], registered |-> {},
                      spent |-> [n \in RowIds |-> 0]]
    BY DEF SyncInit, NoBooks
  <1>11. OldFine
    BY <1>4, <1>8, <1>9, <1>10 DEF OldFine
  <1>12. office \in OfficeShape
    BY <1>10 DEF OfficeShape
  <1>13. SyncTyped
    BY <1>10, <1>12 DEF SyncTyped
  <1>14. NothingYet
    BY <1>10 DEF NothingYet, LegacyOrders
  <1>15. DOMAIN dumps = {}
    BY <1>10
  <1> QED
    BY <1>10, <1>11, <1>13, <1>14, <1>15 DEF SyncInv, DumpsFollow

LEMMA NextKeeps == SyncInv /\ [SyncNext]_syncVars => SyncInv'
  <1> SUFFICES ASSUME SyncInv, [SyncNext]_syncVars PROVE SyncInv'
    OBVIOUS
  <1>1. ASSUME NEW i \in Old, OldCreates(i) PROVE SyncInv'
    BY <1>1, OldCreatesKeeps
  <1>2. ASSUME NEW i \in Old, NEW s \in Statuses, OldSetsStatus(i, s) PROVE SyncInv'
    BY <1>2, OldSetsStatusKeeps
  <1>3. ASSUME NEW i \in Old, NEW s \in Statuses, SetStatus(i, s) PROVE SyncInv'
    BY <1>3, SetStatusKeeps
  <1>4. ASSUME NEW i \in Old, NEW e \in Entries, OldPays(i, e) PROVE SyncInv'
    BY <1>4, OldPaysKeeps
  <1>5. ASSUME NEW i \in Orders(old), NEW amount \in Amounts, NEW row \in old.orders[i].pays,
               OldEditsPayment(i, row, amount)
        PROVE  SyncInv'
    BY <1>5, OldEditsPaymentKeeps
  <1>6. ASSUME NEW e \in Entries, OldSpends(e) PROVE SyncInv'
    BY <1>6, OldSpendsKeeps
  <1>7. CASE Tick
    BY <1>7, TickKeeps
  <1>8. CASE TakeDump
    BY <1>8, TakeDumpKeeps
  <1>9. ASSUME NEW keep \in BOOLEAN, FullImport(keep) PROVE SyncInv'
    BY <1>9, FullImportKeeps
  <1>10. ASSUME NEW since \in DOMAIN dumps, Sync(since) PROVE SyncInv'
    BY <1>10, SyncKeeps
  <1>11. ASSUME NEW i \in Old, AddDocument(i) PROVE SyncInv'
    BY <1>11, AddDocumentKeeps
  <1>12. ASSUME NEW c \in Clients, RegisterClient(c) PROVE SyncInv'
    BY <1>12, RegisterClientKeeps
  <1>13. CASE UNCHANGED syncVars
    <2>1. UNCHANGED <<old, clock, dumps, office, loaded, brought, rows, proper>>
      BY <1>13 DEF syncVars
    <2> QED BY <2>1, StandsKeeps
  <1> QED
    BY <1>1, <1>2, <1>3, <1>4, <1>5, <1>6, <1>7, <1>8, <1>9, <1>10, <1>11, <1>12, <1>13 DEF SyncNext

(***************************************************************************)
(* The dumps only grow while no old payment is edited, and Office is as    *)
(* the dump loaded last when every sync was against the one before it.     *)
(***************************************************************************)
THEOREM SyncInvariance == SyncSpec => []SyncInv
  BY InitKeeps, NextKeeps, PTL DEF SyncSpec

(***************************************************************************)
(* "Money is copied" once: each payment and each expense of the dump       *)
(* loaded last, but for a row taken for one just like it that came over    *)
(* before, or whose documents staff changed; and no old client twice.      *)
(***************************************************************************)
THEOREM MoneyCopiedOnceHolds == SyncSpec => []MoneyCopiedOnce
  <1>1. SyncInv => MoneyCopiedOnce
    <2> SUFFICES ASSUME SyncInv, proper, loaded > 0 PROVE MoneyCopiedOnce
      BY DEF MoneyCopiedOnce
    <2>1. CaughtUp(dumps[loaded])
      BY DEF SyncInv
    <2>2. PICK d : d = dumps[loaded]
      OBVIOUS
    <2>3. ASSUME NEW i \in Orders(d), NEW r \in d.orders[i].pays
          PROVE  \/ office.orders[i].books[r.n] = r.amount
                 \/ /\ office.orders[i].books[r.n] = 0
                    /\ \/ r.kind # "client" /\ ~Paired(i)
                       \/ TakenForOld(r, Listings(i))
      BY <2>1, <2>2 DEF CaughtUp, BooksAgree, Paired
    <2>4. ASSUME NEW r \in d.expenses
          PROVE  \/ office.spent[r.n] = r.amount
                 \/ office.spent[r.n] = 0 /\ TakenForOld(r, Expenses)
      BY <2>1, <2>2 DEF CaughtUp, BooksAgree
    <2>5. \A c \in Clients : office.imported[c] <= 1
      BY <2>1 DEF CaughtUp
    <2> QED BY <2>2, <2>3, <2>4, <2>5 DEF MoneyCopiedOnce, Listings, Expenses
  <1> QED
    BY <1>1, SyncInvariance, PTL

(***************************************************************************)
(* An order whose events all came over shows the old system's status.      *)
(***************************************************************************)
THEOREM StatusFollowsHolds == SyncSpec => []StatusFollows
  <1>1. SyncInv => StatusFollows
    <2> SUFFICES ASSUME SyncInv, proper, NEW i \in LegacyOrders, OnlyImported(office.orders[i].events)
                 PROVE  Latest(office.orders[i].events) = dumps[loaded].orders[i].status
      BY DEF StatusFollows, OnlyImported
    <2>1. loaded > 0
      <3>1. loaded # 0
        BY DEF SyncInv, NothingYet
      <3> QED BY <3>1 DEF SyncInv, SyncTyped
    <2>2. CaughtUp(dumps[loaded])
      BY <2>1 DEF SyncInv
    <2>3. PICK events, raw : events = office.orders[i].events /\ raw = dumps[loaded].orders[i]
      OBVIOUS
    <2>4. EventsAgree(events, raw)
      BY <2>2, <2>3 DEF CaughtUp
    <2>5. events \in Seq(Events)
      <3>1. office.orders[i] \in OfficeOrders
        BY OfficeRecord
      <3> QED BY <2>3, <3>1 DEF OfficeOrders
    <2>6. events # <<>> /\ InOrder(events) /\ Last(events).status = raw.status
      BY <2>3, <2>4 DEF EventsAgree
    <2>7. Latest(events) = raw.status
      BY <2>5, <2>6, LatestIsLast
    <2> QED BY <2>3, <2>7
  <1> QED
    BY <1>1, SyncInvariance, PTL
=============================================================================
