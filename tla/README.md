# A TLA+ model of the Suliko Office API

Suliko Office is the API of a platform for translation bureaus: a FastAPI
application, several processes of it, over one PostgreSQL database shared by
all organisations (tenants), with object storage, a file archive (the Order
Vault), Google Drive, suliko.ge and translation workers outside. This directory
holds TLA+ specifications of the parts where requests, background work,
failures and time meet; TLC checks them on small instances, and TLAPS proves the
safety of eight of them, and the refinement of one, for every size.

Paths below are relative to the repository's `src/suliko` unless they begin
with another directory.

## 1. The system

### What every part has in common

* A request is one transaction, committed after the handler returns
  (`db/session.py`, `session_scope`). The isolation level is READ COMMITTED: each
  statement sees what is committed when it runs. Autoflush is off and objects keep
  what they were read with, so a handler that reads a row and later assigns to
  it writes by primary key on the strength of an old value.
* Rows are locked in two places only: the claim of a translation job
  (`FOR UPDATE SKIP LOCKED`) and the Drive sync (`FOR UPDATE` on the order, then
  on its files); order numbers are drawn under an advisory lock. Elsewhere order is kept by guarded `UPDATE ... WHERE status = ...`,
  unique indexes and foreign keys, or not at all.
* Storage, Drive, mail and suliko.ge are outside the transaction. What was
  done there stays when the database rolls back, and an answer can be lost.
* Nightly commands (`cli.py`) and workers do the work that takes time.

### Components

| Component | State it keeps | Operations | What is hard | Correct means |
|---|---|---|---|---|
| Claude Translate queue (`api/v1/claude_translate.py`, `domain/claude_translate.py`, `models/claude_translation.py`) | job rows: status, attempts, started_at, source file | create, list, retry, cancel; put stuck jobs back | clicks racing each other; jobs stuck with a dead worker | one active job per file; attempts exact; a job ends |
| Claude worker API and process (`api/v1/claude_worker.py`, `worker/claude_worker.py`) | what the worker believes it holds | claim, download, post result, report | two workers, lost answers, late results, crashes | no job twice; a result once; no finished job moves |
| Account deletion (`domain/account_deletion.py`, endpoints in `api/v1/auth.py` and `api/v1/platform.py`, `cli.py`) | requests, thirty-day clock, portal switch | file, approve, reject, purge | two tabs, two reviewers, a nightly run on an old list | one open request; closed means closed; nothing erased without consent |
| Sign-in, sessions and organisations (`security/sessions.py`, `security/login_tickets.py`, `api/v1/auth.py`, `domain/accounts.py`) | accounts, sessions, tickets, revocation stamps | sign in, choose or found an organisation, switch, sign out, change a password | a sign-in of two requests; a commit across a revocation | what an old password opened is closed |
| Links and second factors (`security/reset_tokens.py`, `api/v1/mfa.py`, `security/totp.py`) | links with a purpose, factors, recovery codes, the last code's step | issue, replace, spend; enrol, confirm, answer | two requests with one link or code; a refusal that rolls back | a link and a code work once |
| Users of an organisation (`api/v1/users.py`, parts of `api/v1/platform.py`) | memberships, roles, invitations | invite, change role, switch off/on, delete, leave | owners acting on each other at once | somebody can run the organisation |
| Permissions and plans (`security/permissions.py`, `domain/plans.py`, `api/v1/tenant.py`) | overrides per person, the plan | tick boxes, promote, choose a plan | three sources of a permission; forms that show only some boxes | nobody hands on what they do not hold |
| Order files (`api/v1/order_files.py`, `domain/order_files.py`) | file rows, stored bytes, working copies | upload, link, remove, nightly purge | three systems, no common transaction | bytes while promised, reclaimed after |
| Drive mirror (`domain/drive_mirror.py`) | Drive ids on rows | sync an order | two processes, crash after an upload | a live file copied once |
| Orders, documents, statuses (`api/v1/orders.py`, `domain/orders.py`, `domain/statuses.py`, `db/numbering.py`) | orders, documents, status events, numbers | create, save, delete, change status | edits on old values; numbers drawn before the commit | numbers free, prices of the urgency they have |
| Pricing (`domain/pricing.py`, `domain/pricing_context.py`) | none | price a line | rounding, minimums, tariffs by page | one engine for every screen |
| Finances (`api/v1/finances.py`) | three ledgers, allocations, expenses | record, allocate, remove; balances | forms sent twice; allocations racing edits | never more than owed; cards and tables agree |
| Translator portal (`api/v1/portal.py`, `api/v1/portal_admin.py`, `domain/portal.py`, `api/v1/translators.py`) | accounts, links, invitations, assignments | invite, link, resolve, hand in | contacts that match two people; links changing under a request | a row has one account; only assigned work is reached |
| Suliko Translate (`api/v1/order_translations.py`) | jobs at an outside service | start, look, file, edit | looks racing, answers lost, a charge per start | a result once, a charge once |
| Imports (`api/v1/imports.py`, `domain/imports*.py`) | batches and what they created | judge, commit, undo | the same people in files, sheets and tables | nothing twice; undo takes its own |
| Import from the old system (`domain/tarjimnebi_import.py`) | the dump loaded last, copied rows | full import, sync of a newer dump | two systems changing between dumps | money once; statuses followed |
| Billing (`domain/billing.py`, `api/v1/billing.py`, `api/v1/platform_billing.py`) | packages, counts per month, free months, invoices | order within the package, move up, prepare, waive | months in time zones; changes while invoices are made | only what is due is billed |
| Notes and notifications (`api/v1/notifications.py`, `domain/notifications.py`) | notes, feeds | write, mention, pin, delete, read | several reasons to tell one person | told once, never of one's own doing |
| Directory, reports, exports, document conversion, plumbing | see `PROJECT.json` | | | |

How they touch: deleting a document marks its files removed and takes away the
source and the destination of Claude jobs; removing a file fails the jobs that
need it; switching the feature or the organisation off hides its jobs from the
claim; filing a deletion ends the sessions of every membership and switches the
portal off; would-be last owners are refused by leaving, by demotion and by
deletion through two different counts; an upload schedules a Drive sync; the
purge and a sync meet at the working copies.

`PROJECT.json` lists every component with its sources and status, and under
`hazards` the places where this code is hard to test.

## 2. Modules

| Module | Models | Uses |
|---|---|---|
| `JobLifecycle` | the abstract promise of the queue: a job waits, is held, ends | |
| `ClaudeQueue` | job rows, staff requests, worker API and workers | instantiates `JobLifecycle` |
| `ClaudeQueueProofs` | the inductive invariant, its theorems, the refinement of `JobLifecycle` | extends `ClaudeQueue` |
| `AccountDeletion` | people, memberships, sessions, deletion requests, the nightly run | |
| `AccountDeletionProofs` | its invariant and theorems | extends `AccountDeletion` |
| `OrderFiles` | file rows, bytes, working copies, purge, Drive syncs | |
| `Pricing` | the price of a line, without state | |
| `Bureau` | the tables of an office and what is computed from them | extends `Pricing` |
| `Orders` | creating, numbering, editing, status, deleting, importing an order, new prices | extends `Bureau` |
| `Finances` | ledgers, expenses, balances; the office as a whole | extends `Orders` |
| `FinancesProofs` | the invariant and theorems of the four together | extends `Finances` |
| `Imports` | judging, committing and undoing spreadsheets | |
| `FilesProofs` | the invariants and theorems of the two parts that live on files | extends `OrderFiles`, `Imports` |
| `LegacySync` | the old system, its dumps, the import and the syncs | |
| `Portal` | accounts of translators, links, invitations, assigned and personal work | |
| `PortalProofs` | its invariant and theorems | extends `Portal` |
| `Translate` | jobs at suliko.ge, the looks that file them, the editor | |
| `OutsideProofs` | the invariants and theorems of the two parts that keep step with another system | extends `Translate`, `LegacySync` |
| `Accounts` | accounts, memberships, sessions, links, factors as tables | |
| `SignIn` | sign-in, organisations, links, passwords, second factors | extends `Accounts` |
| `Members` | invitations and changes of members, the platform's superusers | extends `SignIn` |
| `MembersProofs` | its invariant and theorems | extends `Members` |
| `Access` | permissions of a person: role, overrides, plan | |
| `Billing` | packages, months, invoices | extends `Access` |
| `Feed` | notes and notifications; an organisation's day as a whole | extends `Billing` |
| `FeedProofs` | the invariant and theorems of the three together | extends `Feed` |
| `MC...` | instances for TLC | extend the above |

`Finances`, `Members` and `Feed` are the compositions: their `Next` lets the
actions of the modules they extend interleave on shared state. An order that is
edited while it is paid, an owner removed while they sign in, and a plan that
decides who hears of a payment are behaviours of these.

**One rule of translation.** A handler whose reads and writes nothing can come
between is one action. A handler that reads, decides and later writes on what it
read is two (or three) actions, with what it read kept in a variable of the
request, so any other transaction may commit between them. A write by primary
key has no guard in the model either; a guarded `UPDATE` has one; a unique
index is a guard at the write (`IndexAllows`, `LinkHolds`, `InsertOnce`), never at
the read, and a refused write is a rollback (`RollBack`, `CreateFails`).

**Overlap.** Most handlers outside the queue take no lock, so two requests about
the same thing can undo each other's checks, and the code's comments do not
claim otherwise. Requests in flight stand at a desk (`desk`) with what they read; a
history variable (`overlapped`, `mixed`) remembers what two of them were about
at the same time, and a property that such a race can break says "unless the two
overlapped". What the races do is listed under *Known races* below. The rest
of the property, every sequence and every interleaving about different things,
is checked with the requests still split in two.

### ClaudeQueue

| Code | Definitions |
|---|---|
| `create_jobs` | `CreateCheck` (all refusals), `CreateInsert` (rows, or none when the index refuses) |
| `retry_job`, `cancel_job`, `list_jobs` | `RetryCheck` and `RetryUpdate`, `Cancel`, `ListJobs` |
| `requeue_stuck` | `RequeueStuck`, inside `ListJobs` and `ScanTenant` |
| `claim_next`, `_claim_in_tenant` | `StartClaim`, `ScanTenant`, `ClaimTake` (locks), `ClaimCommit`, `ClaimAbort` |
| `download_source`, `post_result`, `report_status` | `Download`; `ResultReadJob`, `ResultReadDocument`, then `ResultFiled`, `ResultRefused` or `ResultDocumentGone`; `ReportFailed`, `ReportQueued` |
| the worker's `process` and `run` | `Translate`, `CannotTranslate`, `HitUsageLimit`, `Vanish` |
| deletion elsewhere, feature switch, the clock | `RemoveFile`, `RemoveDocument`, `SwitchFeature`, `GrowOverdue` |

A claim whose answer is lost leaves a job nobody works on; the worker that lost it
goes on as another worker would. `timeouts` and `filed` are history variables.
The heartbeat decides nothing but a sign on the screen and is left out, as are
the deletion of a whole order and deadlocks between SQL statements.

### AccountDeletion

Sessions are kept per membership as what their date orders them by: `settled`
began before the latest revocation stamp, `fresh` after it; `signing` holds
sign-ins between their last check and their commit. `FileCheck`, `FileInsert`
and `FileCommit` are `request_account_deletion` before the insert, from the
insert to the commit, and the commit: the stamp is taken in the second and seen
after the third. `ReadToApprove`/`Approve` and `ReadToReject`/`Reject` are the
two halves of a review; `ListDue`, `Purge` and `PurgeFails` are the nightly run.
`Begin...` and `EndMove` are the halves of a member change; switching on and
accepting an invitation lose nothing by being one action.

Abstracted: passwords, second factors and tickets (they come before the last
check); managers (rank 2 may not change members, so they act as staff);
new invitations (those that exist at the start can be accepted); what exactly
purging empties (`erased`); obligations other than a stranded organisation (a
reviewer can confirm past them). Not modelled: linking an account to suliko.ge
while a request is open, impersonation.

A sign-in whose last check passes after the stamp was taken and before the
filing commits leaves a session younger than the stamp. `FilingEndsSessions` is
about the sessions that began before; the hazard list names the other.

### OrderFiles

An upload is `BeginUpload`, `PutWorking` (vault files only), `StoreFile`,
`RecordFile`; each may fail, with or without having had its effect, and the
process may die between any two. Files stored before the switch to the vault
are those outside `InVault`. `DeleteDocument`, `DeleteOrder` and `LinkFiles`
write what their `Read...` action saw. The purge is one transaction with storage
calls in the middle: `PurgeFile` and `DropCopy` change storage at once, rows change
in `PurgeCommits`, and `PurgeDies` forgets the rows' part only. A sync holds
`Locked` rows until it commits; requests that write these rows wait.

Abstracted: names and sides of files (renaming and moving between source and
translation change nothing here), the order in which a sync takes its files, the
check for running Suliko Translate jobs in `link_files`, obligations that keep an
order from being deleted. Objects removed from the vault by its own
administrators are outside the code.

### Bureau, Orders, Finances, Pricing

Money is whole tetri and a multiplier is in tenths, so that the rounding of the code's
`Decimal` is `Money`. `CreateOrder`, `DrawNumber`, `CommitOrder` and `CreateFails` are
`create_order` up to its checks, to the flush that draws the number under the
advisory lock (`NumberLockFree`), and its end. `EditOrder` and `WriteEdit` are all
edits: `update_order`, `update_order_document`, `add_order_document`,
`delete_order_document` and `save_order`, which does all of it at once; what is
written is the fields that differ from what was read (`Written`), as the ORM does.
`RecordPayment` and `InsertPayment` are the three ledgers (`Checked` tells them
apart), with a form's idempotency key as its name in `Forms`. `Receivables`,
`ClientOutstanding`, `TranslatorOutstanding`, `NotaryPayouts` and the others
are the overview's queries, each from its own place in `finances.py`. Whether an order
has money is asked of the rows of the ledgers (`Recorded`), as `delete_order` counts
them, not of their sums. What a request can carry (`ItemShape`, `HeaderShape`,
`ChangeShape`) is what its schema lets through.

Abstracted: due dates, custom statuses, lists, refunds copied from the old system.

### Imports, LegacySync

`JudgeWorkbook` is the judging of a file row by row, with the people seen so far and
negative references to people the same file will create; `Begin` judges and `Save`
writes, so that two clerks can import at once. `Undo` and `EraseImport` are the two
halves of `undo`. Cells are already parsed: a row has a name, a phone and, for an
order, what it is. In `LegacySync` the old system is an environment (`Old...`);
`TakeDump` freezes it, `FullImport` and `Sync` are whole transactions run by hand.
`office.imported` counts the rows an import made for each old client, so that a client
who comes over twice shows. A row of money (`Payments`) is what it says, date and sum in
one number, and a number of its own by which the model tells rows apart and Office's
copies of them are counted. The command does not see that number unless the old system
gives the row a button to delete it by, in which its id is found: payments may have one,
expenses never do. `Identity` is what it does see, so two rows alike are one to `Added`.
An old payment may be edited (`OldEditsPayment`); rows are not deleted.

### Portal, Translate

A request of the portal works in two databases sessions, the platform's and the
bureau's; `TranslatorHere`, `InviteTranslator` and the administrator's forms plan what
to write (`Plan`), `Commit` or `RollBack` follow when the table's constraints
(`LinkHolds`) are met or not. Invitations and matching rows are read without an
`ORDER BY`, so which of two for one bureau is taken last, and decides, is any
(`LinkedLast`). Work on a document takes three steps: `Organization` reads the link,
`FindDocument` (or `FindFile`, to take a translation back) looks the document up among
those assigned to the row, and `UploadTranslation` or `DeleteOrderFile` commits, after
the storage answered; what was read is not read again, and staff's `Assign` and
`DeleteTranslator` may come between any two. `moved` marks, for the property, a request whose
caller's account, link or bureau changed meanwhile, or whose document was reassigned once
it had been found.

In `Translate` a person's desk holds the call in progress; `SendRefused`,
`RecordLost`, `AskFailed`, `FetchFails` and `StoreFails` are the failures the code
handles, and those between an outside effect and its record. `Claim` is the guarded
update of `_collect`, which the rollback of a failing look undoes.

### Accounts, SignIn, Members

One account per person, a membership per organisation. A password is a number that
grows with every change, so that a session and a ticket know what they were
opened with. A link has a purpose, a factor a secret and the step of its last
code. `Login`, `SsoExchange` and the forms end in `Open`, a ticket when there is a
choice to make; `StartSession` is the commit. Each desk holds one request, told apart by its
`step`; `about` names what two at once would meet in: a person, an organisation and an errand.
A request whose membership is deleted under it is `Lost`: its rows went with the membership
(`Bereft`), it can only roll back. `Handed` gives a membership to another account with
what hangs on it, requests under way included. Not modelled: fresh codes before
sensitive actions, `reset_to_new`, impersonation, tips, throttling.

### Access, Billing, Feed

Seven permissions stand for the catalogue, one for each way the code treats them:
everybody's, managers', the two of finance, inviting, managing, the owner's. `UpdateUser`
and `InviteUser` check, `CommitAccess` writes the row. An account's month turns by itself
(`MonthTurns`), never two months away from another's; an order is a unit of the
month's count. `OrderNews` is `InsertOrder` with the notifications it sends.

## 3. Runs

| Run | Instance | Shows |
|---|---|---|
| `ClaudeQueue_safety` | 2 workers, 2 files on 1 document, 2 jobs, 2 attempts; one retry, one usage limit, one document deleted | `TypeOK`, `OneActivePerFile`, `AttemptsAreTimeouts`, `ClaimsAreExclusive`, `ResultFiledOnce` |
| `ClaudeQueue_live` | 1 worker, 2 organisations with one file each; usage limit, abort, switch, file removed | `ImplementsLifecycle` (refinement of `JobLifecycle`), `EveryJobSettles` |
| `AccountDeletion_safety` | ann owns two organisations and has a portal record, ben is an invited owner of one; 2 tabs, 2 reviewers, 2 requests | `OneOpenRequest`, `FilingEndsSessions`, `PortalComesBack`, `ErasedWithConsent`, `ApprovedIsCarriedOut` |
| `OrderFiles_safety` | one vault file, one ordinary; 2 documents of one order, 2 syncs, 1 clerk; 2 troubles | `Recoverable`, `PurgeLeavesNothing`, `CopiedOnce`, `OnlyLiveIntoDrive` |
| `OrderFiles_live` | one vault file, 3 troubles | `Reclaimed`, `CopiesAreCapped` |
| `Office_safety` | 2 clerks, 2 orders, 3 documents, 4 payment forms, 1 expense, 2 price lists; four things done in all | `DrawnNumberIsFree`, `OneRowPerForm`, `MoneyStaysWithItsClient`, `PriceFollowsUrgency`, `CardsAgree`, `PaymentNeverOverpays`, `NothingIsLostOnTheSide` |
| `Imports_safety` | 4 files with people in common, 2 clerks, 2 batches, one action of staff | `NothingTwice`, `UndoSparesOthers` |
| `LegacySync_safety` | 2 old orders of 2 clients, 2 rows of money of four sorts, with and without an id and possibly alike; 3 old changes, 3 dumps, 3 runs | `MoneyCopiedOnce`, `StatusFollows` |
| `Portal_safety` | 2 people, 1 bureau, 2 rows, 2 documents, 2 requests at a time; four things done in all | `OneAccountPerRow`, `OnlyOwnWork` |
| `Translate_safety` | 1 source, 3 people of whom one is on the portal, 2 jobs, 2 edits | `FiledOnce`, `OneCharge` |
| `Accounts_safety` | an owner with a second factor, a superuser, somebody outside; 3 organisations, 2 requests at a time; three things done in all | `OldPasswordOpensNothing`, `LinkSpentOnce`, `CodeUsedOnce`, `SomeoneRunsIt` |
| `Workspace_safety` | owner, administrator without finances, newcomer; 2 accounts, 2 months, 2 notes; three things done in all | `BillsWhatIsDue`, `ToldOnce`, `NobodyGivesBeyondTheirOwn` |

`AccountDeletion`, `OrderFiles` and `Finances` also state a `TypeOK`; it says how
their state is shaped and can be added to the `INVARIANTS` of their runs.

### Departures from what the code says of itself

Eight more properties say what a docstring or comment says; the code does not keep them.
Each has a configuration that shows a counterexample with TLC:

| Property, configuration | What happens | What is said |
|---|---|---|
| `FinishedStaysFinished`, `ClaudeQueue_finished` | `post_result` (`api/v1/claude_worker.py:256`) writes `FAILED` by primary key when the document is gone; the job, put back and cancelled between the read and the write, turns from cancelled to failed | `domain/claude_translate.py:11-22`: every move is an UPDATE with the state it is moving from |
| `DeletionLeavesAnOwner`, `AccountDeletion_owner` | two owners both ask to be deleted; each counts as the owner the other leaves (`domain/accounts.py:268`), and the purge does not look again | `domain/account_deletion.py:466-468`: refused when an organisation would be left without an owner |
| `RejectedIsKept`, `AccountDeletion_rejected` | `purge_accounts` (`cli.py:512`) lists what is due once; a request rejected afterwards is carried out | `domain/account_deletion.py:15-16`: a rejection ends a request without deleting anything |
| `BothOrNeither`, `OrderFiles_copies` | a working copy put before a failed vault upload stays behind with no row (`domain/order_files.py:273`) | `domain/order_files.py:255-256`: both are made, or neither |
| `SyncGoesThrough`, `LegacySync_payouts` | `next(...)` without a default (`domain/tarjimnebi_import.py:741`) ends the sync when the translator of an old payment is not among those the sync loaded | `domain/tarjimnebi_import.py:16-18`: a sync brings an earlier import up to date |
| `EveryRowComesOver`, `LegacySync_alike` | an expense, or a payment without a delete button, that is like one of the dump loaded before is taken for it and left out: expenses are compared whole (`domain/tarjimnebi_import.py:844`), and such payments have no id in their key (`:179-180`) | `domain/tarjimnebi_import.py:16-18`: a sync adds what is new |
| `AssignedWhenFiled`, `Portal_reassigned` | `upload_translation` looks the document up (`api/v1/portal.py:529-530`), then stores the file and commits; staff give the document to another translator in between, and the translation is filed by the one who lost it | `api/v1/portal.py:5-8`: a translator sees only the documents assigned to them |
| `CompletedHasResult`, `Translate_fetch` | a look that claimed the job and cannot fetch its result leaves it completed without one (`api/v1/order_translations.py:565-655`) | `api/v1/order_translations.py:634-635`: an unreachable suliko.ge leaves the job as it is |

### Known races

What the "unless they overlapped" of the properties leaves out, found as
counterexamples of the unweakened properties:

* **Members**: two owners who change or leave at once strand the organisation; an
  owner who was invited and never came counts as one; a superuser may leave
  the platform as its last.
* **Links and codes**: two requests can spend one link, or one code, at the same moment;
  a refused reset rolls the spending of its link back.
* **Access**: of two editors of a person the later save gives back what the earlier took.
* **Office**: two payments at once may pass what is owed; an order's client may change
  under a payment being recorded; two documents deleted at once leave an order without
  one; a payout deleted while a notary payment goes through it; two creations at once, or
  a cancelled order taken up again, exceed the package. Not in the model: an import
  that keeps the old numbers (`--keep-numbers`) draws none and so takes no numbering
  lock, and a creation at that moment may draw one of them; the unique index then fails
  one of the two.
* **Imports**: two overlapping commits of one file double it; an undo takes an expense
  with it; a translator who was deactivated is not recognised and created anew.
* **LegacySync**: the same dump synced twice doubles payments; an edited old payment
  counts twice; a row without an id that is like one which came over before never comes.
* **Translate**: two clicks at once are both charged; a start whose record fails was
  charged without a row.
* **Portal**: a link removed during a request still serves it; a document given to
  another translator after the request found it still takes the translation, or gives
  it back, of the one who had it; two invitations that
  match one account point it to the later row.
* **Billing**: a month made free while invoices are prepared may be billed; an ended month
  is billed at the package of the day it is prepared.

### Bounds, and why they are enough

Two of everything that races: workers, tabs, reviewers, syncs, clerks, desks; the
code's conflicts are all between two transactions about one row, and a third adds
another order of the same pairs. One retry after `MaxAttempts = 2` visits every
value an attempt count passes through. Rare events (a retry, a usage limit, a
crash, a refused call, a document deleted, what people choose to do) are
bounded by a budget: per kind, and in the larger compositions a total over all
kinds (`all`, `any`), three or four, which is what the shortest way to break each of
their properties takes with the checks in place of it removed. Two troubles in
`OrderFiles_safety` let a failure meet a crash. One clerk suffices there because
uploads, removals, the purge and the syncs run beside him. Forms, roles and files are
chosen so that they collide: the same phone in two files, an administrator who may not
see finances, a payment for the same order as another, two rows of money that say the
same and show no id. Symmetry is over desks,
importers, clerks or documents that nothing tells apart. Deadlock checking is off where the
instance really ends (every budget spent); `ClaudeQueue` has no such state, its
workers ask for ever.

### Fairness

* *Workers*: `run` loops for ever and every HTTP call has a timeout, so each step
  of a claim and of a job is weakly fair. Crashes are not excluded by this:
  `Vanish` may always come first.
* *Time*: `GrowOverdue`, `GraceEnds`, `Ripen` and `GrowOld` are weakly fair.
* *Requests begun* end. Where a request waits for row locks that a sync takes
  again and again (`ClerkWrites`, `PurgeCommits`), fairness is strong: PostgreSQL
  queues lock requests in their order.
* *The nightly commands* are scheduled daily (README of the repository), hence weakly fair.
* People are never fair: no staff action, sign-in, review or retry must happen.
  Failures are bounded, not fair. The modules without liveness properties state no
  fairness at all: nothing in them happens but through a request.

## 4. Proofs

TLC shows a property on the instance of a run; a theorem shows it for every value of
the constants that the module's `ASSUME`s allow. In each proof module the theorems
follow from `Invariance`, `Spec => []IInv` (for `LegacySync` `SyncInvariance` with
`SyncInv`, for `Imports` `ImportInvariance` with `ImportInv`): the properties are not inductive alone, and `IInv` adds, as named parts,
what they rest on. Every action has a lemma, or several actions of one shape share
one; TLC checked each `IInv` before it was proved.

The assumptions are the modules': counts are naturals, sets that are counted are
finite, `None` is none of the things it stands in for (a person, a row, a job), files
are in documents and documents in orders (those of prices and requests are with
`FinancesProofs` and `FeedProofs` below). Nothing is assumed about how many of
anything there are.

### ClaudeQueueProofs

`OneActivePerFile`, `AttemptsAreTimeouts`, `ClaimsAreExclusive` and `ResultFiledOnce`
rest on `RowsExist` (fields of rows that were not created are at their first value, and
variables name created jobs), `OverdueAreHeld` (only a translating job can be
overdue; without it a timeout could move a finished job and break the count of
attempts), `StagesAgree` (a worker in a stage of a job holds one; locked rows
only while committing), `AskingFits` and `RetryingExists` (what a request has
read stays possible), `FiledBelongs` (at most one file for a job; a translated job
has one, and a job that has one but is not translated hangs on a document that is
gone) and `GoneStaysGone` (documents do not return, so a worker
that saw its document gone writes `FAILED` on a job that can never be filed; this
is what keeps the unguarded write from breaking `ResultFiledOnce`).

*Refinement.* Each step moves rows in one of the ways `RowMoves` lists, and each of
these is a step of `JobLifecycle` or a stutter, but one: the unguarded write of `post_result`
(`api/v1/claude_worker.py:256`, the finding of `ClaudeQueue_finished`) can fail a job that
has ended. `ImplementsLifecycleHolds` therefore says `Spec /\ [][GoneInTime]_vars =>
ImplementsLifecycle`, where `GoneInTime` is that this write, when it happens, finds the
job still being translated; everything else is unconditional.
`ImplementsLifecycleWhileDocumentsStay` needs no such condition where no document is
deleted, which is the setting of `ClaudeQueue_live`. `FinishedStaysFinishedHolds` says of
the finding that this write is its only cause.

### FilesProofs

*OrderFiles.* `Recoverable` and `PurgeLeavesNothing` rest on `UploadsAgree` (bytes before the row),
`RipeAgree` (only removed files outlive their retention period), `ClerksAgree` (what a
clerk read is not ripe, so relinking never revives a file the purge took: ripening waits
for the requests under way, which a retention period of days outlasts), `CopiesKnown` and
`PurgeAgrees` (what the purge's transaction has listed stays as it was listed, and what it
has removed from storage is gone there already when it commits or dies). `CopiedOnce` and
`OnlyLiveIntoDrive` rest on `SyncsAgree`: two syncs never have one order, by the row lock,
and what a sync has listed is live until it commits.

*Imports.* `ImportInv` says of what a request has decided and not yet written that, unless it
met another, it still holds when it writes (`Undisturbed`): the people to save are `Apart` from
each other and from everyone there, the orders have keys that neither a standing order nor
another row has (`Fresh`), and what is to be undone may still be undone. It rests on `Alone` (at
most one request is at work while nothing overlapped), on `PeopleFine` and `OrdersFine` (ids
only grow, so a negative reference becomes an id nobody had) and on `ClientsExist`: an undo that
would leave an order without its client either keeps the client or is rejected, and that is the
second part of `UndoSparesOthers`.

Most of the proof is that judging a workbook comes to such a decision, for every workbook. A
judgement is `JudgedFine`: everyone the bureau has, and everyone accepted so far, is on the list
on which the next row is looked up (`PeopleSeen`), by phone and by name where names count; every
entry names somebody (`ListsFine`); every order is known (`OrdersKnown`). Each way of judging a
row keeps that (`JudgeClientKeeps`, `JudgeTranslatorKeeps`, `JudgeNotaryKeeps`,
`JudgeOrderKeeps`), and so do a sheet, the sheets of a kind and the workbook. The one that needs
care is the translator an order names: orders look translators up on a list of their own, which
says who is new only where no sheet of translators is in the file (`Watched`), and the combined
import judges that sheet before it judges orders. Sheets and rows are gone through by recursive
functions; what they do for every length is an induction over the natural numbers: a set of
numbers with 0 and the successor of each has all (`Upwards`).

Assumed of the constants: the bureau starts without two people who are one person twice (what it
keeps from before is as it is: `NothingTwice` is about what imports add to it), names and phones
are strings, `Absent` is none of them, a sheet holds rows of its kind, one that is not
recognised holds none that are judged, and a file of one sheet has a kind, which the clerk chooses.

### AccountDeletionProofs

`OneOpenRequest` rests on `TabsAgree`: an insert that has not committed is the only one of
its person, by the unique index, and they have no open request. `FilingEndsSessions` and
`ErasedWithConsent` rest on `SessionsAgree` (a session is older than a stamp only while that stamp is
not committed) and `ErasedAgree`; `PortalComesBack` on `DesksAgree` (a rejection that will
let go of a portal knows that it must switch it on again).

### OutsideProofs

*Translate.* `FiledOnce` rests on `ClaimsAgree` and `EndedThere`: whoever fetches or
stores a result has the row updated and not committed, so nobody else can claim it, and
a job that suliko.ge has ended stays ended, so that its row is claimed from `processing`
once. `OneCharge` is `ChargedOnce` with what the requests in flight know: outside
overlapping clicks, one that is about to send has seen that no job is at work on its
file.

*LegacySync.* Neither property is inductive: a sync applies a difference of two dumps
and never sees what the syncs before it wrote. `DumpsFollow` says that, while no old
payment was edited, each dump has every order, payment, expense and event of those
before it, the events as a prefix (`Grows`). `CaughtUp` says that with syncs made
against the dump loaded before, Office is as that dump, in both directions
(`BooksAgree`): every row of the dump is in its book once, or is not there and staff
changed the documents or a dump brought over before listed a row like it without listing
this one (`TakenForOld`); and every number that is not such a row's has nothing under it.
The second half is why what the next dump adds lands on an empty line
(`MoreBooksAgree`). A row that was in the dump loaded last is never added again, for
it is like itself; a row that is new is left out by `Added` only when it is like an earlier one,
which makes the dump before the witness of `TakenForOld`, and the witness stays, as
`brought` only grows (`OneMoreListing`). `EventsAgree` is stronger than `StatusFollows`: events that all came
over are in the order of their times and end no later than the old history does. It is
what makes the newest event, which `Latest` finds by time, the last one that was
appended, and it needs `AddedAreLater`: what is left of a history when the events of the
earlier dump are taken out of it is later than all of these. The events taken out are
found by value, by a recursive function over the history (`AddedEvents`);
`AddedEventsAre` is an induction over its length, of the form of `Upwards`.

Assumed of the constants: ids in the old system are numbers, and it has at least one
order; each order has its client and its translator; `NoOrder` is not an order.

### PortalProofs

`OneAccountPerRow` rests on `RowsMade` (the next row's id is in no link) and on the
uniqueness the database enforces at the commit (`LinkHolds`), for every order in which
`resolve` may read invitations. `OnlyOwnWork` rests on `DesksAgree`: until something about
its caller changes, a request works for the row it resolved, and one that has found its
document works on what is that row's, until the document is reassigned. `Touched` says
what a change to somebody, or to an assignment, does to the requests under way; each
action that writes a table is shown to touch all that it concerns.

### MembersProofs

`OldPasswordOpensNothing` is one conjunct of `PasswordsAgree`, which says the same of sessions
that are being opened, and of requests that will set a password: each of them has every
session of its person among those it will end, or the session knows that it was opened
meanwhile (`raced`). `OpeningsAgree` keeps the row a sign-in will write apart from every other,
so that revoking by row revokes the right one, and `ClaimsAgree` says that whoever signs in,
or is mailed a link for a password or an address, has an account that somebody uses: it is why a
membership handed to another account, which is only ever a placeholder's, takes no
session along.

`LinkSpentOnce` rests on `LinksAgree`: where no two requests met, a request about to spend a
link found it unspent, and one about to issue a link has read all that are outstanding.
`AboutsAgree` ties what a request is `about` to the membership its link or factor hangs on, and
`RowsAgree` that membership to a row, through deletions (`LinksRemoved`) and handing over
(`LinksFollow`, `GuardsFollow`, `KeysFollow`: keys that were apart stay apart).

`CodeUsedOnce` is inductive with `CodesAgree` (a code that released a session is spent, and one
that a request is about to spend is not), which needs `FactorsAgree` and `OneHolder`: a
secret, or a set of recovery codes, is made once and belongs to one membership, wherever it is
remembered. `MembersAgree` says that members have accounts, in organisations that exist.

`SomeoneRunsIt` is an action property, and follows from `IInv` with `ChangesAgree`: a request
that has checked a change of a member is the only one changing that organisation, or the
two are marked in `overlapped`; and while it is alone, what its check found (`Spared`:
without that owner somebody runs the organisation, or nobody else uses it) still holds
when it commits. Each step therefore either leaves every role and access of an
organisation as they were, only adds to them, hands one membership on whole, or is marked.

### FinancesProofs

A request decides on what it read and writes in a later step, without a lock. `Relies` says,
for each kind of request, what it read that must still be so: an edit that nothing
overlapped still finds the order it read (`EditAlone`), and what it will write has the
engine's prices at the urgency it will write; a removal finds no expenses; a payment finds its
orders with its client; an undoing finds nothing paid through the row; a number that was
drawn is free. Where two requests that touch the same order or form are in flight, `mixed`
says so when the first of them ends, and what is promised for the others is weaker
(`EditRows`: the documents it read are of its order or gone). That a step disturbs no other
request is one argument for all of them: `Around(T)` says that the step changes only rows
of the orders and forms in `T`, that it adds no payment, expense or link elsewhere,
and that new rows have new ids; each writing action satisfies it with what its own
request `Touches`, and `ReliesStays` does the rest.

`PriceFollowsUrgency` is `DocsPriced` with the price lists' order: no price was set under a
list that is still to come. It rests on lemmas about the engine, for every line and
price list: its figures are naturals (`FiguresAreNat`, through the rounding of `Money` and
the tiers), repricing for another urgency (`RepricedFits`), a changed line (`ChangeFits`)
and a new one (`DraftsOf`) fit the urgency they are made for, and the columns that the ORM
writes over an untouched row make the row that was meant (`WrittenDoc`).
`DrawnNumberIsFree` needs that a finite set of numbers has a largest one (`MaxOfFinite`) and
`OneDraws`: the advisory lock lets one request hold a number. `OneRowPerForm` holds without
`mixed`, because the foreign keys are checked again when the row is written.

The figures of money are sums over sets of rows (`SumFunction`), which the library defines by
recursion over sets. `FiniteInduction` is the induction they need, over the set of the subsets
that a claim is true of; from it follow that a sum may take its members in any order (`SumOut`),
that it is what its disjoint parts come to (`SumUnion`, `SumOfParts`), and that a table adds up
to the same by lines and by columns (`SumExchange`). `CardsAgree` is then three lemmas:
`ReceivablesByClient` (every unpaid order is of one client), `PayoutsByPerson` (a fee that was
fronted names a translator's payout, `FrontedVia`, so it is in that person's total once) and
`PaymentsByClient` (what a client's forms left over and what they allocated, the second
summed by order instead of by form).

`PaymentNeverOverpays` is an action property with an invariant of its own, `PayInv`: what a
payment's checks found is still owed, for each order it allocates to that is not `mixed`.
`Settled(T)` says that a step leaves alone what the figures of the orders outside `T` are read
off; each action satisfies it for what its request touches, and `PayStays` does the rest.
When the row is written, `OneRowMore` adds its share to the figure, and to no other.

Assumed of the constants: prices and rates are naturals, a line has 1 to 10 000 pages and
items, headers and changes have their fields, as `api/v1/orders.py:102-244` lets them
through. The forms, clients and translators are finite sets; an amount is a natural and a
share at least one tetri, the shares are no more than the amount (`PositiveMoney` and
`_allocations_fit`, `api/v1/finances.py:829-861`, `1183-1206`, `1478-1496`), and the client or
translator that a form names exists, as the handlers look them up first; only a notary's form
names a payout, and it names a translator's.

### FeedProofs

A request about access or billing, too, commits on what it read. `Relies` says what that
was: an invitation gives no more than its editor held (`After(tx)`, what the person may do
once it is committed); an update is `Fair`, it adds to what the person may do now only what
the editor held, and without a change of role removes only that; a month being made free has
no invoice yet; the invoices being made are for months that are over and not free. What others
commit meanwhile leaves that true, unless it is about the same person or month, and then
`Apart` says that `overlapped` knows (`RelyStays`). `BoxesComeBack` is what makes
`WrittenOverrides` right: the difference that is stored for a set of boxes gives back these
boxes for the role it was computed for, and nothing more but inviting with managing.
`BillsWhatIsDue` is a part of `IInv` as it stands; `Bells` is `ToldOnce` without counting,
with the fact that a bell has only notes that exist, so that the id a new note takes is in no
bell yet.

`NobodyGivesBeyondTheirOwn` is an action property: `OnlyCommitsGive` shows that of all steps
only a commit, and the choice of a plan, change what anyone may do; `CommitIsFair` shows the
rest for a commit.

Assumed of the constants: a package includes at least one order, its price is a natural or
`None` (`PackageUpdate`, `api/v1/platform_billing.py:76-79`); `None` is no override and no note.

### Only model-checked

* Liveness (`EveryJobSettles`, `Reclaimed`, `CopiesAreCapped`, `ApprovedIsCarriedOut`):
  fairness and `ENABLED` are beyond TLAPS.
* The departures of section 3, which are counterexamples.

## 5. Plan

The components that change state are modelled. What is left, in this order:

1. Fresh codes before sensitive actions, with `SignIn`.
2. `Translate` against `JobLifecycle` as far as its lookers allow, and its liveness (a
   finished job is filed if people keep looking).

## 6. Not modelled

Formatting and documents (`translation_docx`, mail texts, exports, invoice
templates): text in, text out. Parsing of spreadsheets and cells. Reference data and
directories: single forms over single rows. Reports and lists, which only read. Rate
limits in process memory, configuration, audit log, migrations. Row-level security and
tenant filters are taken to work. The reasons stand with each component in
`PROJECT.json`, and what a modelled component leaves out with its module above.

## 7. Running

    tlc -config ClaudeQueue_safety.cfg MCClaudeQueue
    tlapm ClaudeQueueProofs.tla

and so for the others; each run takes at most about two minutes with two TLC
workers, each proof module a few.
