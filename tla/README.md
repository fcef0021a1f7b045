# OpenLMS: a TLA+ verification project

This directory holds TLA+ models of the OpenLMS API (`src/apps/api`), TLC configurations that
check them on small instances, and TLAPS proofs that extend the results to every size. It is
meant to be read next to the code: every definition that stands for code is listed in
`PROJECT.json` under `map` with the file and the lines it models.

1. [The system](#1-the-system)
2. [How the code is modelled](#2-how-the-code-is-modelled)
3. [Modules](#3-modules)
4. [Runs, bounds and fairness](#4-runs-bounds-and-fairness)
5. [Proofs](#5-proofs)
6. [Where the code and its documentation differ](#6-where-the-code-and-its-documentation-differ)
7. [What is not modelled](#7-what-is-not-modelled)
8. [Plan](#8-plan)

## 1. The system

OpenLMS is a school information system: a NestJS API over PostgreSQL (through Prisma) with an
optional Redis (cache, rate limits, BullMQ), a socket gateway, and a React client. Almost all of
its state is rows in PostgreSQL; what is hard is what happens when several HTTP requests, a cron
job and a restart meet on the same rows.

| Component (under `src/apps/api/src/modules`) | State | Operations that change it | Interacts with | Hard behaviour | What makes it correct |
|---|---|---|---|---|---|
| Exam attempts `exam/exam-attempt.service.ts` | `ExamAttempt`, `ExamAnswerLog`, `Grade` rows, rooms told to stop | start, saveAnswers, submit, autoSubmitExpired, markExpired, manualGrade, logActivity | reads exam and session; job processor; realtime; audit | concurrent starts, retried autosaves, submit against sweep against proctor, rollback of a batch, restart in a batch | one attempt per student and per token; autosave idempotent; status and Grade agree; only saved answers are graded; overdue attempts end, unless the queue keeps ignoring the cron; push only after commit |
| Exam management `exam/exam.service.ts` | `Exam.status`, session token and its expiry, packages | publish, close, generateToken, package and question edits | attempts read it | read before the transaction that relies on it | a new token invalidates the old |
| Asset bookings `asset/services` | `Asset.status`, `AssetBooking`, `AssetMaintenance`, `AssetAudit` | book, approve, reject, cancel, complete, update, maintenance, audit, approveRetired | row lock on the asset | two bookings of one interval, decisions on stale reads, two statements without a transaction | active bookings of an asset do not overlap; a slot given up stays given up; no booking of a retired asset |
| Finance: invoices, payments, late fees `finance/services` | `Invoice`, `Payment`, `DendaInvoice` | create, createMany, SPP job, record, recordAllocated, verify, carryOver, refresh, denda job | notifications; rollover counts outstanding invoices | replayed payments, two verifications, jobs against requests | a payment counted once; an invoice status never ahead of its payments; one invoice per student, type and period |
| Finance: refunds `finance/services/refund.service.ts` | `Refund`, cash flow | create, two approvals, reject, pay | cash flow | two decisions on one row, stop between PAID and the booking | paid only with the approvals the amount needs; cash leaves once |
| Payroll `payroll/services` | `PayrollRun` with its items, payslips | create (job or inline), calculate, validate, two approvals | queue, salary data | recalculation against approval, stop between PAID and the retried job | the figures paid were signed; one payslip per employee; a completed job has its run |
| Year rollover `rollover/rollover.service.ts` | `RolloverRun` with its saved steps, `AcademicYear`, classes, enrolments, alumni | draft, precheck, dryRun, execute (claim, resume), rollback | queue; writes academic, PPDB and alumni rows; reads the audit log | crash in a step, resume, time-out reclaim of a live executor, redelivered job | each student placed once, as previewed; the new year opens last; rollback restores |
| Quizzes `quiz/quiz-attempt.service.ts` | `QuizAttempt` with answers in one JSON column, `Grade` | start, saveAnswer, submit, autoSubmitExpired | job processor | read-modify-write of the column, stale batch snapshot | a grade exactly for a finished attempt; acknowledged answers are graded |
| Queue and jobs `queue`, `jobs` | job ids and states, timers | enqueue, run, cron tick | payroll, rollover, import, sweeps, reports | at-least-once delivery, ids kept after completion, in-process fallback | a handler survives a second delivery; success is true |
| Attendance `attendance` | `Attendance`, `AttendanceRecord`, QR tokens | record, scan, permits and their verification | notifications | two scans of one token, lost answers, a permit verified from a stale note | one record per student and session; a used token let its user in; status follows the permit |
| LMS `lms` | assignments, submissions, grades, materials, classes | submit, cancel, grade, publish, close, CRUD | storage, notifications | replacement against grading, repeated keys, two statements without a transaction | graded work stands; a repeated submit writes nothing |
| Admissions `ppdb`, alumni | `PpdbApplicant`, `ParentalConsent`, roles, enrolments | register, verify, select, waitlist, enroll | users, classes; rollover | five statements without a transaction, stale decisions | only the selected are placed; the enrolled have role, place and consent |
| Authentication `auth/auth.service.ts` | counters and lock of `User`, `RefreshToken` | login, refresh, logout, reset, change password | every guard | lost counter updates, refresh twice, an update nobody awaits | locks in time; an exchanged token is dead; a reset ends all sessions |
| Personal data `pdp` | `PdpRequest`, the user's row, `DataExportLog` | ask, approve, reject, anonymise, export, retention | storage | stop between anonymisation and EXECUTED, exports in flight | an executed erasure is complete |
| Maintenance switch `maintenance` | `SystemStatus`, a copy in memory | update, expiry, reload | middleware of every request | a slow query stores an old answer; a copy per process | the status a request is answered with was current when the request came or, from the copy, less than its time ago |
| Timetable `academic`, `lms/classes` | `ScheduleEntry` | create, update, remove, by two services | | check and insert in separate statements, two ideas of a clash | an entry keeps the rule of the service that wrote it, towards all it was compared with |
| Onboarding `onboarding` | `ImportBatch`, users, roles, enrolments | import by job | queue | retry after a successful insert, two files with one student | a closed batch accounts for its rows |
| Roles and permissions `auth`, `rbac-admin`, `common/cache` | `RolePermission`, copies in memory and Redis | change a role, invalidate | every guard | a load that began before the change, several instances | rights taken back are forgotten |
| File storage `storage`, `jobs` | files, paths in rows | upload, delete, daily clean-up | every table with a path | a path saved while the clean-up walks | files that rows name stay |
| Report cards `rapor` | P5 assessments, one settings row; the card itself is computed from `Grade` when it is read | upsert, settings, export job | reads Grade | read-modify-write of the settings row | last writer wins |
| Notifications, realtime, communication | inbox rows, rooms | create, emit | called by most | best effort | no decision depends on them |
| Audit `audit`, `lms/lms-audit.ts` | append-only rows | write | called by most | written on a second connection | only rollback decides on it (`Rollover`) |
| Settings, branding, landing, feature flags, statistics, export, parent portal, health, metrics, `common` | configuration rows, caches | CRUD, reads | | last writer wins | |
| Web client `src/apps/web`, packages, deployment, scripts | none that the API trusts | sends requests, retries autosaves | | retries | |

## 2. How the code is modelled

*Transactions.* PostgreSQL runs the Prisma transactions at READ COMMITTED. Each read sees what is
committed when it runs, and the writes of a transaction become visible together when it commits.
A handler is therefore a read step, which keeps in its slot what the code keeps in local
variables, and a commit step, which writes from those values and not from the current rows. Where
the code takes a row lock (`SELECT ... FOR UPDATE`, a conditional update inside a transaction),
taking it is a step of its own and the lock is a variable. What the code does in one SQL statement
(`updateMany where status = PENDING`, `createMany skipDuplicates`, a unique key) is one step. Most
services use no transaction at all: there every statement is a step.

*Failure.* `Abort` and the actions `...Fails` end a request between two of its steps: a failing
query, a rollback, a time-out or a crash of the process. Restarts lose what is in memory
(`ServerRestarts`, `InstanceRestarts`, `ProcessRestarts`, `Crash`).

*Requests.* The exam, booking and billing models have their own slots. The other services share
`Requests`: `at[h]` is the database call handler `h` makes next, `held[h]` its locals, `alone` a
choice made once: TRUE means that requests happen to come one after the other. A property
`alone => ...` is one that the order of the requests protects and that overlapping requests can
break; the others are protected by the database, a lock or a unique key. The distinction is the
point: most of these services decide on a row as read and write it by id, and each property says
which of its parts survive overlap. Failures and retries happen in both cases. `Rollover` makes the
same distinction with its `mode` (`serial`, `race`, `any`).

*Jobs.* `JobQueue` is what the code relies on in BullMQ (`queue/bullmq.queue.ts` and its options):
a job is waiting, active, completed or failed; an added id that is still kept is ignored; a job
that throws is retried up to `Attempts` times, one whose lock is lost is delivered again up to
`Stalls` times while the first delivery goes on; ended jobs are evicted. What BullMQ does by
itself is marked external.

*Data.* Ids, tokens, keys, answers and marks are model values. A score is the vector of answers it
was computed from, so "the score is of the right answers" can be said without arithmetic; a Grade
is the pair of an automatic and a manual part. Salaries are members of a small set of figures,
passwords and permission sets are version numbers. Audit rows, logging, notifications other than
the force-submit push, formatting and access checks are left out.

*Time.* `now`, `clock`, `hour`, `day`, `moment` are small counters; time stamps and expiries are
values of them. Rollover's ten-minute lease is the flag `stale`.

*History variables* record what left the process or what a property compares with: `told`,
`pushed`, `acked`, `written`, `judged`, `chosen`, `settled`, `misses`, `shown`, `undoing`,
`leftAt`, `contested`, `compared`, `missed`, `regraded`, `overtaken`, `replacedAt`, `settledOn`,
`longest`. No action of the code is guarded by
one. Bounds (`MaxRefunds`, `MaxSittings`, `LastTick`, ..., `Full` in AssetBooking) are named in the
modules and are not code.

## 3. Modules

| Module | Contents |
|---|---|
| `ExamSeat` | Abstract: what a session promises. A seat of a student goes none, open, closed; opening spends a token. |
| `ExamAttempt` | The attempts of one session, with the token and the exam status. One action per statement boundary of each handler; `Sweep*` is one run of `autoSubmitExpired`, page by page with its in-memory cursor. |
| `AutoSubmit` | `ExamAttempt` under what starts its sweeps: the cron, the endpoint, and with Redis the job of fixed id and the worker that takes it. Fairness and liveness are stated here. |
| `BookingCalendar` | Abstract: bookings hold slots that do not clash, and a slot given up is never held again. |
| `AssetBooking` | Assets, bookings, stocktaking audits; lock, check and commit of each handler. |
| `Ledger` | Abstract: an account per invoice, opened and closed once, and payments as entries. An entry is posted to an open account, once per key, is accepted or refused once, and is erased by the closing of its account and by nothing else. |
| `Billing` | Invoices, payments and denda; one action per statement or transaction boundary of each handler and of the late-fee job. |
| `Requests`, `JobQueue` | Shared by the modules below: request slots, and the jobs of the queue. |
| `Rollover` | The run of a year, the school it changes, executions (by job, inline, resumed), the operator's preview and rollback. |
| `Payroll`, `Refund` | The payroll run of a period, from its job to the payslips; refunds with their two approvals and the cash-flow entry. |
| `Quiz` | Quiz attempts with answers in one column, the sweep, the grade. |
| `Register`, `CheckIn` | Abstract: a student enters the list of a session once, by a code of his own. Detailed: QR tokens and scans. |
| `Permit` | Attendance rows of a day or lesson and the permits kept in their notes. |
| `Import` | The import of students from a file, request and job. |
| `Submission` | What students hand in, with keys, replacement, withdrawal and grading; status and deadline of the assignment. |
| `Admission` | Applicants from registration to enrolment. |
| `Session` | Login with its lock, refresh rotation, passwords. |
| `Maintenance` | The switch with its copy in memory. |
| `Timetable` | The schedule entries of a day under two services. |
| `Erasure` | A user's request for erasure, profile and exports. |
| `PermissionCache` | The rights of one role with their copies in memory of each instance and in Redis. |
| `FileStore` | Uploads, rows that name them, the daily removal of orphans. |
| `MCExamAttempt`, `MCAutoSubmit`, `MCBilling`, `MCRollover` | Sets of operations, ids and scenarios for TLC. |
| `MCServices`, `MCOffice` | Compositions for TLC: services that share no rows side by side; `scope` picks the one whose requests come, so the states add up instead of multiplying. |
| `ExamAttempt_proofs`, `AssetBooking_proofs`, `Billing_proofs`, `Rollover_proofs`, `Payroll_proofs`, `CheckIn_proofs`, `JobQueue_proofs`, `Services_proofs` | Theorems (section 5). |

`Ops` of ExamAttempt says which operations clients send; it splits the state space between runs and
is arbitrary in the proofs. Operators whose comment begins with "Mutant" are the plausible bugs
(a dropped guard, an off-by-one, a missing write) each property is known to detect; they are not
part of any specification.

How `ExamAttempt` follows the code (`exam-attempt.service.ts` unless said otherwise):

| Handler | Actions | Notes |
|---|---|---|
| `start` 83-220 | `StartRead`, `StartCheck`, `StartCreate` | window, status and token are read outside the transaction; the two `findFirst` are one step, the insert under `UniqueKeys` (schema.prisma 1118-1119) another |
| `saveAnswers` 232-313 | `SaveRead`, `SaveCommit`, `SaveOverdue` | `saved_at` is taken somewhere between read and commit; the late branch rolls its own finalisation back, so only `told` changes |
| `submit` 317-332, `finalizeWithinTx` 698-728 | `SubmitRead`, `SubmitScore`, `SubmitCommit` | the update is by id, whatever the status has become |
| `autoSubmitExpired` 358-404 | `SweepBegin`, `SweepRead`, `SweepScore`, `SweepCommit`, `SweepEmit`, `SweepAbort` | offset pagination over a result that shrinks as batches commit |
| `markExpired` 449-472 | `ExpireRead`, `ExpireCommit` | |
| `manualGrade` 476-505 | `ManualGradeRead`, `ManualGradeCommit` | the Grade is computed from the row read first |
| `logActivity` 509-542 | `ActivityRead`, `ActivityCommit` | read-modify-write of `device_info` |
| `exam.service` `setStatus`, `generateToken` | `SetStatusRead`, `SetStatusCommit`, `GenerateToken` | |
| `exam-autosubmit.processor.ts`, `bullmq.queue.ts` (`AutoSubmit`) | `CronSweeps`, `EndpointSweeps`, `CronEnqueues`, `WorkerSweeps`, `JobCompletes`, `OthersBreak`, `SweepBreaks`, `QueueForgets` | with Redis the cron only adds a job, and an added id that is still kept is ignored; the handler also ticks exams and sweeps quizzes, and fails with either |

How `Billing` follows the code (`finance/services`):

| Handler | Actions | Notes |
|---|---|---|
| `invoice.service` `create`, `createManyForStudents`; `spp-scheduler.service` `generateSpp` | `CreateRead`, `CreateCommit` | numbers are the count read first plus one, two, ...; the insert meets both unique keys, and loses a row (SPP, `skipDuplicates`) or the batch |
| `invoice.service` `remove` | `Remove` | the cascade takes the payments along |
| `payment.service` `record`, `recordAllocated` | `RecordRead`, `RecordCommit` | key look-up first, unique key at the insert; `touches` is the `allocations` column with the primary invoice |
| `payment.service` `verify`, `recomputeInvoiceStatus` | `VerifyClaim`, `VerifyRecompute`, `VerifyCommit` | one transaction: the claim is a conditional update that locks the payment row; each invoice is read on its own, everything becomes visible at the commit |
| `payment.service` `refreshOverdueStatuses`, `late-fee.service` `runDailyDenda` | `DendaBegin`, `DendaMark`, `DendaRead`, `DendaCount`, `DendaCharge` | five statements and no transaction |
| `late-fee.service` `deleteDenda` | `DeleteDenda` | soft deletion: the row keeps its unique key |

Amounts are abstract in `Billing`: `Covers[i]` holds the sets of payments that add up to the net
amount of invoice `i`, and all that is assumed is that more payments never cover less (`record`
refuses amounts that are not positive). That is what `computeInvoiceTotals` tells apart.

How `AssetBooking` follows the code (`asset/services`): `book` is `BookLock`, `BookCheck`,
`BookCommit`; `approve` is `ApproveRead`, `ApproveLock`, `ApproveCheck`, `ApproveCommit`; `reject`,
`cancel` and `complete` are a `...Read` and a `...Commit`; `AssetService.update` is `UpdateAsset`,
maintenance `ScheduleMaintenance`, stocktaking `CreateAudit`, and `approveRetired` is `RetireRead`,
`RetireApprove`, `RetireApply`.

How `Rollover` follows the code (`rollover.service.ts`): there is one run per source year. Every
write is a step; the reads before the first write of a request are one step.

| Handler | Actions | Notes |
|---|---|---|
| `precheck`, `dryRun` 191-328 | `PrecheckRead`, `PrecheckCommit`, `DryRunRead`, `DryRunCommit` | both write by id; dryRun writes the whole `step_state` back as it read it |
| controller, `rollover.processor.ts` | `ExecuteRequest`, `ExecuteInline`, `TakeJob` | by the queue, or by the request itself when Redis does not answer |
| `execute` 330-397 | `ExecuteStart`, `ExecuteRefused`, `Reclaim`, `Claim` | `MayExecute` and `Executable` are the checks of the status and of the plan; the claim is the conditional update |
| `execute` 399-734 | `Begin`, `Persist`, `CloseSource`, `CreateClass`, `ClassesCreated`, `CopyCurriculum`, `Graduate*`, `Promote*`, `Ppdb*`, `SetCurrent`, `Finish` | each of the seven steps creates before it marks, marks before it records itself done |
| `catch` 735-750 | `Fail`, `PromoteThrows` | |
| queue, process | `Crash`, `Redeliver`, `LockLost`, `Age`, `EvictJob` | bounded by `faults` |
| `rollback` 753-836 | `RollbackRead`, `UndoRows`, `UndoClasses`, `UndoAlumni`, `UndoStatus`, `UndoYears`, `UndoFinish`, `DeskFails` | a repeated rollback starts over from the same record |
| others | `Regrade`, `StaffEnrolls`, `DeleteInvoice` | what can change the plan or counts as a write after the execution |

The other services, each action named after what it does between two awaits:

| Module | Handlers and their actions |
|---|---|
| `Payroll` | `createRun` and its job: `AskForRun`, `TakePayrollJob`, `CreateInline`, `FindRun`, `InsertRun`; `calculate`: `CalculateRead`, `Calculate`, `SetItems`, `MarkCalculated`; `validate`: `ValidateRead`, `MarkValidated`; approvals: `KeuanganRead`, `KeuanganSigns`, `MarkApproved`, `KepsekRead`, `KepsekSigns`, `MarkRekap`, `MarkPaid`, `ListSlips`, `IssueSlips`; `WagesChange` is the data `calculate` reads |
| `Refund` | `create`: `NextRefundNo`, `InsertRefund`; decisions: `KeuanganReads`, `KepsekReads` (`DecisionRead`), `KeuanganApproves`, `KepsekApproves`, `Rejects`; `markPaid`: `MarkPaidAt`, `BookCashOut` |
| `Quiz` | `StartQuiz`; `SaveRead`, `SaveWrite`; `SubmitRead`, `SubmitWrite`; the sweep: `SweepStarts`, `SweepPage`, `FinishPage`; `TimeUp` |
| `CheckIn` | `GenerateToken`; `scan`: `ScanRead`, `Look`, `ClaimToken`, `RecordScan`, `ScanReply`; `TokenExpires`, `SessionEnds` |
| `Permit` | `RecordLesson`, `RecordDay`, `RequestPermit`, then `CreateMark` or `UpdateMark`; `VerifyPermit` |
| `Import` | `StoreBatch`, `EnqueueImport`, `TakeImportJob`, `CheckAccounts`, `InsertAll`, `ReportErrors`, `CloseBatch`, `EndImport` |
| `Submission` | `submit`: `ReadTask`, `LookForSheet`, `CreateSheet` or `ReplaceSheet`, `Remember`; `WithdrawRead`, `Withdraw`; `GradeSheetRead`, `GradeSheet`, `EnterGrade`; the assignment: `TaskRead`, `TaskWrite` |
| `Admission` | `RegisterConsent`, `RegisterApplicant`, `LinkAccount`; `DecideRead`, `Decide`; `enroll`: `EnrollRead`, `FindRole`, `MakeRole`, `Place`, `LinkConsent`, `MarkEnrolled` |
| `Session` | `LoginRead`, `Miss`, `Hit`, `Issue`; `RefreshRead`, `Rotate`; `Logout`; `PasswordRead`, `SetPassword`, `RevokeAll` |
| `Maintenance` | `Ask`, `Query`, `Fill`; `AskUpdate`, `UpsertSwitch`, `Settle` |
| `Timetable` | `AcademicCreate`, `AcademicUpdate`, `AskTeacher`, `AskRoom`; `LmsCreate`, `LmsUpdate`, `AskDay`; `WriteEntry`; `RemoveRead`, `Remove` |
| `Erasure` | `UserStarts`, `AskRead`, `AskErasure`, `ProfileRead`, `UpdateProfile`, `CollectData`, `LogExport`; `ApproveErasure`, `ListExports`, `Anonymize`, `MarkExecuted`; `RejectErasure`, `MarkRejected`; `FindExpired`, `CloseExpired` |
| `PermissionCache` | `AskRights`, `GetShared`, `GotShared`, `GetFails`, `LoadRights`, `RightsLoaded`, `PutShared`; `SetRolePermission`, `InvalidateRights`, `ScanShared`, `DeleteShared`, `DropFails` |
| `FileStore` | `Upload`, `SavePath`, `DropPath`; the removal: `CleanupStarts`, `LoadPaths`, `Walk`, `DeleteOrphan`, `CleanupEnds` |

Simplifications to know of. One request that changes several fields of an assignment is several
steps of `Submission`, and the work handed in stands for its idempotency key. In `Admission` each
applicant has an account of his own and all classes are of the selected year. `Rollover` lets a
grade change at any moment (`Regrade`), also under an execution or between a failed one and its
resumption; from the first record of an execution on, each change counts as one of the faults of
the scenario, and the student is listed in `regraded`. In `FileStore` a file is a path, and one
clean-up per day may overlap another or stop; every upload is taken to get a new name, although the
code makes it of `Date.now()` and the client's file name (`local-storage.provider.ts`
`sanitizeStoredName`), and a path is saved in the form `normalizeRef` compares. In `CheckIn` the
client's idempotency key is looked up alone, as in the code, whatever student or session the record
belongs to. `PermissionCache` follows one key of one cache; the cache of overrides is of the same
kind. A login or refresh that is under way during a reset outlives it, which is why that part of
`OldSessionsEnd` is under `alone`.

## 4. Runs, bounds and fairness

| Run | Checks | Instance |
|---|---|---|
| `ExamStart` | `SeatSpec` (refinement of `ExamSeat`), `OverdueIsClosed` (liveness) | 2 students, one without a class subject; 2 tokens, 2 attempts, 2 requests, 1 sweep with batch 1; with Redis one attempt, one request at a time and a job taken up at most twice |
| `ExamWork` | `AutosaveOnce`, `GradedAnswersWereSaved`, `GradeIffFinished`, `PushedOnlyFinished` | 1 student, 1 question, 2 answers, 1 idempotency key, 2 requests of any operation, 1 sweep |
| `Billing` | `StatusIsEarned`, `LedgerSpec` (refinement of `Ledger`) | 2 invoices (one takes both payments), 2 student-type-periods, 2 payments, 1 key, 2 requests, due at 0, clock to 1, no late-fee rule |
| `BillingIssue` | `OneInvoicePerBill`, `OneDendaPerPeriod` | as above with 1 payment, no key and late-fee rules for both invoices |
| `Rollover` | `NobodyLost`, `OneExecutor`, `AsPreviewed`, `FlippedAfterPlacement`, `RollbackRestores` | 2 students of every pair of interest, 1 applicant, 1 newcomer, 2 executors, up to 2 faults; serial, racing and unrestricted modes, BullMQ and in-process queue (`AllScenarios`) |
| `Services` | payroll: `PaidWasSigned`, `OneSlipAsPaid`, `CompletedJobHasRun`; refund: `PaidOutWasApproved`, `CashLeavesOnce`; quiz: `GradeIsScore`, `AcknowledgedAnswersCount`; check-in: `UsedTokenLetIn`, `KeepsRegister` (refinement of `Register`); permit: `StatusFollowsPermit`, `OneRowEach`; import: `ClosedBatchAccounts`; session: `OldSessionsEnd`, `LockedInTime`; timetable: `TimetableClear` | 2 handlers; 2 employees with 2 figures, 2 refunds, 2 sittings of 2 questions, 2 students with 2 codes of one session, 2 attendance rows, 2 batches with 2 pupils, 3 sessions; 2 entries of 2 classes of 2 years, 2 teachers, 1 room, 4 periods |
| `Office` | booking: `NoDoubleBooking`, `NoBookingOfRetired`, `CalendarSpec` (refinement of `BookingCalendar`); submission: `GradedWorkStands`, `SubmittedOnce`; admission: `PlacedAsSelected`; `StatusIsRecent`; `ErasureIsComplete`; `GrantsAreRecent`; `NamedFilesStay` | 2 handlers; 1 asset, 2 bookings, 3 instants, 1 audit; 1 learner, 2 works; 1 applicant, 2 classes; copies living 2 ticks; 2 requests for erasure and 2 exports; 2 instances and 2 changes of rights; 1 file, one watched and one unwatched table, retention of 2 days out of 3 |
| `ExamTold` | `ToldIsSubmitted` is violated | as `ExamWork`, answers only |
| `ExamManual` | `ManualMarkInGrade` is violated | as `ExamWork`, grading |
| `BillingStatus` | `PaidIsKnown` is violated | as `Billing`, a rule for one invoice |
| `RolloverResume` | `RefusedOnlyIfChanged` is violated | 1 student, 1 executor, one request at a time |
| `RolloverUndo` | `RollbackOnlyIfPristine` is violated | 1 student, 1 newcomer, 1 executor |

Type correctness is proved for every module and is not a property of the runs.

*Why the bounds are enough to be interesting.* Every hazard listed in `PROJECT.json` needs two
actors on one row, or one actor and a failure, and each instance has two slots besides sweeps and
jobs.

With `Duration = 0` and `MaxTime = 1` an exam attempt is in time at its start and overdue one tick
later, so every handler runs on both sides of the limit. `Batch = 1` with two attempts makes the
sweep's second page depend on the first: when the first batch commits, the offset skips the second
attempt, and only a later sweep closes it, which is what `OverdueIsClosed` is about. One key for
autosaves means every second save is a retry. Three instants give bookings that touch, overlap and
coincide. In `Billing` two slots let two verifications, or a job and a request, overlap. One
invoice is covered by any payment and the other by both together, so PARTIAL and PAID both occur and
the two can be confused; the clock reaches the day after the due date, so OVERDUE occurs as well.
Two invoices are both created and deleted in every order; ids are not used again, which is what
bounds the run. The late-fee job is checked apart from the second payment (`BillingIssue`), where
what it reads of payments still varies; the proofs cover the combination.

In `Rollover` the number of faults (crashes, failing statements, lost locks, outlived leases,
overlaps) is part of the scenario; the retries and redeliveries they cause are not counted. With
BullMQ one fault is enough for a crash at any statement with the resumption after it; two, with
the in-process queue, for another during the resumption or the rollback.
The pairs of pupils cover every action of the plan and the override that makes a step throw.
`Attempts = 3` is the code's number for the queue. In `Services` it is 2, which already separates
the last attempt from the others; `LOGIN_FAIL_LIMIT` is 2 instead of 5 (the proof holds for any),
`LastClock = 1` lets a lock of one hour end. `MaxRefunds = 2` lets a number be taken twice,
`MaxSittings = 2` with `Page = 1` makes the quiz sweep skip rows. `CacheTtl = PermTtl = 2` leaves a
moment at which a copy is neither fresh nor expired; `RetentionDays = 2` with `LastDay = 3` lets a
path be saved on the day a file becomes an orphan and the day after.

*Which alone.* A property that holds while requests overlap is explored with `alone = FALSE` only;
where a property of the service speaks of `alone`, both values are explored (see `Init` of the two
compositions). The permissions with Redis promise something only when requests do not overlap. The
timetable is explored with both: what overlapping requests wrote is exempt pair by pair (`missed`),
not behaviour by behaviour, and so are overlapping updates of the maintenance switch (`contested`).

*Deadlock.* `Billing` has none: work in a slot can always be aborted, and an idle slot can always
create (an insert without free ids does nothing). `AutoSubmit` has none: the
endpoint can always begin a sweep that rests, and a sweep that runs can go on.
`Services`, `Office` and the `Rollover` runs set `CHECK_DEADLOCK FALSE`: their rows, changes and
faults are bounded, and a school whose migration is done and rolled back has nothing left to do.

*Fairness.* `ExamStart` alone has a liveness property and checks it under `MCFairSpec`, the
`FairSpec` of `AutoSubmit` with the bound of the instance with Redis (`OneByOne`, a limit on
clients, of whom nothing is assumed). Whether sweeps keep being started is modelled and not
assumed:

- `WF(CronSweeps)`: without Redis the cron (`jobs/processors/exam-autosubmit.processor.ts`) fires
  every minute, and the in-process queue runs the handler.
- `WF(CronEnqueues)`, `WF(WorkerSweeps)`, `WF(JobCompletes)`: with Redis the cron adds its job
  every minute, and the worker takes a job that waits. Nothing is assumed of `QueueForgets`: nobody
  promises that a thousand other jobs end, so a job that is kept can be kept for ever, and every
  later sweep is ignored. `OverdueIsClosed` exempts exactly this: either every overdue attempt
  ends, or from some moment on the job stays `completed` or `failed`. It is not exempt without
  Redis.
- `WF(Tick)`: clocks advance. `WF(SweepEmit)`: it follows the commit and cannot fail.
- `SF` on the sweep's reads and its commit: `SweepBreaks` may interrupt a sweep any number of times,
  but a database that fails every single time is not considered.

Clients, staff and the endpoint are under no fairness at all: the property holds although no
student ever submits. The two Rollover counterexamples are found under a `FairSpec` as well: weak
fairness of each execution's own steps, so a run does not merely stop.

*Symmetry* permutes slots, students, ids of one kind, in runs with safety properties only.

## 5. Proofs

`tlapm` proves the following for every value of the constants: any number of students, tokens,
attempts, assets, bookings, invoices, payments, executions, concurrent requests and sweeps, any
batch size, duration, retention, number of attempts and faults. Every safety property that a
passing run checks, invariant, action property or refinement, is stated by a theorem.
`PROJECT.json` lists the theorems with the property each one states.

*Assumptions* are the named `ASSUME`s of the models, and TLC evaluates them in the runs: ids are
finitely many naturals where the code counts or orders them, times and bounds are naturals, instants
are integers, `None` is not a value of the data it stands beside, students with a class subject
are students, invoices and bills are finitely many and `Covers` is closed under adding payments,
tokens belong to a session and classes to a year, daily and lesson entries differ, and in
`Rollover` students, applicants and newcomers are different people (`PeopleAssumption`) and null is
no decision, plan, record or year (`NullAssumption`).

None of the properties is inductive alone, and for one reason: handlers write from rows they read
earlier. Each invariant adds what a handler may still rely on when it writes.

**`ExamAttempt_proofs`.** `TypeCorrect`, `SeatsAreUnique`, `AutosaveIsIdempotent`,
`GradesFollowStatus`, `PushesAreTrue`, `GradedWereSaved`, and `Refinement` (the handlers implement
`ExamSeat`); `Scheduled` carries all of them over to `AutoSubmit` (every step of the scheduled
system is a step of `ExamAttempt` or leaves it alone) and `QueueTypes` is the type invariant of its
job. The invariant `IInv` adds

- `RequestsKnow`: the row of a request still exists, the student in its snapshot is the student
  of the current row, and the row a teacher grades has ended. Nothing is claimed about the
  snapshot's status, which others may have overwritten.
- `SweepsKnow`: the same for each row of a sweep's page; after the commit each of them has ended.

The argument rests on `AttemptStep`: one step either creates a single row under the unique keys or
keeps the student, token and end of every row. From it follow that rows are never reopened or
reassigned (`KeptRow`), uniqueness, and the mapping to seats: a step that creates is `Open`, every
other step is `Close(S)` for the set of seats whose row it ends, possibly empty, even if it
overwrites one terminal status with another. `GradeStep` says a step loses no Grade, writes one
only for an ended row, and gives one to each row that becomes submitted. `GradedWereSaved` needs
that the scores requests and sweeps carry between scoring and commit are of answers in the log; they
stay so because the log of an attempt only grows.

**`AssetBooking_proofs`.** `TypeCorrect`, `Safety` (no double booking), `RetiredIsNotBooked` and
`Refinement` (the handlers implement `BookingCalendar`). The strengthening says who holds the row
lock while a request is between check and commit, that a checked request still conflicts with no
active booking and that its asset is not retired; only the lock makes these stable.

**`Billing_proofs`.** `TypeCorrect`, `InvoicesAreUnique`, `StatusFollowsPayments`,
`DendaIsChargedOnce` and `Refinement` (the handlers implement `Ledger`). The difficulty is
`StatusFollowsPayments`: a verification writes statuses it computed before others committed. The
strengthening `VerifyKnows` says that its payment is still PENDING and claimed by nobody else
(`ClaimIsGood`), and that a PAID or PARTIAL it has computed for a standing invoice is still earned
by what it saw (`FoundIsEarned`). The latter is stable because accepted payments are taken back
only with their invoice (`PaidGrows`), more payments never cover less, and a deleted invoice never
comes back (`InvoiceWrites`). In the refinement an invoice is an account: creating is `Open`,
deleting is `Close`, which erases the payments of this invoice and no others, and a payment is
posted only to an invoice that stands when the row is inserted (the foreign key). `KeysOnce`
(standing payments do not share a key) carries the refinement's guard. From them follow that a
stale status can be too low, never too high: the converse is what `BillingStatus` refutes.

**`Rollover_proofs`.** `TypeInv` says what an execution knows at each statement. Every step is one
of five kinds (lemma `EveryStep`): `Executes` (a step of an execution, which moves one slot, is
careful about whom it marks and lets the record grow), `Previews`, `BeginsUndo`, `Undoes`,
`Elsewhere`. Two theorems hold although executions overlap:

- `OneAtATime` (`OneExecutor`), from `LockInv`: until a live execution is overtaken, a claimed run
  is RUNNING and not stale, so the conditional update lets one execution through. `overtaken`
  becomes true only when a live execution outlives its lease or a pre-check or a rollback writes
  its status over RUNNING; then a second claim is possible, and found by TLC (section 6).
- `MarkedHaveRows` (`NobodyLost`), from `LostInv`: the students an execution is about to mark
  already have their row or are alumni.

Three hold for one request at a time, after any number of crashes, failures and resumptions:
`PlacedAsPreviewed`, `FlipsAfterPlacement`, `RollbackRestoresAll`. They speak of the students in
`Steady`, whose grade did not change while or after an execution worked on them; grades of the
others change freely around them. `FlipsAfterPlacement` speaks of the applicants in `placeable`:
those with an account, if the preferences name a class. The common invariant `SerialInv` says what
the run, the school, the operator and the execution know of each other:

- `SchoolKnows`: rows and alumni of the steady students are those the last dry-run announced, in
  the recorded classes (`RowsPlaced`, `AlumniPlaced`); marked students have the status they were
  shown (`PreviewKnows`); a step recorded as done has done its work (`StepsKnow`); and unless the
  run is RUNNING, what was done for marked students is in its record, which for a finished run
  names every row of a student (`RecordKnows`).
- `SlotKnows`: before the claim the plan held is the plan of the moment (`PlanKnows`,
  `ClaimKnows`); after it the execution's record is at least the saved one, and each place in a
  step says who has been dealt with (`ActingKnows`). A resumed execution plans only students who
  are still ACTIVE: whoever it does not name was marked, and recorded, before.
- `DeskKnows`, `UndoKnows`: what a preview has read is current, and what an undo has passed is
  undone.
- `OneBusy`: there is one request at a time.

There is one lemma per action, and the parts are parametrised by the run and the slot so that a
lemma states what its action leaves. The proof shows why the record of a finished run can be
trusted for these students: if an execution dies between marking some and saving that, its stored
plan still names them, the plan of the moment does not, and every resumption is refused. Applicants
are in no plan. Their rows can be missing from the record (section 6), which is why
`RollbackRestores` speaks of students; and a grade that changes in between can give its student a
row the record misses, which is why it speaks of steady ones.

**`Payroll_proofs`.** `SignaturesPrecedePay` (a paid run carries both signatures, however requests
overlap), `SuccessIsTrue` (a completed job has its run row; whether it is calculated is another
request's business) and `SlipsAreThePaidOnes`. Signatures are never withdrawn, so what a
request read of them stays true; the figures are not protected by anything, so the payslips need
`AloneInv`.

**`CheckIn_proofs`.** `ClaimsAreKept`, `AnswersAreTrue`, and `Refinement` (check-in implements
`Register`): the lock taken by the claim makes claim and record one step to everybody else.
`AnswersAreTrue` exempts a scan with a key of another student's or session's record: the code
answers it with that record (section 6).

**`JobQueue_proofs`.** What taking, adding, ending and losing a job does to its state; used by the
three services with jobs.

**`Services_proofs`.** For refunds, quizzes, permits, imports, submissions, admissions, erasures,
the maintenance switch, sessions, the timetable, files and permissions. The shape is the same
each time: an operator `...Call(call, x)` says what the locals `x` of a handler at `call` are good
for, `SlotsMove` reduces a step to the slot that moves and the rows it writes, and a step that
writes is shown not to take back what others rely on. Where the property speaks of `alone`, a
second invariant says that nothing has moved since the request read. What carries each of them:

- refunds: an approval is never withdrawn, and the size of a refund never changes;
- quizzes: finishing writes score and grade together, whatever row it overwrites;
- permits: status and note are written by one statement; the lesson's unique key holds always, the
  day's row only for one request at a time;
- imports: accounts are never deleted, and a batch that is closed without error has made its own;
- submissions: a graded row keeps its mark; while alone nothing is written between read and write;
- admissions: roles, places and linked consents are never taken back;
- sessions: an exchanged token stays dead, `settled` is at most the current password, and the
  counter of the row is at least the number of wrong passwords since the last good one or the end
  of the last lock. `LockedInTime` thus holds whether or not the end of a lock resets the counter,
  as the comment at `auth.service.ts:397` intends and the code does not (section 6);
- maintenance: a status read for a request was current at its arrival or later, and a status stored
  for it was current at `fetchedAt` or later (`WasSince`), however long the query took; while
  updates do not overlap every write keeps that;
- timetable: each request has compared with what was there when it came, except what `missed` names;
  `compared` says of each pair which service compared it last, and its own rule is what holds
  (`Fits`);
- erasure: the user's own calls need an active account, exports found stay found, and nothing of an
  inactive user tells who it was;
- files: a removal misses only paths saved since its first query (`PathsHold`), and a file that is
  gone had outlived its retention (`GoneWereOld`);
- permissions: a copy is as old as the query it came from, and after a completed change nothing
  older than the rows is left (`SettledAlone`).

*Only model-checked:* `OverdueIsClosed` (liveness under fairness is out of the prover's reach), and
of course the five counterexamples. No module uses RECURSIVE operators: `NextStep`, sums and
counts are written with sets and functions, so nothing had to be left out of the proofs for that.

## 6. Where the code and its documentation differ

Five runs end in a counterexample; each is a statement of the repository that the code does not
keep.

- `ExamTold`. A late autosave is refused with "Waktu ujian habis; attempt di-auto-submit"
  (`exam-attempt.service.ts:257`), but the throw is inside the transaction that finalised the
  attempt, which is rolled back. The attempt ends later, by the sweep (`OverdueIsClosed`).
- `ExamManual`. `docs/08-knowledge-base.md:145` sends the teacher's essay mark to the `Grade`;
  `manualGrade` computes the Grade from the row it read before writing the mark.
- `BillingStatus`. `payment.service.ts:290-292` recomputes invoices in the transaction of the claim
  so that no window is left in which the statuses disagree. At READ COMMITTED two verifications of
  one invoice do not see each other's payment, and `refreshOverdueStatuses` writes OVERDUE by ids
  read before a verification committed. Either leaves a fully paid invoice PARTIAL or OVERDUE for
  good: nothing recomputes it.
- `RolloverResume`. The header of `rollover.service.ts` (5-7) says a FAILED run, or a RUNNING one
  left by a crash, is resumed by execute. `persist()` writes a `step_state` without the plan that
  execute compares with, so after the first saved step every resumption is refused ("Hasil promosi
  berubah sejak dry-run"); a run left RUNNING after that can never leave RUNNING.
- `RolloverUndo`. `README.registration.md:28` says a rollback is refused after writes to the new
  year. The audit query names `Enrollment`, `Class`, `ScheduleEntry`, `Alumni`; the services log
  `enrollment`, `class`, `schedule_entry`, `alumni`, so only `Invoice` ever matches.

Four definitions state further claims that are false in the models and have no run of their own:
`ApprovedIsRetired` (AssetBooking; `asset/README.registration.md:65`: two statements without a
transaction, and the retry is refused), `AllocatedIsCredited` (Billing;
`payment.service.spec.ts:244-248`: `paidSumOf` finds no payment of the second invoice of an
allocation), `GrantsExpire` (PermissionCache; `docs/08-knowledge-base.md:310`, 60 seconds: with
Redis a hit gives the copy in memory a new life, and a memory with old rights writes them back), and
`AllNamedFilesStay` (FileStore: `loadReferencedPaths` does not read the documents of applicants,
the pictures of users and the attachments of assignments, which are deleted once they are old
enough).

Also seen while modelling; reachable in the models.

- *Exams*: with Redis the cron adds its job under one fixed id
  (`exam-autosubmit.processor.ts:37-45`), and BullMQ ignores the id while it keeps the ended job
  (`bullmq.queue.ts:60`): after the first sweep the next ones can be ignored until a thousand other
  jobs have ended, and attempts run over their time meanwhile (the exemption of `OverdueIsClosed`);
  a terminal status can be overwritten by a slower handler (SUBMITTED by EXPIRED and back); a score
  can be of answers that an autosave has meanwhile superseded; concurrent activity events can lose
  one another.
- *Assets*: a cancelled booking can become COMPLETED; `PATCH /assets/:id` can retire an asset
  without an audit.
- *Billing*: after the deletion of an invoice, `nextInvoiceNo` (a count plus one) computes the
  number of one that stands, and single creations fail until enough others are deleted. `carryOver`
  copies the student, type and period of its source, so its insert meets REL-003's unique key and
  the transaction always rolls back.
- *Refunds*: overlapping decisions can book one refund twice, or leave it paid and rejected; a stop
  after PAID leaves it without a cash-flow entry.
- *Payroll*: recalculating a CALCULATED run replaces the items and then throws; a stale validation
  or approval can take PAID back; two approvals by the head issue two payslips
  (`payroll-run.service.ts:291-292` says otherwise); a stop after REKAP_KEPSEK or PAID cannot be
  taken up again.
- *Rollover*: a resumed execution that dies in the applicants' step before it has saved leaves rows
  that no record names, and rollback leaves them; a pre-check (`rollover.service.ts:301-304`) or
  the end of a rollback can write its status over RUNNING, and a second execution then claims the
  run although the first goes on, which the comment of the claim (383-388) rules out; a pre-check
  can also write PREVIEW over DONE; `GradesService.record` asks no rollover, so a grade entered
  between a failed execution and its resumption can give a student rows of two plans, leave an
  alumnus that rollback keeps, or leave a student unplaced while the year flips; selected
  applicants without an account, and all of them when the preferences name no class, are skipped
  and the step still counts as done (659-665); an override PROMOTED or REPEATED names no class, so
  the promotion throws every time; PPDB applicants are not restored (`docs/prd/prd05.md:85`).
- *Quizzes*: of two concurrent saves one can be lost; a late save changes answers already graded;
  a student can have several attempts.
- *Check-in and permits*: one's own retry while the first scan is running is answered 409, although
  `attendance.service.ts:299` calls it idempotent; a key seen before is answered 200 with its
  record, also when this is another student's or another session's (337-343); daily rows are not
  bound by the unique key (NULL) and can double; a permit is overwritten by a teacher's record.
- *Import*: a retry after a successful insertion reports all rows as duplicates, and the batch is
  FAILED though imported; a job that fails for good leaves PROCESSING.
- *Submissions*: an overlapping replacement or withdrawal can overwrite a graded row; a submit
  repeated after a withdrawal is answered and stays withdrawn; assignments in DRAFT accept work.
- *Admissions*: a stale verification can take ENROLLED back; an enrolment that stopped half-way
  cannot be repeated in the same class, and in another class it gives two places; the linked
  account `enroll` requires is written by nothing in the code (`docs/04-api-contract.md:370`).
- *Authentication*: the update at `auth.service.ts:398-401` is never awaited and so never sent; the
  counter stays at its limit after a lock and one more miss locks again, although the comment
  before it (397) says that an expired lock resets the counter.
- *Maintenance*: "perubahan langsung berlaku untuk request berikutnya"
  (`maintenance.service.ts:114`) holds while requests do not overlap and one process runs. A
  request whose query was answered before the update and is stored after it puts the old status
  back, for up to the life of the copy, and another process keeps its own copy as long. A request
  answered from its own slow query gets the status as it was when the database read it.
- *Timetable*: the LMS takes the end of an entry as exclusive
  (`lms/classes/schedule-validator.ts:15-18`), so after an academic entry for periods 1-2 it
  accepts one for 2-3 with the same teacher or room, which
  `test/unit/schedule.service.spec.ts:46,52-74` calls a clash; the academic service does not
  compare classes at all, although `schedule-validator.ts:3-7` states the class rule; it looks only
  in the year of the class, while the LMS files an entry under any year it is given and compares
  all years, so an academic entry can clash with one of the LMS filed elsewhere; and two
  overlapping requests of either service can both find no conflict.
- *Erasure*: an approval that stops between anonymisation and EXECUTED leaves PENDING, which can
  be rejected although the data is gone.

## 7. What is not modelled

`PROJECT.json` lists every component with its status and the reason. Within the modelled ones:

- exams: the countdown `emitExamTicks`, editing of packages and questions, read-only views;
- assets: the maintenance log and descriptive fields;
- finance: editing late-fee rules, the amount and rounding of a denda, the split of an allocation,
  `carryOver`, which never commits, and the matching of bank files;
- payroll: the arithmetic of the calculator, structures and components as rows;
- rollover: `createDraft`, the rows the curriculum step copies, the arithmetic of the rules;
- LMS: materials, classes, grades recorded by hand, deletion of assignments;
- admissions: tracking, accounts shared by two applicants, the check of the year of a class;
- onboarding: the imports of teachers and classes; the wizard;
- erasure: the other tables the anonymisation cleans and the removal of the files;
- permissions: overrides, and how a guard evaluates a set;
- storage: checks of name, size and content, access, deliberate deletion of exports;
- the repeated jobs as jobs: they appear as the moments at which their services run.

Access checks run before a handler and change nothing. The API's pooled connections are not
modelled, so a handler that needs two of them at once cannot be shown to wait for itself. Report
cards, notifications, reports, settings and the client keep no state that another decision of the
API rests on, or only rows where the last writer wins.

## 8. Plan

The first plan (exams, assets and billing, because they carry most of the concurrency; then payroll,
refunds, sessions, rollover, quizzes and the queue; then the other services) is done, and so are the
proofs of every safety property the runs check. What is left, in this order:

1. `ExamTick` under the same job as the sweep, for the thresholds of the countdown, and the quiz
   sweep under the queue.
2. The refinements that can still be stated: `Rollover` as "each student is placed once", and
   `Payroll` as its status machine when requests do not overlap.
3. Read-modify-write of settings rows (`AppSettingsService.updateSettings` can write a stale current
   year back) and of the report-card settings.
4. `createDraft` of the rollover: the draft year that a lost race leaves behind.
5. Grading of competency exams, whose row locks are taken in two orders.
