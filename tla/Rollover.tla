------------------------------ MODULE Rollover ------------------------------
(***************************************************************************)
(* The migration of a school from one academic year to the next            *)
(* (rollover.service.ts), the queue that starts it and the operator who    *)
(* previews, executes and undoes it.  There is one RolloverRun per source  *)
(* year.  execute() is a sequence of committed statements: a crash or a    *)
(* failing statement leaves everything before it, and a later execute()    *)
(* resumes from the saved step_state.                                      *)
(*                                                                         *)
(* Every write is a step of its own.  The reads a request makes before its *)
(* first write are one step; what they returned is kept by the request.    *)
(* A student has one enrollment in the source year, whose status is        *)
(* pupil[s].status; `rows' are the enrollments of the target year.         *)
(*                                                                         *)
(* mode says what the environment may do:                                  *)
(*   "serial"  one request at a time, an execution never outlives its      *)
(*             ten-minute lease;                                           *)
(*   "race"    executions overlap each other, but not the operator's       *)
(*             precheck, dry-run and rollback;                             *)
(*   "any"     everything overlaps, and a live execution may look stale.    *)
(***************************************************************************)
EXTENDS JobQueue, FiniteSets

CONSTANTS Students, Applicants, Newcomers, Executors,
          Scenarios,    \* the schools, queues and modes Init chooses from
          MaxCopies,    \* bound on the classes of one key, the alumni rows of one student
          Intake,       \* the class preferences.ppdbTargetClassId names
          None

VARIABLES run, year, pupil, rows, classes, alumni, applied, ex, desk, job,
          audited, mode, kind,
          placeable,    \* applicants with an account, if the preferences name a class
          faults,       \* crashes, failures, outlived leases, overlaps still to come
          shown,        \* history: what the last dry-run said of each student
          undoing,      \* history: a rollback has begun to delete
          regraded,     \* history: students whose grade changed under or between executions
          overtaken     \* history: a live execution has lost its lease or its status

vars == <<run, year, pupil, rows, classes, alumni, applied, ex, desk, job,
          audited, faults, mode, kind, placeable, shown, undoing, regraded, overtaken>>

school == <<year, pupil, rows, classes, alumni, applied>>
world  == <<mode, kind, placeable>>
ghost  == <<shown, undoing, regraded, overtaken>>

-----------------------------------------------------------------------------
(* The promotion plan (rollover.promotion.ts).                             *)

Actions == {"PROMOTED", "REPEATED", "GRADUATED", "TRANSFERRED", "DROPPED"}
Statuses == {"ACTIVE"} \union Actions
Keys    == [final : BOOLEAN, repeated : BOOLEAN]

\* A student: in the last grade or not, passing or not, the operator's override
\* and the status of the enrollment in the source year.
Pupils == [final : BOOLEAN, passes : BOOLEAN, override : Actions \union {None},
           status : Statuses]

\* A scenario: mode, queue, bound on the faults, students, applicants with those who have
\* an account (user_id), and whether preferences.ppdbTargetClassId is set.
ASSUME ScenarioAssumption ==
    \A c \in Scenarios :
        /\ c.mode \in {"serial", "race", "any"} /\ c.kind \in {"bullmq", "inproc"}
        /\ c.faults \in Nat
        /\ c.pupil \in [Students -> Pupils]
        /\ \A s \in Students : c.pupil[s].status \in {"ACTIVE", "TRANSFERRED", "DROPPED"}
        /\ c.applied \in [Applicants -> {"SELECTED", "ENROLLED"}]
        /\ c.accounts \subseteq Applicants /\ c.intake \in BOOLEAN

\* An override decides the action and names no class; otherwise the grades
\* and the attendance decide, and only graduates need no class.
EvaluateStudent(p) ==
    IF p.override # None THEN [action |-> p.override, key |-> None]
    ELSE IF ~p.passes
         THEN [action |-> "REPEATED", key |-> [final |-> p.final, repeated |-> TRUE]]
    ELSE IF p.final THEN [action |-> "GRADUATED", key |-> None]
    ELSE [action |-> "PROMOTED", key |-> [final |-> FALSE, repeated |-> FALSE]]

\* Only students whose source enrollment is still ACTIVE are planned.
CurrentPlan ==
    [s \in {t \in Students : pupil[t].status = "ACTIVE"} |-> EvaluateStudent(pupil[s])]

Planned(plan, actions) == {s \in DOMAIN plan : plan[s].action \in actions}
PlanKeys(plan) == {plan[s].key : s \in DOMAIN plan} \ {None}

-----------------------------------------------------------------------------
(* The run's step_state and the requests that use it.                      *)

\* Mutant: the new year opens before the students have their classes.
StepsOpeningFirst == <<"close-source", "create-classes", "copy-curriculum", "graduate",
                       "set-current", "promote", "ppdb-enroll">>

StepNames == <<"close-source", "create-classes", "copy-curriculum", "graduate",
               "promote", "ppdb-enroll", "set-current">>
Steps == {StepNames[i] : i \in 1..7}

\* The first step not yet done is where an execution goes on.
NextStep(done) ==
    IF Steps \subseteq done THEN "finish"
    ELSE StepNames[CHOOSE i \in 1..7 : /\ StepNames[i] \notin done
                                       /\ \A j \in 1..(i - 1) : StepNames[j] \in done]

IdleSlot == [pc |-> "idle", via |-> None, seen |-> None, src |-> None, plan |-> None,
             done |-> {}, made |-> None, todo |-> {}]
IdleDesk == [pc |-> "idle", seen |-> None, plan |-> None, left |-> {}]

\* The places between the claim and the end.
Claimed == {"begin", "persist", "graduate-read", "graduate-mark", "graduate-log",
            "promote-read", "promote-mark", "ppdb-read", "ppdb-mark",
            "open-target", "close-old", "finish"} \union Steps

Quiet == \A w \in Executors : ex[w].pc = "idle"

Init ==
    /\ run = [status |-> "DRAFT", stale |-> FALSE, plan |-> None, done |-> {},
              made |-> None]
    /\ year = [src |-> "OPEN", tgt |-> "DRAFT", cur |-> "src"]
    /\ rows = {} /\ classes = {} /\ alumni = {}
    /\ ex = [w \in Executors |-> IdleSlot]
    /\ desk = IdleDesk
    /\ job = NoJob
    /\ audited = {}
    /\ \E c \in Scenarios : /\ mode = c.mode /\ kind = c.kind /\ faults = c.faults
                            /\ pupil = c.pupil /\ applied = c.applied
                            /\ placeable = IF c.intake THEN c.accounts ELSE {}
    /\ shown = [s \in Students |-> None] /\ undoing = FALSE
    /\ regraded = {} /\ overtaken = FALSE

-----------------------------------------------------------------------------
(* Ending a request.                                                       *)

Becomes(w, slot) == ex' = [ex EXCEPT ![w] = slot]

\* The slot of w becomes free; the job it ran for becomes `ended'.
Leave(w, ended) ==
    /\ Becomes(w, IdleSlot)
    /\ job' = IF ex[w].via = "job" THEN ended ELSE job

Goto(w, pc) == Becomes(w, [ex[w] EXCEPT !.pc = pc]) /\ UNCHANGED job

StopDesk == desk' = IdleDesk

\* Between its claim and its end an executor owns the run.
Live(w) == ex[w].pc \in Claimed

\* The run's status, or its lease, is taken from the executions there are.
Overtakes == overtaken' = (overtaken \/ \E w \in Executors : Live(w))

Fault == faults > 0 /\ faults' = faults - 1

\* When an execution or an operator's request may begin; the model counts the
\* overlaps of the two kinds among the faults.
SlotMayStart == IF desk.pc = "idle" THEN (mode = "serial" => Quiet) /\ UNCHANGED faults
                ELSE mode = "any" /\ Fault
DeskMayStart == /\ desk.pc = "idle"
                /\ IF Quiet THEN UNCHANGED faults ELSE mode = "any" /\ Fault

-----------------------------------------------------------------------------
(* precheck and dryRun: the operator's preview.                            *)

PrecheckRead ==
    /\ DeskMayStart
    /\ run.status \in {"DRAFT", "PREVIEW", "FAILED"}
    /\ desk' = [IdleDesk EXCEPT !.pc = "precheck"]
    /\ UNCHANGED <<run, school, ex, job, audited, world, ghost>>

\* Blockers are reported, never enforced; the status is written by id alone.
PrecheckCommit ==
    /\ desk.pc = "precheck"
    /\ run' = [run EXCEPT !.status = "PREVIEW", !.stale = FALSE]
    /\ StopDesk /\ Overtakes
    /\ UNCHANGED <<school, ex, job, audited, faults, world, shown, undoing, regraded>>

DryRunRead ==
    /\ DeskMayStart
    /\ run.status = "PREVIEW"
    /\ desk' = [IdleDesk EXCEPT !.pc = "dryrun", !.seen = run, !.plan = CurrentPlan]
    /\ UNCHANGED <<run, school, ex, job, audited, world, ghost>>

\* The whole step_state is written back as it was read, with the new plan.
DryRunCommit ==
    /\ desk.pc = "dryrun"
    /\ run' = [run EXCEPT !.stale = FALSE, !.plan = desk.plan,
                          !.done = desk.seen.done, !.made = desk.seen.made]
    /\ shown' = [s \in Students |-> IF s \in DOMAIN desk.plan THEN desk.plan[s]
                                    ELSE shown[s]]
    /\ StopDesk
    /\ UNCHANGED <<school, ex, job, audited, faults, world, undoing, regraded, overtaken>>

-----------------------------------------------------------------------------
(* Starting an execution.                                                  *)

\* POST :runId/execute with a queue: the in-process queue starts the handler
\* at once, BullMQ stores the job under the run's own id.
ExecuteRequest ==
    \/ /\ kind = "bullmq"
       /\ job' = Add(job)
       /\ UNCHANGED <<run, school, ex, desk, audited, faults, world, ghost>>
    \/ /\ kind = "inproc" /\ SlotMayStart
       /\ \E w \in Executors :
             /\ ex[w].pc = "idle"
             /\ Becomes(w, [IdleSlot EXCEPT !.pc = "picked"])
       /\ UNCHANGED <<run, school, desk, job, audited, world, ghost>>

\* Redis does not answer: the request executes the run itself.
ExecuteInline(w) ==
    /\ ex[w].pc = "idle" /\ SlotMayStart
    /\ Becomes(w, [IdleSlot EXCEPT !.pc = "start"])
    /\ UNCHANGED <<run, school, desk, job, audited, world, ghost>>

TakeJob(w) ==
    /\ ex[w].pc = "idle" /\ SlotMayStart
    /\ job.state = "waiting"
    /\ job' = Take(job)
    /\ Becomes(w, [IdleSlot EXCEPT !.pc = "picked", !.via = "job"])
    /\ UNCHANGED <<run, school, desk, audited, world, ghost>>

\* RolloverProcessor.handle: a run that is RUNNING or over is skipped, and
\* skipping completes the job.
Picked(w) ==
    /\ ex[w].pc = "picked"
    /\ IF run.status \in {"RUNNING", "DONE", "ROLLED_BACK"} THEN Leave(w, Completed(job))
       ELSE Goto(w, "start")
    /\ UNCHANGED <<run, school, desk, audited, faults, world, ghost>>

\* Mutant: execute compares nothing, a plan need only have been stored.
ExecutableUnchecked(r) ==
    /\ r.status \in {"PREVIEW", "FAILED"} \/ (r.status = "RUNNING" /\ r.stale)
    /\ r.plan # None

\* PREVIEW, FAILED, or RUNNING for longer than the lease.
MayExecute(r) == r.status \in {"PREVIEW", "FAILED"} \/ (r.status = "RUNNING" /\ r.stale)

\* The stored plan must be the plan of this moment.
Executable(r) == MayExecute(r) /\ r.plan # None /\ r.plan = CurrentPlan

ExecuteStart(w) ==
    /\ ex[w].pc = "start" /\ Executable(run)
    /\ Becomes(w, [ex[w] EXCEPT !.pc = IF run.status = "RUNNING" THEN "reclaim" ELSE "claim",
                               !.seen = run, !.src = year.src, !.plan = run.plan])
    /\ UNCHANGED <<run, school, desk, job, audited, faults, world, ghost>>

ExecuteRefused(w) ==
    /\ ex[w].pc = "start" /\ ~Executable(run)
    /\ Leave(w, Thrown(job))
    /\ UNCHANGED <<run, school, desk, audited, faults, world, ghost>>

\* updateMany where status RUNNING and updated_at before the cutoff.
Reclaimable(r) == r.status = "RUNNING" /\ r.stale

Reclaim(w) ==
    /\ ex[w].pc = "reclaim"
    /\ IF Reclaimable(run)
       THEN /\ run' = [ex[w].seen EXCEPT !.status = "FAILED", !.stale = FALSE]
            /\ Goto(w, "claim")
       ELSE Leave(w, Thrown(job)) /\ UNCHANGED run
    /\ UNCHANGED <<school, desk, audited, faults, world, ghost>>

\* Mutant: the claim forgets that another executor may have won.
ClaimableByAnyone(r) == r.status \in {"PREVIEW", "FAILED", "RUNNING"}

Claimable(r) == r.status \in {"PREVIEW", "FAILED"}

\* The optimistic lock; executed_at is now, so older audit entries no longer count.
Claim(w) ==
    /\ ex[w].pc = "claim"
    /\ IF Claimable(run)
       THEN /\ run' = [run EXCEPT !.status = "RUNNING", !.stale = FALSE]
            /\ audited' = {}
            /\ Goto(w, "begin")
       ELSE Leave(w, Thrown(job)) /\ UNCHANGED <<run, audited>>
    /\ UNCHANGED <<school, desk, faults, world, ghost>>

\* created, as it is before the first step.
NothingMade(src) == [classes |-> {}, rows |-> {}, alumni |-> {},
                     before |-> [s \in {} |-> None], src |-> src, cur |-> year.cur]

\* The pre-execute audit entry, then `created' as saved or empty.
Begin(w) ==
    /\ ex[w].pc = "begin"
    /\ LET x == ex[w] IN
       Becomes(w, [x EXCEPT !.pc = NextStep(x.seen.done), !.seen = None,
                            !.done = x.seen.done,
                            !.made = IF x.seen.made = None THEN NothingMade(x.src)
                                     ELSE x.seen.made])
    /\ UNCHANGED <<run, school, desk, job, audited, faults, world, ghost>>

-----------------------------------------------------------------------------
(* The steps.  A step ends by saving what is done and made; saving drops   *)
(* the stored plan.                                                        *)

Stored(status, x) == [status |-> status, stale |-> FALSE, plan |-> None,
                      done |-> x.done, made |-> x.made]

StepDone(w, step) ==
    Becomes(w, [ex[w] EXCEPT !.pc = "persist", !.done = @ \union {step}, !.todo = {}])

Persist(w) ==
    /\ ex[w].pc = "persist"
    /\ run' = Stored(run.status, ex[w])
    /\ Goto(w, NextStep(ex[w].done))
    /\ UNCHANGED <<school, desk, audited, faults, world, ghost>>

\* 1. The source year is CLOSING while the steps run.
CloseSource(w) ==
    /\ ex[w].pc = "close-source"
    /\ year' = [year EXCEPT !.src = "CLOSING"]
    /\ Becomes(w, [ex[w] EXCEPT !.pc = "persist", !.done = @ \union {"close-source"},
                               !.made.src = ex[w].src])
    /\ UNCHANGED <<run, pupil, rows, classes, alumni, applied, desk, job,
                   audited, faults, world, ghost>>

\* Identities of rows that nothing else tells apart.
Room(used)   == \E n \in 1..MaxCopies : n \notin used
Unused(used) == CHOOSE n \in 1..MaxCopies : n \notin used

\* 2. One class per planned key that has none yet.
ClassKeys(made) == {c.key : c \in made.classes}
MissingKeys(x) == PlanKeys(x.plan) \ ClassKeys(x.made)

CreateClass(w) ==
    /\ ex[w].pc = "create-classes"
    /\ \E k \in MissingKeys(ex[w]) :
          LET used == {c.n : c \in {d \in classes : d.key = k}}
              new  == [key |-> k, n |-> Unused(used)] IN
          /\ Room(used)
          /\ classes' = classes \union {new}
          /\ Becomes(w, [ex[w] EXCEPT !.made.classes = @ \union {new}])
    /\ UNCHANGED <<run, year, pupil, rows, alumni, applied, desk, job,
                   audited, faults, world, ghost>>

ClassesCreated(w) ==
    /\ ex[w].pc = "create-classes" /\ MissingKeys(ex[w]) = {}
    /\ StepDone(w, "create-classes")
    /\ UNCHANGED <<run, school, desk, job, audited, faults, world, ghost>>

\* 3. Lessons and timetable of the new classes; their rows are not modelled.
CopyCurriculum(w) ==
    /\ ex[w].pc = "copy-curriculum"
    /\ StepDone(w, "copy-curriculum")
    /\ UNCHANGED <<run, school, desk, job, audited, faults, world, ghost>>

\* Steps 4 to 6 do nothing when nobody is concerned; selected applicants without an
\* account, and all of them when no class is named, are passed over.
Concerned(x) ==
    CASE x.pc = "graduate"    -> Planned(x.plan, {"GRADUATED"})
      [] x.pc = "promote"     -> Planned(x.plan, {"PROMOTED", "REPEATED"})
      [] x.pc = "ppdb-enroll" -> {a \in placeable : applied[a] = "SELECTED"}
      [] OTHER                -> {}

NothingToDo(w) ==
    /\ ex[w].pc \in {"graduate", "promote", "ppdb-enroll"}
    /\ Concerned(ex[w]) = {}
    /\ StepDone(w, ex[w].pc)
    /\ UNCHANGED <<run, school, desk, job, audited, faults, world, ghost>>

\* 4. Graduates become alumni.  Nothing in the table is unique, so a repeated
\* createMany adds a second row; then the rows and the old statuses are read
\* and the old enrollments marked.
AlumniOf(s) == {a.n : a \in {b \in alumni : b.who = s}}

GraduateCreate(w) ==
    /\ ex[w].pc = "graduate" /\ Concerned(ex[w]) # {}
    /\ \A s \in Concerned(ex[w]) : Room(AlumniOf(s))
    /\ alumni' = alumni \union
           {[who |-> s, n |-> Unused(AlumniOf(s))] : s \in Concerned(ex[w])}
    /\ Becomes(w, [ex[w] EXCEPT !.pc = "graduate-read", !.todo = Concerned(ex[w])])
    /\ UNCHANGED <<run, year, pupil, rows, classes, applied, desk, job,
                   audited, faults, world, ghost>>

\* Mutant: each lookup starts the record of the old statuses afresh.
RememberAfresh(before, students) == [s \in students |-> pupil[s].status]

\* previousEnrollmentStatus of these students, as the rows are now.
Remember(before, students) ==
    [s \in DOMAIN before \union students |->
        IF s \in students THEN pupil[s].status ELSE before[s]]

GraduateRead(w) ==
    /\ ex[w].pc = "graduate-read"
    /\ Becomes(w, [ex[w] EXCEPT !.pc = "graduate-mark",
           !.made.alumni = @ \union {a \in alumni : a.who \in ex[w].todo},
           !.made.before = Remember(@, ex[w].todo)])
    /\ UNCHANGED <<run, school, desk, job, audited, faults, world, ghost>>

Mark(students, status) ==
    pupil' = [s \in Students |-> IF s \in students THEN [pupil[s] EXCEPT !.status = status]
                                 ELSE pupil[s]]

GraduateMark(w) ==
    /\ ex[w].pc = "graduate-mark"
    /\ Mark(ex[w].todo, "GRADUATED")
    /\ Goto(w, "graduate-log")
    /\ UNCHANGED <<run, year, rows, classes, alumni, applied, desk, audited, faults,
                   world, ghost>>

\* The export log of the final report cards is written, then the step is done.
GraduateLog(w) ==
    /\ ex[w].pc = "graduate-log"
    /\ StepDone(w, "graduate")
    /\ UNCHANGED <<run, school, desk, job, audited, faults, world, ghost>>

\* 5. Promoted and repeating students enter their new class.  The rows are
\* unique, so a repeated createMany adds nothing.
ClassOf(x, s) == CHOOSE c \in x.made.classes : c.key = x.plan[s].key

HasClass(x, s) == /\ x.plan[s].key \in ClassKeys(x.made)
                  /\ ClassOf(x, s) \in classes

\* Mutant: only the promoted get a row, the repeating are merely marked.
PromotedRowsOnly(x) == {[who |-> s, class |-> ClassOf(x, s)] :
                          s \in Planned(x.plan, {"PROMOTED"})}

PromotionRows(x) == {[who |-> s, class |-> ClassOf(x, s)] :
                          s \in Planned(x.plan, {"PROMOTED", "REPEATED"})}

PromoteCreate(w) ==
    /\ ex[w].pc = "promote" /\ Concerned(ex[w]) # {}
    /\ \A s \in Concerned(ex[w]) : HasClass(ex[w], s)
    /\ rows' = rows \union PromotionRows(ex[w])
    /\ Becomes(w, [ex[w] EXCEPT !.pc = "promote-read", !.todo = Concerned(ex[w])])
    /\ UNCHANGED <<run, year, pupil, classes, alumni, applied, desk, job,
                   audited, faults, world, ghost>>

PromoteRead(w) ==
    /\ ex[w].pc = "promote-read"
    /\ Becomes(w, [ex[w] EXCEPT !.pc = "promote-mark",
           !.made.rows = @ \union {r \in rows : r.who \in ex[w].todo},
           !.made.before = Remember(@, ex[w].todo)])
    /\ UNCHANGED <<run, school, desk, job, audited, faults, world, ghost>>

\* One updateMany per decision.
PromoteMark(w) ==
    /\ ex[w].pc = "promote-mark"
    /\ \E action \in {"PROMOTED", "REPEATED"} :
          LET batch == {s \in ex[w].todo : ex[w].plan[s].action = action} IN
          /\ batch # {}
          /\ Mark(batch, action)
          /\ Becomes(w, [ex[w] EXCEPT !.todo = @ \ batch])
    /\ UNCHANGED <<run, year, rows, classes, alumni, applied, desk, job,
                   audited, faults, world, ghost>>

PromoteMarked(w) ==
    /\ ex[w].pc = "promote-mark" /\ ex[w].todo = {}
    /\ StepDone(w, "promote")
    /\ UNCHANGED <<run, school, desk, job, audited, faults, world, ghost>>

\* 6. Selected applicants with an account become students of the intake class.
PpdbCreate(w) ==
    /\ ex[w].pc = "ppdb-enroll" /\ Concerned(ex[w]) # {}
    /\ rows' = rows \union {[who |-> a, class |-> Intake] : a \in Concerned(ex[w])}
    /\ Becomes(w, [ex[w] EXCEPT !.pc = "ppdb-read", !.todo = Concerned(ex[w])])
    /\ UNCHANGED <<run, year, pupil, classes, alumni, applied, desk, job,
                   audited, faults, world, ghost>>

PpdbRead(w) ==
    /\ ex[w].pc = "ppdb-read"
    /\ Becomes(w, [ex[w] EXCEPT !.pc = "ppdb-mark",
           !.made.rows = @ \union {r \in rows : r.who \in ex[w].todo}])
    /\ UNCHANGED <<run, school, desk, job, audited, faults, world, ghost>>

PpdbMark(w) ==
    /\ ex[w].pc = "ppdb-mark"
    /\ applied' = [a \in Applicants |-> IF a \in ex[w].todo THEN "ENROLLED" ELSE applied[a]]
    /\ StepDone(w, "ppdb-enroll")
    /\ UNCHANGED <<run, year, pupil, rows, classes, alumni, desk, job,
                   audited, faults, world, ghost>>

\* 7. The school's profile, then the new year, then the old one.
SetCurrent(w) ==
    /\ \/ /\ ex[w].pc = "set-current"
          /\ year' = [year EXCEPT !.cur = "tgt"]
          /\ Goto(w, "open-target")
       \/ /\ ex[w].pc = "open-target"
          /\ year' = [year EXCEPT !.tgt = "OPEN"]
          /\ Goto(w, "close-old")
       \/ /\ ex[w].pc = "close-old"
          /\ year' = [year EXCEPT !.src = "CLOSED"]
          /\ StepDone(w, "set-current")
          /\ UNCHANGED job
    /\ UNCHANGED <<run, pupil, rows, classes, alumni, applied, desk,
                   audited, faults, world, ghost>>

Finish(w) ==
    /\ ex[w].pc = "finish"
    /\ run' = [run EXCEPT !.status = "DONE", !.stale = FALSE]
    /\ Leave(w, Completed(job))
    /\ UNCHANGED <<school, desk, audited, faults, world, ghost>>

-----------------------------------------------------------------------------
(* What goes wrong.                                                        *)

\* A statement fails.  Before the steps, and at the last write (returned, not
\* awaited, so the handler below it does not see it), the exception just
\* leaves; during the steps the run is first saved as FAILED, unless that
\* write fails too.
Guarded(x) == x.pc \in Claimed \ {"begin", "finish"}

Fail(w) ==
    /\ ex[w].pc # "idle" /\ Fault
    /\ \/ UNCHANGED run
       \/ Guarded(ex[w]) /\ run' = Stored("FAILED", ex[w])
    /\ Leave(w, Thrown(job))
    /\ UNCHANGED <<school, desk, audited, world, ghost>>

\* A planned student has no class to go to: the promotion throws by itself.
PromoteThrows(w) ==
    /\ ex[w].pc = "promote"
    /\ \E s \in Concerned(ex[w]) : ~HasClass(ex[w], s)
    /\ run' = Stored("FAILED", ex[w])
    /\ Leave(w, Thrown(job))
    /\ UNCHANGED <<school, desk, audited, faults, world, ghost>>

\* The process dies.  A BullMQ job stays active until its lock runs out.
Crash(w) ==
    /\ ex[w].pc # "idle" /\ Fault
    /\ Becomes(w, IdleSlot)
    /\ UNCHANGED <<run, school, desk, job, audited, world, ghost>>

Redeliver ==
    /\ job.state = "active" /\ \A w \in Executors : ex[w].via # "job"
    /\ job' = Redelivered(job)
    /\ UNCHANGED <<run, school, ex, desk, audited, faults, world, ghost>>

\* The lock of a job runs out under a live worker, which goes on.
LockLost(w) ==
    /\ mode # "serial" /\ ex[w].via = "job" /\ Fault
    /\ Becomes(w, [ex[w] EXCEPT !.via = None])
    /\ job' = Redelivered(job)
    /\ UNCHANGED <<run, school, desk, audited, world, ghost>>

\* Ten minutes pass since the last write of a RUNNING run.
Age ==
    /\ run.status = "RUNNING" /\ ~run.stale
    /\ IF \A w \in Executors : ex[w].pc \notin Claimed THEN UNCHANGED faults
       ELSE mode = "any" /\ Fault
    /\ run' = [run EXCEPT !.stale = TRUE]
    /\ Overtakes
    /\ UNCHANGED <<school, ex, desk, job, audited, world, shown, undoing, regraded>>

\* A thousand later jobs push this one out of the kept ones.
EvictJob ==
    /\ job.state \in {"completed", "failed"}
    /\ job' = NoJob
    /\ UNCHANGED <<run, school, ex, desk, audited, faults, world, ghost>>

-----------------------------------------------------------------------------
(* rollback: undo a DONE run while nobody has touched what it wrote.       *)

\* The entity names rollback looks for.  The services log their own names in
\* lower case, except for invoices.
Watched == {"Enrollment", "Class", "ClassSubject", "ScheduleEntry", "Alumni",
            "AcademicYear", "Invoice"}

\* What the run says it made; a run that lost its record undoes nothing.
Undone(r) == IF r.made = None THEN [NothingMade("CLOSING") EXCEPT !.cur = None] ELSE r.made

RollbackRead ==
    /\ DeskMayStart
    /\ run.status = "DONE" /\ audited \intersect Watched = {}
    /\ desk' = [IdleDesk EXCEPT !.pc = "undo-rows",
                                !.seen = [run EXCEPT !.made = Undone(run)],
                                !.left = DOMAIN Undone(run).before]
    /\ UNCHANGED <<run, school, ex, job, audited, world, ghost>>

Step(from, to) == desk.pc = from /\ desk' = [desk EXCEPT !.pc = to]

\* The saved ids go; a deleted class takes the enrollments in it along.
UndoRows ==
    /\ Step("undo-rows", "undo-classes")
    /\ rows' = rows \ desk.seen.made.rows
    /\ undoing' = TRUE
    /\ UNCHANGED <<run, year, pupil, classes, alumni, applied, ex, job, audited,
                   faults, world, shown, regraded, overtaken>>

UndoClasses ==
    /\ Step("undo-classes", "undo-alumni")
    /\ classes' = classes \ desk.seen.made.classes
    /\ rows' = {r \in rows : r.class \notin desk.seen.made.classes}
    /\ UNCHANGED <<run, year, pupil, alumni, applied, ex, job, audited,
                   faults, world, ghost>>

UndoAlumni ==
    /\ Step("undo-alumni", "undo-statuses")
    /\ alumni' = alumni \ desk.seen.made.alumni
    /\ UNCHANGED <<run, year, pupil, rows, classes, applied, ex, job, audited,
                   faults, world, ghost>>

UndoStatus(s) ==
    /\ desk.pc = "undo-statuses" /\ s \in desk.left
    /\ Mark({s}, desk.seen.made.before[s])
    /\ desk' = [desk EXCEPT !.left = @ \ {s}]
    /\ UNCHANGED <<run, year, rows, classes, alumni, applied, ex, job, audited,
                   faults, world, ghost>>

UndoYears ==
    /\ \/ /\ desk.left = {} /\ Step("undo-statuses", "undo-target")
          /\ year' = [year EXCEPT !.src = desk.seen.made.src]
       \/ /\ Step("undo-target", "undo-current")
          /\ year' = [year EXCEPT !.tgt = "DRAFT"]
       \/ /\ Step("undo-current", "undo-finish")
          /\ year' = [year EXCEPT !.cur = IF desk.seen.made.cur = None THEN @
                                         ELSE desk.seen.made.cur]
    /\ UNCHANGED <<run, pupil, rows, classes, alumni, applied, ex, job, audited,
                   faults, world, ghost>>

UndoFinish ==
    /\ desk.pc = "undo-finish"
    /\ run' = [run EXCEPT !.status = "ROLLED_BACK"]
    /\ StopDesk /\ Overtakes
    /\ UNCHANGED <<school, ex, job, audited, faults, world, shown, undoing, regraded>>

\* The operator's request fails or its process dies; what is written stays.
DeskFails ==
    /\ desk.pc # "idle" /\ Fault
    /\ StopDesk
    /\ UNCHANGED <<run, school, ex, job, audited, world, ghost>>

-----------------------------------------------------------------------------
(* The rest of the school.                                                 *)

\* A teacher changes a final grade, whatever the run is doing.  The model counts the
\* changes after an execution has begun among the faults and remembers the student.
Regrade(s) ==
    /\ IF run.made = None /\ Quiet THEN UNCHANGED <<faults, regraded>>
       ELSE Fault /\ regraded' = regraded \union {s}
    /\ pupil' = [pupil EXCEPT ![s].passes = ~@]
    /\ UNCHANGED <<run, year, rows, classes, alumni, applied, ex, desk, job,
                   audited, world, shown, undoing, overtaken>>

\* Staff enroll a newcomer in a class of the new year: logged as "enrollment".
StaffEnrolls(n, c) ==
    /\ year.tgt = "OPEN" /\ c \in classes
    /\ rows' = rows \union {[who |-> n, class |-> c]}
    /\ audited' = audited \union {"enrollment"}
    /\ UNCHANGED <<run, year, pupil, classes, alumni, applied, ex, desk, job,
                   faults, world, ghost>>

\* An invoice is deleted, of whatever year: logged as "Invoice".
DeleteInvoice ==
    /\ audited' = audited \union {"Invoice"}
    /\ UNCHANGED <<run, school, ex, desk, job, faults, world, ghost>>

-----------------------------------------------------------------------------

ExecutorStep(w) ==
    \/ Picked(w) \/ ExecuteStart(w) \/ ExecuteRefused(w) \/ Reclaim(w) \/ Claim(w)
    \/ Begin(w) \/ Persist(w) \/ CloseSource(w) \/ CreateClass(w) \/ ClassesCreated(w)
    \/ CopyCurriculum(w) \/ NothingToDo(w)
    \/ GraduateCreate(w) \/ GraduateRead(w) \/ GraduateMark(w) \/ GraduateLog(w)
    \/ PromoteCreate(w) \/ PromoteRead(w) \/ PromoteMark(w) \/ PromoteMarked(w)
    \/ PromoteThrows(w) \/ PpdbCreate(w) \/ PpdbRead(w) \/ PpdbMark(w)
    \/ SetCurrent(w) \/ Finish(w)

DeskStep ==
    \/ PrecheckCommit \/ DryRunCommit \/ UndoRows \/ UndoClasses \/ UndoAlumni
    \/ (\E s \in Students : UndoStatus(s)) \/ UndoYears \/ UndoFinish

Next ==
    \/ \E w \in Executors : \/ ExecutorStep(w) \/ ExecuteInline(w) \/ TakeJob(w)
                            \/ Fail(w) \/ Crash(w) \/ LockLost(w)
    \/ DeskStep \/ PrecheckRead \/ DryRunRead \/ RollbackRead \/ ExecuteRequest
    \/ Redeliver \/ Age \/ EvictJob \/ DeskFails \/ DeleteInvoice
    \/ \E s \in Students : Regrade(s)
    \/ \E n \in Newcomers, c \in classes : StaffEnrolls(n, c)

Spec == Init /\ [][Next]_vars

FairSpec == Spec /\ \A w \in Executors : WF_vars(ExecutorStep(w))

-----------------------------------------------------------------------------
(* Properties.                                                             *)

YearStatuses == {"DRAFT", "OPEN", "CLOSING", "CLOSED"}
People   == Students \union Applicants \union Newcomers
ClassIds == [key : Keys, n : 1..MaxCopies]
RowType  == [who : People, class : ClassIds \union {Intake}]
Decisions == [action : Actions, key : Keys \union {None}]
PlanType == UNION {[S -> Decisions] : S \in SUBSET Students}
MadeType == [classes : SUBSET ClassIds, rows : SUBSET RowType,
             alumni : SUBSET [who : Students, n : 1..MaxCopies],
             before : UNION {[S -> Statuses] : S \in SUBSET Students},
             src : YearStatuses, cur : {"src", "tgt"} \union {None}]
RunType  == [status : {"DRAFT", "PREVIEW", "RUNNING", "FAILED", "DONE", "ROLLED_BACK"},
             stale : BOOLEAN, plan : PlanType \union {None}, done : SUBSET Steps,
             made : MadeType \union {None}]

\* Students, applicants and newcomers are different people; null is no decision,
\* no plan, no record of what was made and no year.
ASSUME PeopleAssumption ==
    /\ Students \intersect Applicants = {} /\ Students \intersect Newcomers = {}
ASSUME NullAssumption ==
    None \notin Decisions \union PlanType \union MadeType \union {"src", "tgt"}

\* Type invariant of the run, the school and the queue's job.
RolloverTypeOK ==
    /\ run \in RunType
    /\ year \in [src : YearStatuses, tgt : YearStatuses, cur : {"src", "tgt"}]
    /\ pupil \in [Students -> Pupils]
    /\ rows \subseteq RowType /\ classes \subseteq ClassIds
    /\ alumni \subseteq [who : Students, n : 1..MaxCopies]
    /\ applied \in [Applicants -> {"SELECTED", "ENROLLED"}]
    /\ job \in JobType
    /\ placeable \subseteq Applicants
    /\ regraded \subseteq Students
    /\ faults \in Nat

HasRow(s)   == \E r \in rows : r.who = s
IsAlumni(s) == \E a \in alumni : a.who = s

\* However executions fail, die, are retried or overlap, a student whose old
\* enrollment was marked as promoted, repeating or graduated has the new
\* enrollment or the alumni row that goes with it, until a rollback begins:
\* each step creates before it marks (rollover.service.ts steps 4 and 5).
NobodyLost ==
    undoing \/ \A s \in Students :
        /\ pupil[s].status \in {"PROMOTED", "REPEATED"} => HasRow(s)
        /\ pupil[s].status = "GRADUATED" => IsAlumni(s)

\* However many requests, jobs, redeliveries and retries there are, at most one execution
\* is between its claim and its end, and the run says RUNNING meanwhile (the conditional
\* updateMany of execute), until a live execution is overtaken: it outlives its lease, or a
\* precheck or a rollback writes its status over RUNNING.
OneExecutor ==
    ~overtaken => \A v, w \in Executors :
        Live(v) => run.status = "RUNNING" /\ (Live(w) => v = w)

\* Students whose grade changed while or after an execution worked on them are placed by
\* whichever plan reached them; the properties below are about the others.
Steady == Students \ regraded

\* One request at a time: a student is placed as the last dry-run announced, in one class
\* of the announced key or among the alumni, although the execution may have been
\* interrupted and resumed (T5: the plans must be identical) and the grades of other
\* students may have changed in between.
AsPreviewed ==
    mode = "serial" => \A s \in Steady :
        /\ \A r \in rows : r.who = s =>
              /\ shown[s].action \in {"PROMOTED", "REPEATED"}
              /\ r.class.key = shown[s].key
              /\ \A q \in rows : q.who = s => q = r
        /\ IsAlumni(s) => shown[s].action = "GRADUATED"

\* One request at a time: when the new year becomes the current one, every student the
\* plan moves has been moved, and every selected applicant with an account is enrolled if
\* the preferences name a class: no step was skipped by the failures and resumptions
\* before.  Applicants without an account are left behind.
FlippedAfterPlacement ==
    (mode = "serial" /\ year.cur = "tgt" /\ ~undoing) =>
        /\ \A s \in Steady : shown[s] # None =>
              /\ shown[s].action \in {"PROMOTED", "REPEATED"} => HasRow(s)
              /\ shown[s].action = "GRADUATED" => IsAlumni(s)
              /\ pupil[s].status # "ACTIVE" <=>
                    shown[s].action \in {"PROMOTED", "REPEATED", "GRADUATED"}
        /\ \A s \in Students : pupil[s].status = "ACTIVE" => shown[s] # None
        /\ \A a \in placeable : applied[a] = "ENROLLED"

\* One request at a time: after a rollback, also one that was repeated after a
\* failure, the old enrollments of these students are active again, no new enrollment
\* or alumni row of theirs is left and the old year is the current one.
RollbackRestores ==
    (mode = "serial" /\ run.status = "ROLLED_BACK") =>
        /\ \A s \in Steady : /\ ~HasRow(s) /\ ~IsAlumni(s)
                             /\ shown[s] # None => pupil[s].status = "ACTIVE"
        /\ year.tgt = "DRAFT" /\ year.cur = "src" /\ year.src # "CLOSED"

\* The header of rollover.service.ts: a FAILED run can be resumed by executing
\* it, and a RUNNING run whose process died is reclaimed.  So an execute that
\* may run is refused only if the plan differs from the last one previewed.
RefusedOnlyIfChanged ==
    [][\A w \in Executors :
          (ExecuteRefused(w) /\ MayExecute(run)) =>
              \E s \in Students : shown[s] = None \/
                 (s \in DOMAIN CurrentPlan /\ CurrentPlan[s] # shown[s])]_vars

\* README.registration.md: a write to an affected entity after the execution
\* makes the rollback refuse, which the audit log tells it.  So no rollback
\* begins once staff have enrolled somebody in the new year.
RollbackOnlyIfPristine ==
    [][RollbackRead => \A r \in rows : r.who \notin Newcomers]_vars
=============================================================================
