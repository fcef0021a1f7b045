---------------------------- MODULE ExamAttempt ----------------------------
(***************************************************************************)
(* The attempts of one exam session: exam/exam-attempt.service.ts with the *)
(* session token and the exam status of exam/exam.service.ts.              *)
(*                                                                         *)
(* Every HTTP handler runs in a slot of `req`, every run of the auto-submit*)
(* cron (or of POST exam/attempts/auto-submit) is a sweeper of `sweep`;    *)
(* AutoSubmit says when they start.                                        *)
(* Postgres runs the Prisma transactions at READ COMMITTED: a handler's    *)
(* reads see the rows committed when the statement runs and its writes     *)
(* become visible together at commit, so a handler is a read step, which   *)
(* keeps the row it saw in its slot, and a later commit step.  Abort and   *)
(* SweepAbort are a rollback, a timeout or a process crash in between.     *)
(*                                                                         *)
(* Answers are graded as a vector: an automatic score stands for the       *)
(* answers it was computed from, a Grade for the pair (automatic, manual). *)
(***************************************************************************)
EXTENDS Integers, FiniteSets

CONSTANTS
    Students,       \* User ids
    Enrolled,       \* the students whose ClassSubject resolveClassSubjectId finds
    Tokens,         \* hashes of session tokens
    AttemptIds,     \* ExamAttempt ids, ordered (orderBy id asc)
    Questions,      \* the objective questions of the exam package
    Answers,        \* answers a student can give
    Keys,           \* Idempotency-Key headers
    Marks,          \* manual scores for the essay questions
    Events,         \* activity events (tab switch, ...)
    Requests,       \* slots for concurrent HTTP requests
    Sweepers,       \* concurrent runs of autoSubmitExpired
    Ops,            \* the operations clients send
    Duration,       \* Exam.duration_min
    SessionEnd,     \* ExamSession.ends_at
    TokenTtl,       \* ttl_minutes of generateToken
    SemesterEnd,    \* the last instant of the semester label GANJIL
    Batch,          \* AUTO_SUBMIT_BATCH
    MaxTime,        \* bound on the clock
    None            \* SQL NULL

ASSUME IdAssumption == AttemptIds \subseteq Nat /\ IsFiniteSet(AttemptIds)
ASSUME TimeAssumption ==
    /\ Duration \in Nat /\ SessionEnd \in Nat /\ TokenTtl \in Nat
    /\ SemesterEnd \in Nat /\ MaxTime \in Nat
ASSUME BatchAssumption == Batch \in Nat \ {0}
ASSUME EnrolledAssumption == Enrolled \subseteq Students
ASSUME NoneAssumption ==
    /\ None \notin Tokens /\ None \notin Marks /\ None \notin Answers
    /\ None \notin [Questions -> Answers \cup {None}]

VARIABLES
    now,        \* the clock
    exam,       \* Exam.status
    session,    \* [token, expires]: ExamSession.access_token, token_expires_at
    attempt,    \* the ExamAttempt rows, or NoRow
    log,        \* the ExamAnswerLog rows
    grade,      \* the Grade rows with source_id = attempt, per semester
    req,        \* the HTTP requests in flight
    sweep,      \* the auto-submit runs in flight
    pushed,     \* attempts whose room received exam:force-submit
    told        \* attempts whose client was answered "attempt di-auto-submit"

vars == <<now, exam, session, attempt, log, grade, req, sweep, pushed, told>>

-----------------------------------------------------------------------------
(* Rows and types *)

ExamStatus == {"DRAFT", "PUBLISHED", "ONGOING", "CLOSED", "ARCHIVED"}
Status == {"IN_PROGRESS", "SUBMITTED", "AUTO_SUBMITTED", "EXPIRED"}
Semesters == {"GANJIL", "GENAP"}
Time == 0 .. MaxTime
Score == [Questions -> Answers \cup {None}]
Device == [acts : SUBSET Events, warned : BOOLEAN]

NoRow == [status |-> "NO_ROW"]
Row == [student : Students, token : Tokens, started : Time, status : Status,
        auto : Score \cup {None}, manual : Marks \cup {None}, device : Device]
LogRow == [attempt : AttemptIds, key : Keys, question : Questions,
           answer : Answers, at : Time]
NoGrade == [auto |-> None, manual |-> None]
GradeRow == [auto : Score, manual : Marks \cup {None}]

Idle == [op |-> "idle"]
Sheets == UNION {[Q -> Answers] : Q \in (SUBSET Questions) \ {{}}}
Request ==
    {Idle}
    \cup [op : {"start"}, checked : BOOLEAN, student : Students,
          token : Tokens, at : Time]
    \cup [op : {"save"}, attempt : AttemptIds, key : Keys, sheet : Sheets, at : Time]
    \cup [op : {"submit"}, attempt : AttemptIds, snap : Row,
          target : {"SUBMITTED", "AUTO_SUBMITTED"}, auto : Score \cup {None}]
    \cup [op : {"expire"}, attempt : AttemptIds]
    \cup [op : {"grade"}, attempt : AttemptIds, snap : Row, mark : Marks]
    \cup [op : {"activity"}, attempt : AttemptIds, snap : Row, event : Events]
    \cup [op : {"status"}, target : ExamStatus]

\* A run of the sweep: where its loop stands, the rows of the page that are due and
\* their scores.
Partial(S) == UNION {[D -> S] : D \in SUBSET AttemptIds}
Sweeper == [pc : {"idle", "read", "score", "commit", "emit"}, cursor : Nat, full : BOOLEAN,
            snap : Partial(Row), auto : Partial(Score)]
Resting == [pc |-> "idle", cursor |-> 0, full |-> FALSE, snap |-> <<>>, auto |-> <<>>]

Exists(a) == attempt[a] # NoRow
Open(a) == attempt[a].status = "IN_PROGRESS"
Ended(a) == attempt[a].status \in Status \ {"IN_PROGRESS"}
LogOf(a) == {e \in log : e.attempt = a}

TypeOK ==
    /\ now \in Time
    /\ exam \in ExamStatus
    /\ session \in [token : Tokens \cup {None}, expires : Int]
    /\ attempt \in [AttemptIds -> Row \cup {NoRow}]
    /\ log \subseteq LogRow
    /\ grade \in [AttemptIds \X Semesters -> GradeRow \cup {NoGrade}]
    /\ req \in [Requests -> Request]
    /\ sweep \in [Sweepers -> Sweeper]
    /\ pushed \subseteq AttemptIds
    /\ told \subseteq AttemptIds

Init ==
    /\ now = 0
    /\ exam = "DRAFT"
    /\ session = [token |-> None, expires |-> 0]
    /\ attempt = [a \in AttemptIds |-> NoRow]
    /\ log = {}
    /\ grade = [x \in AttemptIds \X Semesters |-> NoGrade]
    /\ req = [r \in Requests |-> Idle]
    /\ sweep = [w \in Sweepers |-> Resting]
    /\ pushed = {}
    /\ told = {}

-----------------------------------------------------------------------------
(* Helpers *)

\* isExpired: now > started_at + duration_min
Overdue(row, t) == t > row.started + Duration

\* computeSemesterLabel(new Date())
SemesterLabel(t) == IF t <= SemesterEnd THEN "GANJIL" ELSE "GENAP"

\* latestAnswersByQuestion: per question the answer saved last.  findMany has no
\* orderBy, so among equal saved_at any answer may come last (t >= prev).
LatestAnswers(rows) ==
    {f \in Score : \A q \in Questions :
        LET mine == {e \in rows : e.question = q} IN
        IF mine = {} THEN f[q] = None
        ELSE \E e \in mine : f[q] = e.answer /\ \A d \in mine : d.at <= e.at}

\* The unique keys of exam_attempt and exam_answer_log: an insert that breaks one
\* fails (P2002) or, with skipDuplicates, is skipped.
StudentFree(s) == \A a \in AttemptIds : Exists(a) => attempt[a].student # s
TokenFree(t) == \A a \in AttemptIds : Exists(a) => attempt[a].token # t
\* Mutant: the schema without the unique key on the token.
UniqueKeysStudentOnly(s, t) == StudentFree(s)
UniqueKeys(s, t) == StudentFree(s) /\ TokenFree(t)
\* Mutant: createMany with skipDuplicates but no unique key to skip on.
KeyFreeDropped(a, k, q) == TRUE
KeyFree(a, k, q) == \A e \in LogOf(a) : ~(e.key = k /\ e.question = q)

\* writeGrade: the Grade of this semester is upserted, or the warning is written
\* over device_info; `old` is the row the handler read, not the current one.
Graded(grades, a, old, auto) ==
    IF old.student \in Enrolled
    THEN [grades EXCEPT ![<<a, SemesterLabel(now)>>] =
            [auto |-> auto, manual |-> old.manual]]
    ELSE grades
Warned(row, old) ==
    IF old.student \in Enrolled THEN row
    ELSE [row EXCEPT !.device = [old.device EXCEPT !.warned = TRUE]]

\* finalizeWithinTx: update by id, with no condition on the current status.
Finalized(row, old, target, auto) ==
    Warned([row EXCEPT !.status = target, !.auto = auto], old)

Begin(r, op, rec) ==
    /\ op \in Ops
    /\ req[r] = Idle
    /\ req' = [req EXCEPT ![r] = rec]
Finish(r) == req' = [req EXCEPT ![r] = Idle]

-----------------------------------------------------------------------------
(* exam.service: status and token of the session *)

\* publish and close are the only transitions the controller offers.
SetStatusFrom == [PUBLISHED |-> {"DRAFT"}, CLOSED |-> {"PUBLISHED", "ONGOING", "DRAFT"}]

SetStatusRead(r, target) ==
    /\ exam \in SetStatusFrom[target]
    /\ Begin(r, "status", [op |-> "status", target |-> target])
    /\ UNCHANGED <<now, exam, session, attempt, log, grade, sweep, pushed, told>>

SetStatusCommit(r) ==
    /\ req[r].op = "status"
    /\ exam' = req[r].target
    /\ Finish(r)
    /\ UNCHANGED <<now, session, attempt, log, grade, sweep, pushed, told>>

\* generateToken: a random token replaces the current one.
GenerateToken(t) ==
    /\ "token" \in Ops
    /\ t # session.token
    /\ session' = [token |-> t, expires |-> now + TokenTtl]
    /\ UNCHANGED <<now, exam, attempt, log, grade, req, sweep, pushed, told>>

-----------------------------------------------------------------------------
(* start *)

\* The session, its window, the exam's status and the token are read before the
\* transaction, and started_at is taken here.
StartRead(r, s, t) ==
    /\ now <= SessionEnd
    /\ exam \in {"PUBLISHED", "ONGOING"}
    /\ session.token = t
    /\ now <= session.expires
    /\ Begin(r, "start", [op |-> "start", checked |-> FALSE,
                          student |-> s, token |-> t, at |-> now])
    /\ UNCHANGED <<now, exam, session, attempt, log, grade, sweep, pushed, told>>

\* The two findFirst of the transaction: existing attempt, reused token.
StartCheck(r) ==
    /\ req[r].op = "start" /\ ~req[r].checked
    /\ IF StudentFree(req[r].student) /\ TokenFree(req[r].token)
       THEN req' = [req EXCEPT ![r].checked = TRUE]
       ELSE Finish(r)
    /\ UNCHANGED <<now, exam, session, attempt, log, grade, sweep, pushed, told>>

NewRow(s, t, at) ==
    [student |-> s, token |-> t, started |-> at, status |-> "IN_PROGRESS",
     auto |-> None, manual |-> None, device |-> [acts |-> {}, warned |-> FALSE]]

\* updateMany PUBLISHED -> ONGOING, create, commit; P2002 rolls everything back.
StartCreate(r) ==
    /\ req[r].op = "start" /\ req[r].checked
    /\ IF UniqueKeys(req[r].student, req[r].token)
       THEN /\ \E a \in AttemptIds :
                /\ ~Exists(a)
                /\ attempt' = [attempt EXCEPT
                     ![a] = NewRow(req[r].student, req[r].token, req[r].at)]
            /\ exam' = IF exam = "PUBLISHED" THEN "ONGOING" ELSE exam
       ELSE UNCHANGED <<attempt, exam>>
    /\ Finish(r)
    /\ UNCHANGED <<now, session, log, grade, sweep, pushed, told>>

-----------------------------------------------------------------------------
(* saveAnswers *)

SaveRead(r, a, k, sheet) ==
    /\ Open(a)
    /\ ~Overdue(attempt[a], now)
    /\ Begin(r, "save", [op |-> "save", attempt |-> a, key |-> k,
                         sheet |-> sheet, at |-> now])
    /\ UNCHANGED <<now, exam, session, attempt, log, grade, sweep, pushed, told>>

\* The expired branch: finalizeWithinTx runs, then the handler throws inside the
\* transaction, which rolls the finalisation back; only the answer remains.
SaveOverdue(a) ==
    /\ "save" \in Ops
    /\ Open(a)
    /\ Overdue(attempt[a], now)
    /\ told' = told \cup {a}
    /\ UNCHANGED <<now, exam, session, attempt, log, grade, req, sweep, pushed>>

\* Mutant: the answer of a question is replaced instead of appended.
SaveCommitReplaces(r) ==
    /\ req[r].op = "save"
    /\ LET a == req[r].attempt
           sheet == req[r].sheet
       IN log' = {e \in log : e.attempt # a \/ e.question \notin DOMAIN sheet}
                 \cup {[attempt |-> a, key |-> req[r].key, question |-> q,
                        answer |-> sheet[q], at |-> now] : q \in DOMAIN sheet}
    /\ Finish(r)
    /\ UNCHANGED <<now, exam, session, attempt, grade, sweep, pushed, told>>

\* createMany skipDuplicates; saved_at was taken at some instant of the request.
SaveCommit(r) ==
    /\ req[r].op = "save"
    /\ LET a == req[r].attempt
           k == req[r].key
           sheet == req[r].sheet
           fresh == {q \in DOMAIN sheet : KeyFree(a, k, q)}
       IN \E t \in req[r].at .. now :
            log' = log \cup {[attempt |-> a, key |-> k, question |-> q,
                              answer |-> sheet[q], at |-> t] : q \in fresh}
    /\ Finish(r)
    /\ UNCHANGED <<now, exam, session, attempt, grade, sweep, pushed, told>>

-----------------------------------------------------------------------------
(* submit *)

SubmitRead(r, a) ==
    /\ Open(a)
    /\ Begin(r, "submit",
         [op |-> "submit", attempt |-> a, snap |-> attempt[a], auto |-> None,
          target |-> IF Overdue(attempt[a], now) THEN "AUTO_SUBMITTED" ELSE "SUBMITTED"])
    /\ UNCHANGED <<now, exam, session, attempt, log, grade, sweep, pushed, told>>

SubmitScore(r) ==
    /\ req[r].op = "submit" /\ req[r].auto = None
    /\ \E f \in LatestAnswers(LogOf(req[r].attempt)) :
         req' = [req EXCEPT ![r].auto = f]
    /\ UNCHANGED <<now, exam, session, attempt, log, grade, sweep, pushed, told>>

SubmitCommit(r) ==
    /\ req[r].op = "submit" /\ req[r].auto # None
    /\ LET a == req[r].attempt IN
        /\ attempt' = [attempt EXCEPT ![a] =
                         Finalized(@, req[r].snap, req[r].target, req[r].auto)]
        /\ grade' = Graded(grade, a, req[r].snap, req[r].auto)
    /\ Finish(r)
    /\ UNCHANGED <<now, exam, session, log, sweep, pushed, told>>

-----------------------------------------------------------------------------
(* autoSubmitExpired *)

InProgress == {a \in AttemptIds : Exists(a) /\ Open(a)}

\* Mutant: the pages are counted from one.
PageFromOne(skip) ==
    {a \in InProgress :
        LET before == Cardinality({b \in InProgress : b < a})
        IN skip < before /\ before <= skip + Batch}

\* findMany ... orderBy id asc, skip, take over the rows IN_PROGRESS right now.
Page(skip) ==
    {a \in InProgress :
        LET before == Cardinality({b \in InProgress : b < a})
        IN skip <= before /\ before < skip + Batch}

SweepBegin(w) ==
    /\ sweep[w].pc = "idle"
    /\ sweep' = [sweep EXCEPT ![w] = [Resting EXCEPT !.pc = "read"]]
    /\ UNCHANGED <<now, exam, session, attempt, log, grade, req, pushed, told>>

\* One iteration's read: the cursor moves past the page, and the overdue rows of
\* the page are kept.  A short or empty page ends the loop.
SweepRead(w) ==
    /\ sweep[w].pc = "read"
    /\ LET page == Page(sweep[w].cursor)
           due == {a \in page : Overdue(attempt[a], now)}
           full == Cardinality(page) = Batch
       IN sweep' = [sweep EXCEPT ![w] =
            IF due = {} /\ ~full THEN Resting
            ELSE [pc |-> IF due = {} THEN "read" ELSE "score",
                  cursor |-> sweep[w].cursor + Cardinality(page),
                  full |-> full,
                  snap |-> [a \in due |-> attempt[a]],
                  auto |-> <<>>]]
    /\ UNCHANGED <<now, exam, session, attempt, log, grade, req, pushed, told>>

\* Mutant: the rooms are told before the batch commits.
SweepScoreTells(w) ==
    /\ sweep[w].pc = "score"
    /\ \E f \in [DOMAIN sweep[w].snap -> Score] :
         /\ \A a \in DOMAIN f : f[a] \in LatestAnswers(LogOf(a))
         /\ sweep' = [sweep EXCEPT ![w].pc = "commit", ![w].auto = f]
    /\ pushed' = pushed \cup DOMAIN sweep[w].snap
    /\ UNCHANGED <<now, exam, session, attempt, log, grade, req, told>>

SweepScore(w) ==
    /\ sweep[w].pc = "score"
    /\ \E f \in [DOMAIN sweep[w].snap -> Score] :
         /\ \A a \in DOMAIN f : f[a] \in LatestAnswers(LogOf(a))
         /\ sweep' = [sweep EXCEPT ![w].pc = "commit", ![w].auto = f]
    /\ UNCHANGED <<now, exam, session, attempt, log, grade, req, pushed, told>>

\* Mutant: the sweep sets the statuses but writes no Grade.
SweepCommitNoGrade(w) ==
    /\ sweep[w].pc = "commit"
    /\ LET snap == sweep[w].snap IN
        attempt' = [a \in AttemptIds |->
            IF a \in DOMAIN snap
            THEN Finalized(attempt[a], snap[a], "AUTO_SUBMITTED", sweep[w].auto[a])
            ELSE attempt[a]]
    /\ sweep' = [sweep EXCEPT ![w].pc = "emit"]
    /\ UNCHANGED <<now, exam, session, log, grade, req, pushed, told>>

\* The batch's transaction commits: every snapshot is finalised.
SweepCommit(w) ==
    /\ sweep[w].pc = "commit"
    /\ LET snap == sweep[w].snap
           auto == sweep[w].auto
       IN /\ attempt' = [a \in AttemptIds |->
                IF a \in DOMAIN snap
                THEN Finalized(attempt[a], snap[a], "AUTO_SUBMITTED", auto[a])
                ELSE attempt[a]]
          /\ grade' = [x \in AttemptIds \X Semesters |->
                IF x[1] \in DOMAIN snap
                THEN Graded(grade, x[1], snap[x[1]], auto[x[1]])[x]
                ELSE grade[x]]
    /\ sweep' = [sweep EXCEPT ![w].pc = "emit"]
    /\ UNCHANGED <<now, exam, session, log, req, pushed, told>>

\* exam:force-submit to the rooms, after the commit; then the next page.
SweepEmit(w) ==
    /\ sweep[w].pc = "emit"
    /\ pushed' = pushed \cup DOMAIN sweep[w].snap
    /\ sweep' = [sweep EXCEPT ![w] =
         IF sweep[w].full
         THEN [Resting EXCEPT !.pc = "read", !.cursor = sweep[w].cursor]
         ELSE Resting]
    /\ UNCHANGED <<now, exam, session, attempt, log, grade, req, told>>

\* The batch's transaction fails or the process stops: nothing of it is written,
\* and the cursor, which lived in memory, is gone.
SweepAbort(w) ==
    /\ sweep[w].pc # "idle"
    /\ sweep' = [sweep EXCEPT ![w] = Resting]
    /\ UNCHANGED <<now, exam, session, attempt, log, grade, req, pushed, told>>

-----------------------------------------------------------------------------
(* markExpired *)

ExpireRead(r, a) ==
    /\ Open(a)
    /\ Begin(r, "expire", [op |-> "expire", attempt |-> a])
    /\ UNCHANGED <<now, exam, session, attempt, log, grade, sweep, pushed, told>>

ExpireCommit(r) ==
    /\ req[r].op = "expire"
    /\ attempt' = [attempt EXCEPT ![req[r].attempt].status = "EXPIRED"]
    /\ Finish(r)
    /\ UNCHANGED <<now, exam, session, log, grade, sweep, pushed, told>>

-----------------------------------------------------------------------------
(* manualGrade *)

ManualGradeRead(r, a, m) ==
    /\ attempt[a].status \in {"SUBMITTED", "AUTO_SUBMITTED"}
    /\ Begin(r, "grade", [op |-> "grade", attempt |-> a, snap |-> attempt[a], mark |-> m])
    /\ UNCHANGED <<now, exam, session, attempt, log, grade, sweep, pushed, told>>

\* score_manual is written first and holds the row's lock; the answers are read
\* and the Grade is computed from the row read before that write.
ManualGradeCommit(r) ==
    /\ req[r].op = "grade"
    /\ LET a == req[r].attempt
           old == req[r].snap
       IN \E f \in LatestAnswers(LogOf(a)) :
            /\ attempt' = [attempt EXCEPT ![a] =
                             Warned([@ EXCEPT !.manual = req[r].mark], old)]
            /\ grade' = Graded(grade, a, old, f)
    /\ Finish(r)
    /\ UNCHANGED <<now, exam, session, log, sweep, pushed, told>>

-----------------------------------------------------------------------------
(* logActivity: read device_info, append in memory, write it back *)

ActivityRead(r, a, e) ==
    /\ Exists(a)
    /\ Begin(r, "activity", [op |-> "activity", attempt |-> a,
                             snap |-> attempt[a], event |-> e])
    /\ UNCHANGED <<now, exam, session, attempt, log, grade, sweep, pushed, told>>

ActivityCommit(r) ==
    /\ req[r].op = "activity"
    /\ attempt' = [attempt EXCEPT ![req[r].attempt].device =
                     [req[r].snap.device EXCEPT !.acts = @ \cup {req[r].event}]]
    /\ Finish(r)
    /\ UNCHANGED <<now, exam, session, log, grade, sweep, pushed, told>>

-----------------------------------------------------------------------------
(* The environment *)

Tick ==
    /\ now < MaxTime
    /\ now' = now + 1
    /\ UNCHANGED <<exam, session, attempt, log, grade, req, sweep, pushed, told>>

Abort(r) ==
    /\ req[r] # Idle
    /\ Finish(r)
    /\ UNCHANGED <<now, exam, session, attempt, log, grade, sweep, pushed, told>>

-----------------------------------------------------------------------------
(* Specification *)

Staff(r) ==
    \/ \E target \in DOMAIN SetStatusFrom : SetStatusRead(r, target)
    \/ SetStatusCommit(r)
    \/ \E a \in AttemptIds : ExpireRead(r, a)
    \/ ExpireCommit(r)
    \/ \E a \in AttemptIds, m \in Marks : ManualGradeRead(r, a, m)
    \/ ManualGradeCommit(r)

Student(r) ==
    \/ \E s \in Students, t \in Tokens : StartRead(r, s, t)
    \/ StartCheck(r)
    \/ StartCreate(r)
    \/ \E a \in AttemptIds, k \in Keys, sheet \in Sheets : SaveRead(r, a, k, sheet)
    \/ SaveCommit(r)
    \/ \E a \in AttemptIds : SubmitRead(r, a)
    \/ SubmitScore(r)
    \/ SubmitCommit(r)
    \/ \E a \in AttemptIds, e \in Events : ActivityRead(r, a, e)
    \/ ActivityCommit(r)

Sweep(w) ==
    \/ SweepBegin(w)
    \/ SweepRead(w)
    \/ SweepScore(w)
    \/ SweepCommit(w)
    \/ SweepEmit(w)
    \/ SweepAbort(w)

Next ==
    \/ Tick
    \/ \E t \in Tokens : GenerateToken(t)
    \/ \E a \in AttemptIds : SaveOverdue(a)
    \/ \E r \in Requests : Staff(r) \/ Student(r) \/ Abort(r)
    \/ \E w \in Sweepers : Sweep(w)

Spec == Init /\ [][Next]_vars

-----------------------------------------------------------------------------
(* Properties *)

\* "Satu akun satu sesi" and "token sekali pakai": however the starts of several
\* clients interleave, two attempts of the session never share a student or a token.
UniqueSeats ==
    \A a, b \in AttemptIds : a # b /\ Exists(a) /\ Exists(b) =>
        /\ attempt[a].student # attempt[b].student
        /\ attempt[a].token # attempt[b].token

\* An autosave that is retried while its first try is still running never leaves two
\* log rows for one question under one Idempotency-Key.
AutosaveOnce ==
    \A d, e \in log :
        d.attempt = e.attempt /\ d.key = e.key /\ d.question = e.question => d = e

\* finalizeWithinTx writes the status and the Grade together: a Grade never exists for
\* an attempt that is still running, and a submitted attempt of a student with a class
\* subject is never without one, whichever of submit, sweep and proctor came last.
GradeIffFinished ==
    \A a \in AttemptIds :
        LET has == \E x \in Semesters : grade[<<a, x>>] # NoGrade IN
        /\ has => Ended(a)
        /\ attempt[a].status \in {"SUBMITTED", "AUTO_SUBMITTED"}
            /\ attempt[a].student \in Enrolled => has

\* exam:force-submit reaches a room only after the attempt really ended; a batch that
\* was rolled back has told nobody.
PushedOnlyFinished == \A a \in pushed : Ended(a)

\* What is graded was saved: every answer in an automatic score, on the attempt or in a
\* Grade, is an answer of this attempt's own log.
GradedAnswersWereSaved ==
    \A a \in AttemptIds, q \in Questions :
        LET saved == {e.answer : e \in {d \in LogOf(a) : d.question = q}} \cup {None} IN
        /\ Exists(a) /\ attempt[a].auto # None => attempt[a].auto[q] \in saved
        /\ \A x \in Semesters :
            grade[<<a, x>>] # NoGrade => grade[<<a, x>>].auto[q] \in saved

\* The session implements ExamSeat: a seat opens once with an unspent token, and stays
\* closed, although the statuses behind "closed" may still be overwritten.
HasRow(s) == \E a \in AttemptIds : Exists(a) /\ attempt[a].student = s
Running(s) == \E a \in AttemptIds : Exists(a) /\ attempt[a].student = s /\ Open(a)
SeatOf == [s \in Students |->
    IF ~HasRow(s) THEN "none" ELSE IF Running(s) THEN "open" ELSE "closed"]
SpentOf == {t \in Tokens : ~TokenFree(t)}
Seat == INSTANCE ExamSeat WITH seat <- SeatOf, spent <- SpentOf
SeatSpec == Seat!Spec

-----------------------------------------------------------------------------
(* What the documentation says and the code does not do *)

\* The 409 of saveAnswers: "Waktu ujian habis; attempt di-auto-submit".
ToldIsSubmitted == \A a \in told : Ended(a)

\* docs/08-knowledge-base.md: the teacher's essay mark goes into the Grade.
ManualMarkInGrade ==
    \A a \in AttemptIds :
        Exists(a) /\ attempt[a].student \in Enrolled /\ attempt[a].manual # None =>
            \E x \in Semesters : grade[<<a, x>>].manual = attempt[a].manual
=============================================================================
