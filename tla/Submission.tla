----------------------------- MODULE Submission -----------------------------
(***************************************************************************)
(* Assignments and what students hand in for them                          *)
(* (lms/assignments/submissions.service.ts, assignments.service.ts): one   *)
(* row for a student and an assignment, replaced or withdrawn until it is  *)
(* graded.  No handler uses a transaction: each reads the row, decides and *)
(* writes it by id.  Repeated requests are told by a key, remembered in    *)
(* the memory of the process.                                              *)
(***************************************************************************)
EXTENDS Naturals, Requests

CONSTANTS Learners,     \* the students of the class
          Works,        \* what they hand in, each under an Idempotency-Key of its own
          Points,       \* scores up to max_score
          LastHour      \* bound: the clock stops here

ASSUME SubmissionAssumption == None \notin Points \cup Works /\ LastHour \in Nat

VARIABLES task,      \* the Assignment row
          sheet,     \* sheet[s] - the Submission row of student s, or None
          entry,     \* entry[s] - the score in the Grade row of that submission, or None
          remembered, \* idempotencyStore: the students and work it keeps a key of
          hour,      \* the clock
          judged,    \* judged[s] - the work that stood when s was graded (if alone), or None
          written,   \* what this process has written
          rewritten  \* what it has written more than once

submissionRows == <<task, sheet, entry, remembered, hour, judged, written, rewritten>>
submissionVars == <<requestVars, submissionRows>>

Hours == 0..LastHour

Tasks == [status : {"DRAFT", "PUBLISHED", "CLOSED"}, due : Hours, allowLate : BOOLEAN]

\* graded stands for graded_by and graded_at, which are written together.
Sheets == [status : {"DRAFT", "SUBMITTED", "LATE", "GRADED"}, work : Works,
           handed : Hours \cup {None}, score : Points \cup {None}, graded : BOOLEAN]

ASSUME SubmissionRowAssumption == None \notin Sheets \cup Hours

SubmissionInit == /\ RequestsInit
                  /\ task = [status |-> "DRAFT", due |-> 0, allowLate |-> FALSE]
                  /\ sheet = [s \in Learners |-> None]
                  /\ entry = [s \in Learners |-> None]
                  /\ remembered = {}
                  /\ hour = 0
                  /\ judged = [s \in Learners |-> None]
                  /\ written = {}
                  /\ rewritten = {}

-----------------------------------------------------------------------------
\* submit: the assignment is read first ...

ReadTask(h, s) ==
    /\ MayStart(h)
    /\ task.status # "CLOSED"
    /\ \E w \in Works :
          Goto(h, "look", [by |-> s, work |-> w, task |-> task])
    /\ UNCHANGED submissionRows

\* Mutant: the memory of keys is not consulted.
ReplayNever(s, work) == FALSE

\* idempotencyStore.get(storeKey) === existing.id
Replay(s, work) == <<s, work>> \in remembered

\* ... then, after a look at the clock, the row there is: a repeated request is
\* answered from it, graded work is refused.  (The second test of the deadline
\* never fails: the first one has thrown already.)
LookForSheet(h) ==
    LET s == held[h].by
        now == [by |-> s, work |-> held[h].work, when |-> hour,
                late |-> hour > held[h].task.due]
    IN
    /\ at[h] = "look"
    /\ IF now.late /\ ~held[h].task.allowLate THEN Answer(h)
       ELSE IF sheet[s] = None THEN Goto(h, "create", now)
       ELSE IF Replay(s, now.work) \/ sheet[s].graded THEN Answer(h)
       ELSE Goto(h, "replace", now)
    /\ UNCHANGED submissionRows

HandedStatus(locals) == IF locals.late THEN "LATE" ELSE "SUBMITTED"

\* Which submit wrote the work is not in the row: written and rewritten tell,
\* while requests do not overlap.
CountWrite(s, work) ==
    LET now == IF alone THEN {<<s, work>>} ELSE {} IN
    /\ written' = written \cup now
    /\ rewritten' = rewritten \cup (now \cap written)

\* The unique key of assignment and student refuses a second row.
CreateSheet(h) ==
    LET s == held[h].by IN
    /\ at[h] = "create"
    /\ IF sheet[s] = None
       THEN /\ sheet' = [sheet EXCEPT ![s] =
                  [status |-> HandedStatus(held[h]), work |-> held[h].work,
                   handed |-> held[h].when, score |-> None, graded |-> FALSE]]
            /\ CountWrite(s, held[h].work)
            /\ Goto(h, "remember", held[h])
       ELSE /\ Answer(h)
            /\ UNCHANGED <<sheet, written, rewritten>>
    /\ UNCHANGED <<task, entry, remembered, hour, judged>>

ReplaceSheet(h) ==
    LET s == held[h].by IN
    /\ at[h] = "replace"
    /\ sheet' = [sheet EXCEPT ![s].status = HandedStatus(held[h]),
                              ![s].work = held[h].work, ![s].handed = held[h].when]
    /\ CountWrite(s, held[h].work)
    /\ Goto(h, "remember", held[h])
    /\ UNCHANGED <<task, entry, remembered, hour, judged>>

Remember(h) ==
    /\ at[h] = "remember"
    /\ remembered' = remembered \cup {<<held[h].by, held[h].work>>}
    /\ Answer(h)
    /\ UNCHANGED <<task, sheet, entry, hour, judged, written, rewritten>>

-----------------------------------------------------------------------------
\* Mutant: work that has been graded may be withdrawn.
WithdrawableAny(s) ==
    sheet[s] # None /\ (sheet[s].handed # None => sheet[s].handed <= task.due)

\* Ungraded, and not handed in after the deadline.
Withdrawable(s) ==
    /\ sheet[s] # None
    /\ ~sheet[s].graded
    /\ sheet[s].handed # None => sheet[s].handed <= task.due

WithdrawRead(h, s) == /\ MayStart(h)
                      /\ Withdrawable(s)
                      /\ Goto(h, "withdraw", [by |-> s])
                      /\ UNCHANGED submissionRows

Withdraw(h) ==
    /\ at[h] = "withdraw"
    /\ sheet' = [sheet EXCEPT ![held[h].by].status = "DRAFT", ![held[h].by].handed = None]
    /\ Answer(h)
    /\ UNCHANGED <<task, entry, remembered, hour, judged, written, rewritten>>

-----------------------------------------------------------------------------
\* grade: whatever the status, withdrawn work included; a second time as well.
GradeSheetRead(h, s) ==
    /\ MayStart(h)
    /\ sheet[s] # None
    /\ \E p \in Points : Goto(h, "grade", [by |-> s, points |-> p])
    /\ UNCHANGED submissionRows

GradeSheet(h) ==
    LET s == held[h].by IN
    /\ at[h] = "grade"
    /\ sheet' = [sheet EXCEPT ![s].status = "GRADED", ![s].score = held[h].points,
                              ![s].graded = TRUE]
    /\ judged' = [judged EXCEPT ![s] = IF alone THEN sheet[s].work ELSE None]
    /\ Goto(h, "enter", held[h])
    /\ UNCHANGED <<task, entry, remembered, hour, written, rewritten>>

\* The upsert of the Grade row, in a statement of its own.
EnterGrade(h) ==
    /\ at[h] = "enter"
    /\ entry' = [entry EXCEPT ![held[h].by] = held[h].points]
    /\ Answer(h)
    /\ UNCHANGED <<task, sheet, remembered, hour, judged, written, rewritten>>

-----------------------------------------------------------------------------
\* ALLOWED_TRANSITIONS of update; publish and close go there from anywhere.
Reachable(status) == IF status = "CLOSED" THEN {"CLOSED", "PUBLISHED"}
                     ELSE {"DRAFT", "PUBLISHED", "CLOSED"}

\* A field and its new value: a request that changes several is several here.
Changes == {[field |-> "status", value |-> s] : s \in Reachable(task.status)}
           \cup {[field |-> "due", value |-> t] : t \in Hours}
           \cup {[field |-> "allowLate", value |-> b] : b \in BOOLEAN}

TaskRead(h) == /\ MayStart(h)
               /\ \E c \in Changes : Goto(h, "change", c)
               /\ UNCHANGED submissionRows

TaskWrite(h) ==
    /\ at[h] = "change"
    /\ task' = [task EXCEPT ![held[h].field] = held[h].value]
    /\ Answer(h)
    /\ UNCHANGED <<sheet, entry, remembered, hour, judged, written, rewritten>>

HourPasses == /\ hour < LastHour
              /\ hour' = hour + 1
              /\ UNCHANGED <<requestVars, task, sheet, entry, remembered, judged, written,
                             rewritten>>

\* A query fails; remembering a key is none.
SubmissionFails(h) == /\ at[h] \notin {"free", "remember"}
                      /\ Answer(h)
                      /\ UNCHANGED submissionRows

\* The process restarts: its requests and its memory of keys are gone.
ServerRestarts ==
    /\ at' = [h \in Handlers |-> "free"]
    /\ held' = [h \in Handlers |-> None]
    /\ remembered' = {}
    /\ written' = {}
    /\ rewritten' = {}
    /\ UNCHANGED <<alone, task, sheet, entry, hour, judged>>

SubmissionStep(h) ==
    \/ \E s \in Learners : ReadTask(h, s) \/ WithdrawRead(h, s) \/ GradeSheetRead(h, s)
    \/ LookForSheet(h) \/ CreateSheet(h) \/ ReplaceSheet(h) \/ Remember(h)
    \/ Withdraw(h) \/ GradeSheet(h) \/ EnterGrade(h) \/ TaskRead(h) \/ TaskWrite(h)

SubmissionNext == \/ \E h \in Handlers : SubmissionStep(h) \/ SubmissionFails(h)
                  \/ HourPasses \/ ServerRestarts

SubmissionSpec == SubmissionInit /\ [][SubmissionNext]_submissionVars

-----------------------------------------------------------------------------
\* Properties.

SubmissionTypeOK == /\ task \in Tasks
                    /\ sheet \in [Learners -> Sheets \cup {None}]
                    /\ entry \in [Learners -> Points \cup {None}]
                    /\ remembered \subseteq Learners \X Works
                    /\ hour \in Hours
                    /\ judged \in [Learners -> Works \cup {None}]
                    /\ written \subseteq Learners \X Works
                    /\ rewritten \subseteq written

\* A recorded grade is of work that is marked graded, however requests overlap;
\* and while they do not, graded work stays as it was when it was graded:
\* neither a replacement nor a withdrawal touches it.
GradedWorkStands ==
    \A s \in Learners :
        /\ entry[s] # None => sheet[s] # None /\ sheet[s].graded
        /\ alone /\ sheet[s] # None /\ sheet[s].graded =>
              sheet[s].status = "GRADED" /\ sheet[s].work = judged[s]

\* While requests do not overlap, and until the process restarts, a submit that
\* is repeated under its key writes nothing, whatever has been handed in,
\* withdrawn or graded since.
SubmittedOnce == alone => rewritten = {}
=============================================================================
