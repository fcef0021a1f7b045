-------------------------------- MODULE Quiz --------------------------------
(***************************************************************************)
(* Quiz attempts (quiz/quiz-attempt.service.ts): started without limit,    *)
(* saved answer by answer into one JSON column, finished by the student or *)
(* by the sweep that runs every minute.  Every handler is a transaction    *)
(* that reads the attempt, decides in memory and writes the row by id; the *)
(* finishing ones write the grade with it.                                 *)
(***************************************************************************)
EXTENDS Integers, FiniteSets, Requests

CONSTANTS MaxSittings,   \* bound: attempts at the quiz
          Questions,     \* its questions
          Correct,       \* Correct[q] - the answer that counts
          Replies,       \* what a student may answer
          Page           \* attempts the sweep reads at a time

ASSUME QuizAssumption == /\ MaxSittings \in Nat
                         /\ Page \in Nat \ {0}
                         /\ IsFiniteSet(Questions)

VARIABLES attempts,   \* attempts[i] - the QuizAttempt row, or None
          grades,     \* grades[i] - the score in the Grade row of attempt i, or None
          acked,      \* acked[i] - the answers the server has acknowledged
          overdue     \* the attempts whose time is over

quizRows == <<attempts, grades, acked, overdue>>
quizVars == <<requestVars, quizRows>>

Sittings == 1..MaxSittings

\* readAnswerMap: the questions answered so far, with the answer.
AnswerMaps == UNION {[Q -> Replies] : Q \in SUBSET Questions}

NoAnswers == [q \in {} |-> None]

Scores == 0..100

\* Math.round((correct / total) * 100)
ScoreOf(answers) ==
    LET correct == Cardinality({q \in DOMAIN answers : answers[q] = Correct[q]})
        total == Cardinality(Questions)
    IN  IF total = 0 THEN 0 ELSE (200 * correct + total) \div (2 * total)

AttemptRows == [status : {"IN_PROGRESS", "SUBMITTED", "AUTO_SUBMITTED"},
                answers : AnswerMaps, score : Scores \cup {None}]

ASSUME QuizRowAssumption == None \notin AttemptRows \cup Scores

QuizInit == /\ RequestsInit
            /\ attempts = [i \in Sittings |-> None]
            /\ grades = [i \in Sittings |-> None]
            /\ acked = [i \in Sittings |-> NoAnswers]
            /\ overdue = {}

Open == {i \in Sittings : attempts[i] # None /\ attempts[i].status = "IN_PROGRESS"}

\* What a handler holds: the attempts it read, what it answers or finishes
\* them with, and where the sweep's page began.
Reading(rows, with, cursor) == [rows |-> rows, with |-> with, cursor |-> cursor]

Rows(I) == [i \in I |-> attempts[i]]

-----------------------------------------------------------------------------
\* start: nothing keeps a student from starting again.
StartQuiz(i) == /\ attempts[i] = None
                /\ attempts' = [attempts EXCEPT ![i] =
                      [status |-> "IN_PROGRESS", answers |-> NoAnswers, score |-> None]]
                /\ UNCHANGED <<requestVars, grades, acked, overdue>>

\* Mutant: an attempt that is finished still takes answers.
SaveableAny(i) == attempts[i] # None /\ i \notin overdue

\* Late, the handler finishes the attempt and throws: its transaction is rolled
\* back and nothing changes.
Saveable(i) == i \in Open /\ i \notin overdue

\* saveAnswer reads the map ...
SaveRead(h, i) == /\ MayStart(h)
                  /\ Saveable(i)
                  /\ \E q \in Questions, r \in Replies :
                        Goto(h, "save", Reading(Rows({i}), [q |-> q, reply |-> r], 0))
                  /\ UNCHANGED quizRows

\* ... and writes it back with one answer changed.
SaveWrite(h) ==
    /\ at[h] = "save"
    /\ LET i == CHOOSE j \in DOMAIN held[h].rows : TRUE
           q == held[h].with.q
           Put(map) == [p \in DOMAIN map \cup {q} |->
                            IF p = q THEN held[h].with.reply ELSE map[p]]
       IN  /\ attempts' = [attempts EXCEPT ![i].answers = Put(held[h].rows[i].answers)]
           /\ acked' = [acked EXCEPT ![i] = Put(@)]
    /\ Answer(h)
    /\ UNCHANGED <<grades, overdue>>

\* Mutant: the grade is created once and never corrected.
GradeCreateOnly(I, rows) ==
    grades' = [i \in Sittings |-> IF i \in I /\ grades[i] = None
                                  THEN ScoreOf(rows[i].answers) ELSE grades[i]]

\* grade.upsert, keyed by the attempt.
GradeUpsert(I, rows) ==
    grades' = [i \in Sittings |-> IF i \in I THEN ScoreOf(rows[i].answers) ELSE grades[i]]

\* finalizeWithinTx: the answers as they were read decide; the status is not
\* looked at again.
Finalize(I, rows, status) ==
    /\ attempts' = [i \in Sittings |->
           IF i \in I THEN [attempts[i] EXCEPT !.status = status,
                                               !.score = ScoreOf(rows[i].answers)]
                      ELSE attempts[i]]
    /\ GradeUpsert(I, rows)
    /\ UNCHANGED <<acked, overdue>>

SubmitRead(h, i) ==
    /\ MayStart(h)
    /\ i \in Open
    /\ Goto(h, "submit", Reading(Rows({i}),
            IF i \in overdue THEN "AUTO_SUBMITTED" ELSE "SUBMITTED", 0))
    /\ UNCHANGED quizRows

SubmitWrite(h) == /\ at[h] = "submit"
                  /\ Finalize(DOMAIN held[h].rows, held[h].rows, held[h].with)
                  /\ Answer(h)

-----------------------------------------------------------------------------
\* autoSubmitExpired: every minute, or when an administrator asks for it.

\* findMany: by id, from the cursor, a page of the attempts in progress.
PageFrom(cursor) ==
    LET Before(i) == Cardinality({j \in Open : j < i})
    IN  {i \in Open : Before(i) >= cursor /\ Before(i) < cursor + Page}

SweepStarts(h) == /\ MayStart(h)
                  /\ Goto(h, "sweep", Reading(Rows({}), "AUTO_SUBMITTED", 0))
                  /\ UNCHANGED quizRows

Expired(page) == page \cap overdue

SweepPage(h) ==
    LET page == PageFrom(held[h].cursor)
        cursor == held[h].cursor + Cardinality(page)
        expired == Expired(page)
    IN  /\ at[h] = "sweep"
        /\ IF expired # {}
           THEN Goto(h, "finish-page", Reading(Rows(expired), held[h].with, cursor))
           ELSE IF Cardinality(page) = Page
                THEN Goto(h, "sweep", Reading(Rows({}), held[h].with, cursor))
                ELSE Answer(h)
        /\ UNCHANGED quizRows

\* One transaction for the page, then the next one: the cursor counts rows that
\* are no longer in progress, so the sweep may pass over some.
FinishPage(h) ==
    /\ at[h] = "finish-page"
    /\ Finalize(DOMAIN held[h].rows, held[h].rows, held[h].with)
    /\ IF held[h].cursor % Page = 0
       THEN Goto(h, "sweep", Reading(Rows({}), held[h].with, held[h].cursor))
       ELSE Answer(h)

-----------------------------------------------------------------------------
TimeUp(i) == /\ i \in Open \ overdue
             /\ overdue' = overdue \cup {i}
             /\ UNCHANGED <<requestVars, attempts, grades, acked>>

\* A query fails: the transaction is rolled back.
QuizFails(h) == /\ at[h] # "free"
                /\ Answer(h)
                /\ UNCHANGED quizRows

QuizStep(h) == \/ \E i \in Sittings : SaveRead(h, i) \/ SubmitRead(h, i)
               \/ SaveWrite(h) \/ SubmitWrite(h)
               \/ SweepStarts(h) \/ SweepPage(h) \/ FinishPage(h)

QuizNext == \/ \E i \in Sittings : StartQuiz(i) \/ TimeUp(i)
            \/ \E h \in Handlers : QuizStep(h) \/ QuizFails(h)

QuizSpec == QuizInit /\ [][QuizNext]_quizVars

-----------------------------------------------------------------------------
\* Properties.

QuizTypeOK == /\ attempts \in [Sittings -> AttemptRows \cup {None}]
              /\ grades \in [Sittings -> Scores \cup {None}]
              /\ acked \in [Sittings -> AnswerMaps]
              /\ overdue \subseteq Sittings

\* However submissions, late answers and sweeps overlap: an attempt has a grade
\* exactly when it is finished, and the grade is the score the attempt shows.
GradeIsScore ==
    \A i \in Sittings :
        /\ grades[i] # None <=> attempts[i] # None /\ i \notin Open
        /\ grades[i] # None => grades[i] = attempts[i].score

\* While requests do not overlap: every answer the server acknowledged is in
\* the attempt, and a finished attempt was graded on exactly those.
AcknowledgedAnswersCount == alone =>
    \A i \in Sittings : attempts[i] # None =>
        /\ attempts[i].answers = acked[i]
        /\ i \notin Open => attempts[i].score = ScoreOf(acked[i])
=============================================================================
