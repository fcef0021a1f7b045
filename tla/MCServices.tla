----------------------------- MODULE MCServices -----------------------------
(***************************************************************************)
(* The services that share no rows, side by side: scope picks the one whose*)
(* requests come, so that each is explored in full and the states add up   *)
(* instead of multiplying.                                                 *)
(***************************************************************************)
EXTENDS Payroll, Refund, Quiz, CheckIn, Permit, Import, Session, Timetable, TLC

VARIABLE scope

Services == {"payroll", "refund", "quiz", "checkin", "permit", "import", "session",
             "timetable"}

vars == <<scope, requestVars, payrollRows, refundRows, quizRows, checkInRows, marks,
          importRows, sessionRows, timetableRows>>

\* Whatever holds while requests overlap holds when they do not: where no
\* property speaks of alone, FALSE is the case to explore.
Init == /\ PayrollInit /\ RefundInit /\ QuizInit /\ CheckInInit /\ PermitInit
        /\ ImportInit /\ SessionInit /\ TimetableInit
        /\ scope \in Services
        /\ scope \in {"checkin", "import"} => ~alone

Next == /\ UNCHANGED scope
        /\ \/ /\ scope = "payroll" /\ PayrollNext
              /\ UNCHANGED <<refundRows, quizRows, checkInRows, marks,
                             importRows, sessionRows, timetableRows>>
           \/ /\ scope = "refund" /\ RefundNext
              /\ UNCHANGED <<payrollRows, quizRows, checkInRows, marks,
                             importRows, sessionRows, timetableRows>>
           \/ /\ scope = "quiz" /\ QuizNext
              /\ UNCHANGED <<payrollRows, refundRows, checkInRows, marks,
                             importRows, sessionRows, timetableRows>>
           \/ /\ scope = "checkin" /\ CheckInNext
              /\ UNCHANGED <<payrollRows, refundRows, quizRows, marks,
                             importRows, sessionRows, timetableRows>>
           \/ /\ scope = "permit" /\ PermitNext
              /\ UNCHANGED <<payrollRows, refundRows, quizRows, checkInRows,
                             importRows, sessionRows, timetableRows>>
           \/ /\ scope = "import" /\ ImportNext
              /\ UNCHANGED <<payrollRows, refundRows, quizRows, checkInRows,
                             marks, sessionRows, timetableRows>>
           \/ /\ scope = "session" /\ SessionNext
              /\ UNCHANGED <<payrollRows, refundRows, quizRows, checkInRows,
                             marks, importRows, timetableRows>>
           \/ /\ scope = "timetable" /\ TimetableNext
              /\ UNCHANGED <<payrollRows, refundRows, quizRows, checkInRows,
                             marks, importRows, sessionRows>>

Spec == Init /\ [][Next]_vars

\* The quiz: one reply is right, whatever the question.
MCCorrect == [q \in Questions |-> "right"]

\* Both codes are shown for one session.
MCSessionOf == [c \in Codes |-> "first"]

\* One request at a time: two classes, either teacher, one room or none, lessons that
\* touch, and entries the LMS files under another year.  Overlapping requests: either
\* teacher, and lessons of two classes that touch and want one room.
MCAsked == [one \in BOOLEAN |->
    {e \in ScheduleEntries :
        IF one THEN /\ <<e.from, e.to>> \in {<<1, 2>>, <<2, 3>>}
                    /\ e.year = "y2" => e.group = "X1" /\ e.room # None
        ELSE /\ e.year = "y1" /\ e.room # None
             /\ <<e.group, e.from, e.to>> \in {<<"X1", 1, 2>>, <<"X2", 2, 3>>}}]

\* The classes are of the first year.
MCYearOf == [g \in Groups |-> "y1"]

\* One handler is as good as another, and so is one teacher.
MCSymmetry == Permutations(Handlers) \cup Permutations(Teachers)
=============================================================================
