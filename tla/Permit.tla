------------------------------- MODULE Permit -------------------------------
(***************************************************************************)
(* The attendance of a day and the permits kept in it                      *)
(* (attendance.service.ts: recordManual, requestPermit, verifyPermit).     *)
(* A permit has no table of its own: it is the note of an attendance row,  *)
(* whose status it sets.  The unique key covers the rows of a lesson but   *)
(* not the daily ones, whose class_subject_id is NULL.                     *)
(***************************************************************************)
EXTENDS Naturals, FiniteSets, Requests

CONSTANTS Days,         \* a student on a day, attendance of the whole day
          Lessons,      \* a student in a lesson
          MaxMarks      \* bound: attendance rows

ASSUME PermitAssumption == Days \cap Lessons = {} /\ MaxMarks \in Nat

VARIABLES marks         \* marks[r] - the Attendance row with id r, or None

permitVars == <<requestVars, marks>>

MarkIds == 1..MaxMarks

Entries == Days \cup Lessons

Kinds == {"IZIN", "SAKIT"}

\* A note that is not a permit is None; a permit has a kind and a state.
Notes == [kind : Kinds, state : {"PENDING", "APPROVED", "REJECTED"}] \cup {None}

Marks == [of : Entries, status : Kinds \cup {"HADIR", "ALPA"}, note : Notes]

ASSUME PermitRowAssumption ==
    /\ None \notin Marks
    /\ None \notin [kind : Kinds, state : {"PENDING", "APPROVED", "REJECTED"}]

PermitInit == RequestsInit /\ marks = [r \in MarkIds |-> None]

Stored == {r \in MarkIds : marks[r] # None}

RowsOf(e) == {r \in Stored : marks[r].of = e}

Pending(mark) == mark.note # None /\ mark.note.state = "PENDING"

\* What a handler holds: the row it found, or None, and the row as it will be.
Marking(id, row) == [id |-> id, row |-> row]

\* A row is added under an id of its own.
Inserted(row) == [marks EXCEPT ![CHOOSE r \in MarkIds : r \notin Stored] = row]

Updated(id, row) == [marks EXCEPT ![id].status = row.status, ![id].note = row.note]

RoomLeft == Cardinality(Stored) < MaxMarks

-----------------------------------------------------------------------------
\* Mutant: the lesson's row is looked for and then inserted, like the day's.
UpsertInserts(row) == Inserted(row)

\* upsert on the unique key, one statement.
Upsert(row) == IF RowsOf(row.of) = {} THEN Inserted(row)
               ELSE Updated(CHOOSE r \in RowsOf(row.of) : TRUE, row)

\* recordManual for a lesson.
RecordLesson(h, e, status) ==
    /\ MayStart(h) /\ RoomLeft
    /\ e \in Lessons
    /\ marks' = Upsert([of |-> e, status |-> status, note |-> None])
    /\ UNCHANGED requestVars

\* recordManual for a day, and requestPermit, look for a row first; which one
\* they find, if there are several, the database decides.  Some they refuse.
Find(h, row, refused) ==
    /\ MayStart(h)
    /\ \/ RowsOf(row.of) = {} /\ Goto(h, "create", Marking(None, row))
       \/ \E r \in RowsOf(row.of) \ refused : Goto(h, "update", Marking(r, row))
    /\ UNCHANGED marks

RecordDay(h, e, status) ==
    Find(h, [of |-> e, status |-> status, note |-> None], {}) /\ e \in Days

\* A permit that is pending is not replaced by another.
RequestPermit(h, e, kind) ==
    Find(h, [of |-> e, status |-> kind, note |-> [kind |-> kind, state |-> "PENDING"]],
         {r \in Stored : Pending(marks[r])})

\* The insertion; for a lesson the unique key may refuse it.
CreateMark(h) ==
    /\ at[h] = "create" /\ RoomLeft
    /\ marks' = IF held[h].row.of \in Lessons /\ RowsOf(held[h].row.of) # {}
                THEN marks ELSE Inserted(held[h].row)
    /\ Answer(h)

UpdateMark(h) == /\ at[h] = "update"
                 /\ marks' = Updated(held[h].id, held[h].row)
                 /\ Answer(h)

\* Mutant: a refused permit leaves the status the student asked for.
DecidedKeepsStatus(mark, approved) ==
    [mark EXCEPT !.note.state = IF approved THEN "APPROVED" ELSE "REJECTED"]

\* verifyPermit: approved, the status is the kind asked for; refused, ALPA.
Decided(mark, approved) ==
    [mark EXCEPT !.note.state = IF approved THEN "APPROVED" ELSE "REJECTED",
                 !.status = IF approved THEN mark.note.kind ELSE "ALPA"]

VerifyPermit(h, r, approved) ==
    /\ MayStart(h)
    /\ r \in Stored /\ Pending(marks[r])
    /\ Goto(h, "update", Marking(r, Decided(marks[r], approved)))
    /\ UNCHANGED marks

\* A query fails, or the process dies.
PermitFails(h) == at[h] # "free" /\ Answer(h) /\ UNCHANGED marks

PermitStep(h) ==
    \/ \E e \in Entries, s \in {"HADIR", "ALPA"} : RecordLesson(h, e, s) \/ RecordDay(h, e, s)
    \/ \E e \in Entries, k \in Kinds : RequestPermit(h, e, k)
    \/ \E r \in MarkIds, approved \in BOOLEAN : VerifyPermit(h, r, approved)
    \/ CreateMark(h) \/ UpdateMark(h)

PermitNext == \E h \in Handlers : PermitStep(h) \/ PermitFails(h)

PermitSpec == PermitInit /\ [][PermitNext]_permitVars

-----------------------------------------------------------------------------
\* Properties.

PermitTypeOK == marks \in [MarkIds -> Marks \cup {None}]

\* However teachers, students and verifiers overlap: a row whose note is a
\* permit has the status that permit gives it.
StatusFollowsPermit ==
    \A r \in Stored : marks[r].note # None =>
        marks[r].status = IF marks[r].note.state = "REJECTED"
                          THEN "ALPA" ELSE marks[r].note.kind

\* A student has one row for a lesson, whatever overlaps, and one for the day
\* while requests do not overlap.
OneRowEach ==
    \A e \in Entries : (alone \/ e \in Lessons) =>
        \A r, s \in RowsOf(e) : r = s
=============================================================================
