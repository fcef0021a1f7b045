----------------------------- MODULE Timetable -----------------------------
(***************************************************************************)
(* The timetable of one day, ScheduleEntry, which two services write: the  *)
(* one of the academic module (academic/schedule.service.ts) and the one   *)
(* of the LMS (lms/classes/schedules.service.ts).  Each has its own idea   *)
(* of what clashes, and each looks first and writes in a later statement.  *)
(***************************************************************************)
EXTENDS Naturals, Requests

CONSTANTS Groups,       \* classes
          Years,        \* codes of academic years
          YearOf,       \* YearOf[g] - the academic year of class g
          Teachers, Places,
          LastPeriod,   \* periods of a day
          MaxEntries,   \* bound: entries at a time
          Asked         \* bound: Asked[alone] - the rows that requests ask for

ASSUME TimetableAssumption == /\ YearOf \in [Groups -> Years]
                              /\ LastPeriod \in Nat /\ MaxEntries \in Nat

VARIABLES timetable,   \* timetable[i] - the ScheduleEntry row i, or None
          compared,    \* history: compared[i] - the service that wrote entry i last, and the
                       \* entries that are as they were when that request came
          missed       \* history: missed[h] - entries written since the request h came

timetableRows == <<timetable, compared, missed>>
timetableVars == <<requestVars, timetableRows>>

EntryIds == 1..MaxEntries
Periods == 1..LastPeriod

\* Subjects do not matter: nothing compares them.
ScheduleEntries == [group : Groups, teacher : Teachers, room : Places \cup {None},
            from : Periods, to : Periods, year : Years]

ASSUME TimetableRowAssumption == None \notin ScheduleEntries
ASSUME AskedAssumption == Asked \in [BOOLEAN -> SUBSET ScheduleEntries]

ScheduleServices == {"academic", "lms"}

TimetableInit == /\ RequestsInit
                 /\ timetable = [i \in EntryIds |-> None]
                 /\ compared = [i \in EntryIds |-> [by |-> "lms", of |-> {}]]
                 /\ missed = [h \in Handlers |-> {}]

-----------------------------------------------------------------------------
\* Mutant: entries that begin together are not compared.
hasOverlapAfter(a, b) == a.from < b.from /\ b.from <= a.to

\* hasOverlap: the last period belongs to the entry.
hasOverlap(a, b) == a.from <= b.to /\ b.from <= a.to

\* periodsOverlap: here it does not.
periodsOverlap(a, b) == a.from < b.to /\ b.from < a.to

\* The rows a query of the service finds, the one to be changed left out.
Others(id) == {timetable[i] : i \in {j \in EntryIds : timetable[j] # None /\ j # id}}

\* A request: the service, the row it will write (id 0 is a new one), the columns it
\* gives and the year in which it looks.
Order(by, id, row, sets, year) ==
    [by |-> by, id |-> id, row |-> row, sets |-> sets, year |-> year]

\* An id no row and no request has ever had.
Unused(i) == /\ timetable[i] = None
             /\ \A g \in Handlers : at[g] # "free" => held[g].id # i

Columns == {"group", "teacher", "room", "from", "to", "year"}

\* The request ends and leaves the rows alone.
Stops(h) == /\ Answer(h)
            /\ missed' = [missed EXCEPT ![h] = {}]
            /\ UNCHANGED <<timetable, compared>>

\* Row i becomes this one, or None; the other requests at work may not know.
Writes(h, i, row) ==
    /\ timetable' = [timetable EXCEPT ![i] = row]
    /\ compared' = [j \in EntryIds |->
           IF j # i THEN [compared[j] EXCEPT !.of = @ \ {i}]
           ELSE IF row = None \/ i \in missed[h] THEN [by |-> "lms", of |-> {}]
           ELSE [by |-> held[h].by, of |-> EntryIds \ (missed[h] \cup {i})]]
    /\ missed' = [g \in Handlers |-> IF g = h \/ at[g] = "free" THEN {}
                                      ELSE missed[g] \cup {i}]
    /\ Answer(h)

-----------------------------------------------------------------------------
\* academic: create files the entry under the year of its class ...
AcademicCreate(h) ==
    /\ MayStart(h)
    /\ \E i \in EntryIds : timetable[i] = None
    /\ \E row \in Asked[alone] :
          /\ row.from <= row.to /\ row.year = YearOf[row.group]
          /\ Goto(h, "teacher", Order("academic", 0, row, Columns, row.year))
    /\ UNCHANGED timetableRows

\* ... and update leaves class and year alone, and looks in the year of the class.
AcademicUpdate(h, i) ==
    /\ MayStart(h)
    /\ timetable[i] # None
    /\ \E row \in Asked[alone] :
          /\ row.from <= row.to
          /\ row.group = timetable[i].group /\ row.year = timetable[i].year
          /\ Goto(h, "teacher", Order("academic", i, row, Columns \ {"group", "year"},
                                      YearOf[row.group]))
    /\ UNCHANGED timetableRows

\* assertNoConflict asks for the teacher first ...
AskTeacher(h) ==
    LET o == held[h] IN
    /\ at[h] = "teacher"
    /\ IF \E e \in Others(o.id) : /\ e.teacher = o.row.teacher /\ e.year = o.year
                                  /\ hasOverlap(o.row, e)
       THEN Stops(h)
       ELSE /\ Goto(h, IF o.row.room = None THEN "write" ELSE "room", o)
            /\ UNCHANGED timetableRows

\* ... then for the room, if there is one.
AskRoom(h) ==
    LET o == held[h] IN
    /\ at[h] = "room"
    /\ IF \E e \in Others(o.id) : /\ e.room = o.row.room /\ e.year = o.year
                                  /\ hasOverlap(o.row, e)
       THEN Stops(h)
       ELSE Goto(h, "write", o) /\ UNCHANGED timetableRows

-----------------------------------------------------------------------------
\* LMS: any year may be given with the entry, and any column may be changed.
LmsCreate(h) ==
    /\ MayStart(h)
    /\ \E i \in EntryIds : timetable[i] = None
    /\ \E row \in Asked[alone] :
          /\ row.from < row.to
          /\ Goto(h, "day", Order("lms", 0, row, Columns, row.year))
    /\ UNCHANGED timetableRows

LmsUpdate(h, i) ==
    /\ MayStart(h)
    /\ timetable[i] # None
    /\ \E row \in Asked[alone] :
          /\ row.from < row.to
          /\ Goto(h, "day", Order("lms", i, row, {c \in Columns : row[c] # timetable[i][c]},
                                  row.year))
    /\ UNCHANGED timetableRows

\* findConflicts over the whole day, whatever the year.
AskDay(h) ==
    LET o == held[h] IN
    /\ at[h] = "day"
    /\ IF \E e \in Others(o.id) :
             /\ periodsOverlap(e, o.row)
             /\ \/ e.teacher = o.row.teacher
                \/ o.row.room # None /\ e.room = o.row.room
                \/ e.group = o.row.group
       THEN Stops(h)
       ELSE Goto(h, "write", o) /\ UNCHANGED timetableRows

-----------------------------------------------------------------------------
\* The insert ...
InsertEntry(h) == /\ at[h] = "write" /\ held[h].id = 0
                  /\ \E i \in EntryIds : Unused(i) /\ Writes(h, i, held[h].row)

\* ... or the update of the columns given.  (If the entry is gone by then, the request
\* fails.)
UpdateEntry(h) ==
    LET o == held[h] IN
    /\ at[h] = "write"
    /\ \E i \in EntryIds :
          /\ i = o.id /\ timetable[i] # None
          /\ Writes(h, i, [c \in Columns |-> IF c \in o.sets THEN o.row[c]
                                             ELSE timetable[i][c]])

RemoveRead(h, i) == /\ MayStart(h)
                    /\ timetable[i] # None
                    /\ Goto(h, "remove", [id |-> i])
                    /\ UNCHANGED timetableRows

Remove(h) == /\ at[h] = "remove"
             /\ timetable[held[h].id] # None
             /\ Writes(h, held[h].id, None)

TimetableFails(h) == at[h] # "free" /\ Stops(h)

TimetableStep(h) ==
    \/ AcademicCreate(h) \/ LmsCreate(h)
    \/ AskTeacher(h) \/ AskRoom(h) \/ AskDay(h)
    \/ InsertEntry(h) \/ UpdateEntry(h)
    \/ \E i \in EntryIds : AcademicUpdate(h, i) \/ LmsUpdate(h, i) \/ RemoveRead(h, i)
    \/ Remove(h)

TimetableNext == \E h \in Handlers : TimetableStep(h) \/ TimetableFails(h)

TimetableSpec == TimetableInit /\ [][TimetableNext]_timetableVars

-----------------------------------------------------------------------------
\* Properties.

TimetableTypeOK == /\ timetable \in [EntryIds -> ScheduleEntries \cup {None}]
                   /\ compared \in [EntryIds -> [by : ScheduleServices, of : SUBSET EntryIds]]
                   /\ missed \in [Handlers -> SUBSET EntryIds]

\* The entries have a period in common, the last one of each included.
SharePeriod(e, f) == (e.from .. e.to) \cap (f.from .. f.to) # {}

\* Neither the teacher nor the room is the same.
Apart(e, f) == e.teacher # f.teacher /\ (e.room = None \/ e.room # f.room)

\* What a service promises of an entry it writes and another entry: the academic one
\* looks at the entries of the year of the class and counts the last period; the LMS looks
\* at all years and at the class too, and for it an entry may begin in the period in which
\* another one ends.
Fits(service, e, f) ==
    /\ service = "academic" => (f.year = YearOf[e.group] /\ SharePeriod(e, f) => Apart(e, f))
    /\ service = "lms" => (periodsOverlap(e, f) => Apart(e, f) /\ e.group # f.group)

\* After any sequence of requests to both services, of two entries the one written later
\* keeps the rule of the service that wrote it, unless the two were written by requests
\* that overlapped; and while requests do not overlap, no pair is exempt.
TimetableClear ==
    \A i \in EntryIds, j \in EntryIds : i # j /\ timetable[i] # None /\ timetable[j] # None =>
        /\ j \in compared[i].of => Fits(compared[i].by, timetable[i], timetable[j])
        /\ alone => j \in compared[i].of \/ i \in compared[j].of
=============================================================================
