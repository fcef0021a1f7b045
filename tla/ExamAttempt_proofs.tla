------------------------- MODULE ExamAttempt_proofs -------------------------
(***************************************************************************)
(* Proofs about ExamAttempt, for every number of students, attempts,       *)
(* concurrent requests and sweeps, every batch size and every duration,    *)
(* and that the sweeps AutoSubmit starts are among those.                  *)
(***************************************************************************)
EXTENDS AutoSubmit, FiniteSetTheorems, TLAPS

(***************************************************************************)
(* What a handler may still believe about the row it read before its       *)
(* commit: not its status, which another handler may have overwritten, but *)
(* that the row is there and whose it is; and that a row that was ended    *)
(* has not been reopened.                                                  *)
(***************************************************************************)
RequestsKnow ==
    \A r \in Requests :
        /\ req[r].op \in {"save", "submit", "expire", "grade", "activity"} =>
             Exists(req[r].attempt)
        /\ req[r].op \in {"submit", "grade"} =>
             req[r].snap.student = attempt[req[r].attempt].student
        /\ req[r].op = "grade" => Ended(req[r].attempt)

SweepsKnow ==
    \A w \in Sweepers :
        /\ \A a \in DOMAIN sweep[w].snap :
            /\ Exists(a)
            /\ sweep[w].snap[a].student = attempt[a].student
            /\ sweep[w].pc = "emit" => Ended(a)
        /\ sweep[w].pc \in {"commit", "emit"} => DOMAIN sweep[w].auto = DOMAIN sweep[w].snap

IInv ==
    /\ TypeOK
    /\ RequestsKnow
    /\ SweepsKnow
    /\ UniqueSeats
    /\ AutosaveOnce
    /\ GradeIffFinished
    /\ PushedOnlyFinished

-----------------------------------------------------------------------------
(* Rows *)

\* The status of a row says whether the row is there.
LEMMA RowStatus ==
  ASSUME TypeOK, NEW a \in AttemptIds
  PROVE  /\ Exists(a) => attempt[a] \in Row
         /\ Open(a) => Exists(a)
         /\ Ended(a) => Exists(a)
         /\ Exists(a) => (Ended(a) <=> ~Open(a))
  <1>1. attempt[a] \in Row \cup {NoRow}
    BY DEF TypeOK
  <1>2. QED
    BY <1>1 DEF Exists, Open, Ended, Row, NoRow, Status

\* A request in flight has the fields of its operation.
LEMMA RequestFields ==
  ASSUME TypeOK, NEW r \in Requests
  PROVE  /\ req[r].op \in {"save", "submit", "expire", "grade", "activity"} =>
              req[r].attempt \in AttemptIds
         /\ req[r].op \in {"submit", "grade", "activity"} => req[r].snap \in Row
         /\ req[r].op = "start" =>
              /\ req[r].student \in Students /\ req[r].token \in Tokens
              /\ req[r].at \in Time
         /\ req[r].op = "save" =>
              /\ req[r].key \in Keys /\ req[r].sheet \in Sheets /\ req[r].at \in Time
         /\ req[r].op = "submit" =>
              req[r].target \in {"SUBMITTED", "AUTO_SUBMITTED"} /\ req[r].auto \in Score \cup {None}
         /\ req[r].op = "grade" => req[r].mark \in Marks
         /\ req[r].op = "activity" => req[r].event \in Events
         /\ req[r].op = "status" => req[r].target \in ExamStatus
  <1>1. req[r] \in Request
    BY DEF TypeOK
  <1>2. QED
    BY <1>1 DEF Request, Idle

-----------------------------------------------------------------------------
(* Types *)

LEMMA ReqType ==
  ASSUME TypeOK, [Next]_vars
  PROVE  req' \in [Requests -> Request]
  <1>0. /\ req \in [Requests -> Request] /\ Idle \in Request /\ now \in Time
        /\ session.token \in Tokens \cup {None}
    BY DEF TypeOK, Request
  <1>1. ASSUME NEW r \in Requests, NEW op, NEW rec \in Request, Begin(r, op, rec)
        PROVE  req' \in [Requests -> Request]
    BY <1>0, <1>1 DEF Begin
  <1>2. ASSUME NEW r \in Requests, Finish(r) PROVE req' \in [Requests -> Request]
    BY <1>0, <1>2 DEF Finish
  <1>3. ASSUME NEW r \in Requests, NEW target \in DOMAIN SetStatusFrom, SetStatusRead(r, target)
        PROVE  req' \in [Requests -> Request]
    <2>1. [op |-> "status", target |-> target] \in Request
      BY DEF SetStatusFrom, Request, ExamStatus
    <2>2. QED
      BY <1>1, <1>3, <2>1 DEF SetStatusRead
  <1>4. ASSUME NEW r \in Requests, NEW s \in Students, NEW t \in Tokens, StartRead(r, s, t)
        PROVE  req' \in [Requests -> Request]
    <2>1. [op |-> "start", checked |-> FALSE, student |-> s, token |-> t, at |-> now] \in Request
      BY <1>0 DEF Request
    <2>2. QED
      BY <1>1, <1>4, <2>1 DEF StartRead
  <1>5. ASSUME NEW r \in Requests, StartCheck(r) PROVE req' \in [Requests -> Request]
    <2>1. [req[r] EXCEPT !.checked = TRUE] \in Request
      BY <1>0, <1>5 DEF StartCheck, Request, Idle
    <2>2. QED
      BY <1>0, <1>2, <1>5, <2>1 DEF StartCheck
  <1>6. ASSUME NEW r \in Requests, NEW a \in AttemptIds, NEW k \in Keys, NEW sheet \in Sheets,
               SaveRead(r, a, k, sheet)
        PROVE  req' \in [Requests -> Request]
    <2>1. [op |-> "save", attempt |-> a, key |-> k, sheet |-> sheet, at |-> now] \in Request
      BY <1>0 DEF Request
    <2>2. QED
      BY <1>1, <1>6, <2>1 DEF SaveRead
  <1>7. ASSUME NEW r \in Requests, NEW a \in AttemptIds, SubmitRead(r, a)
        PROVE  req' \in [Requests -> Request]
    <2>1. attempt[a] \in Row
      BY <1>7, RowStatus DEF SubmitRead
    <2>2. [op |-> "submit", attempt |-> a, snap |-> attempt[a], auto |-> None,
           target |-> IF Overdue(attempt[a], now) THEN "AUTO_SUBMITTED" ELSE "SUBMITTED"]
             \in Request
      BY <2>1 DEF Request
    <2>3. QED
      BY <1>1, <1>7, <2>2 DEF SubmitRead
  <1>8. ASSUME NEW r \in Requests, SubmitScore(r) PROVE req' \in [Requests -> Request]
    <2>1. PICK f \in Score : req' = [req EXCEPT ![r].auto = f]
      BY <1>8 DEF SubmitScore, LatestAnswers
    <2>2. [req[r] EXCEPT !.auto = f] \in Request
      BY <1>0, <1>8 DEF SubmitScore, Request, Idle
    <2>3. QED
      BY <1>0, <2>1, <2>2
  <1>9. ASSUME NEW r \in Requests, NEW a \in AttemptIds, ExpireRead(r, a)
        PROVE  req' \in [Requests -> Request]
    <2>1. [op |-> "expire", attempt |-> a] \in Request
      BY DEF Request
    <2>2. QED
      BY <1>1, <1>9, <2>1 DEF ExpireRead
  <1>10. ASSUME NEW r \in Requests, NEW a \in AttemptIds, NEW m \in Marks,
                ManualGradeRead(r, a, m)
         PROVE  req' \in [Requests -> Request]
    <2>1. attempt[a] \in Row
      BY <1>10, RowStatus DEF ManualGradeRead, Ended, Status
    <2>2. [op |-> "grade", attempt |-> a, snap |-> attempt[a], mark |-> m] \in Request
      BY <2>1 DEF Request
    <2>3. QED
      BY <1>1, <1>10, <2>2 DEF ManualGradeRead
  <1>11. ASSUME NEW r \in Requests, NEW a \in AttemptIds, NEW e \in Events, ActivityRead(r, a, e)
         PROVE  req' \in [Requests -> Request]
    <2>1. [op |-> "activity", attempt |-> a, snap |-> attempt[a], event |-> e] \in Request
      BY <1>11, RowStatus DEF ActivityRead, Request
    <2>2. QED
      BY <1>1, <1>11, <2>1 DEF ActivityRead
  <1>12. ASSUME NEW r \in Requests, Staff(r) \/ Student(r) \/ Abort(r)
         PROVE  req' \in [Requests -> Request]
    <2>1. CASE Staff(r)
      BY <1>2, <1>3, <1>9, <1>10, <2>1
         DEF Staff, SetStatusCommit, ExpireCommit, ManualGradeCommit
    <2>2. CASE Student(r)
      BY <1>2, <1>4, <1>5, <1>6, <1>7, <1>8, <1>11, <2>2
         DEF Student, StartCreate, SaveCommit, SubmitCommit, ActivityCommit
    <2>3. CASE Abort(r)
      BY <1>2, <2>3 DEF Abort
    <2>4. QED
      BY <1>12, <2>1, <2>2, <2>3
  <1>13. req' = req \/ \E r \in Requests : Staff(r) \/ Student(r) \/ Abort(r)
    BY DEF Next, vars, Tick, GenerateToken, SaveOverdue, Sweep, SweepBegin, SweepRead,
           SweepScore, SweepCommit, SweepEmit, SweepAbort
  <1>14. QED
    BY <1>0, <1>12, <1>13

-----------------------------------------------------------------------------
(***************************************************************************)
(* What one step can do to the attempts: start() creates one row under the *)
(* unique keys, and every other write keeps the student and the token of a *)
(* row that is there and reopens none.                                     *)
(***************************************************************************)
Creates(r, a) ==
    /\ StartCreate(r)
    /\ UniqueKeys(req[r].student, req[r].token)
    /\ ~Exists(a)
    /\ attempt' = [attempt EXCEPT ![a] = NewRow(req[r].student, req[r].token, req[r].at)]

Updates(a) ==
    /\ Exists(a)
    /\ attempt'[a] \in Row
    /\ attempt'[a].student = attempt[a].student
    /\ attempt'[a].token = attempt[a].token
    /\ Ended(a) => attempt'[a].status # "IN_PROGRESS"

Keeps(a) == attempt'[a] = attempt[a] \/ Updates(a)

\* The warning of writeGrade only touches device_info.
LEMMA WarnedRow ==
  ASSUME NEW row \in Row, NEW old \in Row
  PROVE  /\ Warned(row, old) \in Row
         /\ \A f \in {"student", "token", "status", "manual"} : Warned(row, old)[f] = row[f]
  <1>1. old.device \in Device
    BY DEF Row
  <1>2. [old.device EXCEPT !.warned = TRUE] \in Device
    BY <1>1 DEF Device
  <1>3. QED
    BY <1>2 DEF Warned, Row

LEMMA FinalizedRow ==
  ASSUME NEW row \in Row, NEW old \in Row, NEW target \in Status,
         NEW auto \in Score
  PROVE  /\ Finalized(row, old, target, auto) \in Row
         /\ Finalized(row, old, target, auto).status = target
         /\ Finalized(row, old, target, auto).student = row.student
         /\ Finalized(row, old, target, auto).token = row.token
  <1>1. [row EXCEPT !.status = target, !.auto = auto] \in Row
    BY DEF Row, Status
  <1>2. /\ [row EXCEPT !.status = target, !.auto = auto].student = row.student
        /\ [row EXCEPT !.status = target, !.auto = auto].token = row.token
        /\ [row EXCEPT !.status = target, !.auto = auto].status = target
    BY DEF Row
  <1>3. QED
    BY <1>1, <1>2, WarnedRow DEF Finalized

\* The fields of a sweep that has read a page.
LEMMA SweepFields ==
  ASSUME TypeOK, SweepsKnow, NEW w \in Sweepers
  PROVE  /\ \A a \in DOMAIN sweep[w].snap :
              a \in AttemptIds /\ sweep[w].snap[a] \in Row /\ attempt[a] \in Row
         /\ sweep[w].pc \in {"commit", "emit"} =>
              \A a \in DOMAIN sweep[w].snap : sweep[w].auto[a] \in Score
  <1>1. sweep[w].snap \in Partial(Row) /\ sweep[w].auto \in Partial(Score)
    BY DEF TypeOK, Sweeper
  <1>2. PICK D \in SUBSET AttemptIds : sweep[w].snap \in [D -> Row]
    BY <1>1 DEF Partial
  <1>3. PICK D2 \in SUBSET AttemptIds : sweep[w].auto \in [D2 -> Score]
    BY <1>1 DEF Partial
  <1>4. QED
    BY <1>2, <1>3, RowStatus DEF SweepsKnow

LEMMA AttemptStep ==
  ASSUME TypeOK, RequestsKnow, SweepsKnow, [Next]_vars
  PROVE  /\ attempt' = [a \in AttemptIds |-> attempt'[a]]
         /\ \/ \A a \in AttemptIds : Keeps(a)
            \/ \E r \in Requests, a \in AttemptIds : Creates(r, a)
  <1>0. attempt \in [AttemptIds -> Row \cup {NoRow}]
    BY DEF TypeOK
  <1> DEFINE Goal == /\ attempt' = [a \in AttemptIds |-> attempt'[a]]
                     /\ \A a \in AttemptIds : Keeps(a)
  <1>1. ASSUME NEW a \in AttemptIds, NEW new \in Row, attempt' = [attempt EXCEPT ![a] = new],
               Exists(a), new.student = attempt[a].student, new.token = attempt[a].token,
               Ended(a) => new.status # "IN_PROGRESS"
        PROVE  Goal
    BY <1>0, <1>1 DEF Keeps, Updates
  <1>2. CASE attempt' = attempt
    BY <1>0, <1>2 DEF Keeps
  <1>3. ASSUME NEW r \in Requests, StartCreate(r), attempt' # attempt
        PROVE  /\ attempt' = [a \in AttemptIds |-> attempt'[a]]
               /\ \E a \in AttemptIds : Creates(r, a)
    BY <1>0, <1>3 DEF StartCreate, Creates
  <1>4. ASSUME NEW r \in Requests, SubmitCommit(r) PROVE Goal
    <2>1. ASSUME NEW a \in AttemptIds, attempt[a] \in Row, Exists(a), NEW old \in Row,
                 NEW target \in Status \ {"IN_PROGRESS"}, NEW auto \in Score,
                 attempt' = [attempt EXCEPT ![a] = Finalized(attempt[a], old, target, auto)]
          PROVE  Goal
      <3>1. /\ Finalized(attempt[a], old, target, auto) \in Row
            /\ Finalized(attempt[a], old, target, auto).status = target
            /\ Finalized(attempt[a], old, target, auto).student = attempt[a].student
            /\ Finalized(attempt[a], old, target, auto).token = attempt[a].token
        BY <2>1, FinalizedRow
      <3>2. QED
        BY <1>1, <2>1, <3>1
    <2>2. /\ req[r].attempt \in AttemptIds /\ Exists(req[r].attempt)
          /\ attempt[req[r].attempt] \in Row /\ req[r].snap \in Row
          /\ req[r].target \in Status \ {"IN_PROGRESS"} /\ req[r].auto \in Score
      BY <1>4, RequestFields, RowStatus DEF SubmitCommit, RequestsKnow, Status
    <2>3. QED
      BY <1>4, <2>1, <2>2 DEF SubmitCommit
  <1>5. ASSUME NEW w \in Sweepers, SweepCommit(w) PROVE Goal
    <2>1. \A a \in DOMAIN sweep[w].snap :
            LET new == Finalized(attempt[a], sweep[w].snap[a], "AUTO_SUBMITTED", sweep[w].auto[a])
            IN /\ Exists(a) /\ new \in Row /\ new.student = attempt[a].student
               /\ new.token = attempt[a].token /\ new.status = "AUTO_SUBMITTED"
      <3>1. ASSUME NEW a \in DOMAIN sweep[w].snap,
                   NEW old \in Row, NEW auto \in Score, attempt[a] \in Row
            PROVE  LET new == Finalized(attempt[a], old, "AUTO_SUBMITTED", auto)
                   IN /\ new \in Row /\ new.student = attempt[a].student
                      /\ new.token = attempt[a].token /\ new.status = "AUTO_SUBMITTED"
        <4>1. "AUTO_SUBMITTED" \in Status
          BY DEF Status
        <4>2. /\ Finalized(attempt[a], old, "AUTO_SUBMITTED", auto) \in Row
              /\ Finalized(attempt[a], old, "AUTO_SUBMITTED", auto).status = "AUTO_SUBMITTED"
              /\ Finalized(attempt[a], old, "AUTO_SUBMITTED", auto).student = attempt[a].student
              /\ Finalized(attempt[a], old, "AUTO_SUBMITTED", auto).token = attempt[a].token
          BY <3>1, <4>1, FinalizedRow
        <4>3. QED
          BY <4>2
      <3>2. QED
        BY <1>5, <3>1, SweepFields DEF SweepCommit, SweepsKnow
    <2>2. attempt' = [a \in AttemptIds |->
            IF a \in DOMAIN sweep[w].snap
            THEN Finalized(attempt[a], sweep[w].snap[a], "AUTO_SUBMITTED", sweep[w].auto[a])
            ELSE attempt[a]]
      BY <1>5 DEF SweepCommit
    <2>3. QED
      BY <2>1, <2>2 DEF Keeps, Updates
  <1>6. ASSUME NEW r \in Requests, ExpireCommit(r) PROVE Goal
    <2> DEFINE a == req[r].attempt
               new == [attempt[a] EXCEPT !.status = "EXPIRED"]
    <2>1. a \in AttemptIds /\ Exists(a) /\ attempt[a] \in Row
      BY <1>6, RequestFields, RowStatus DEF ExpireCommit, RequestsKnow
    <2>2. attempt' = [attempt EXCEPT ![a] = new]
      BY <1>6 DEF ExpireCommit
    <2>3. /\ new \in Row /\ new.student = attempt[a].student /\ new.token = attempt[a].token
          /\ new.status = "EXPIRED"
      BY <2>1 DEF Row, Status
    <2>4. QED
      BY <1>1, <2>1, <2>2, <2>3
  <1>7. ASSUME NEW r \in Requests, ManualGradeCommit(r) PROVE Goal
    <2> DEFINE a == req[r].attempt
               marked == [attempt[a] EXCEPT !.manual = req[r].mark]
               new == Warned(marked, req[r].snap)
    <2>1. /\ a \in AttemptIds /\ Exists(a) /\ attempt[a] \in Row /\ req[r].snap \in Row
          /\ Ended(a) /\ req[r].mark \in Marks
      BY <1>7, RequestFields, RowStatus DEF ManualGradeCommit, RequestsKnow
    <2>2. attempt' = [attempt EXCEPT ![a] = new]
      BY <1>7 DEF ManualGradeCommit
    <2>3. /\ marked \in Row /\ marked.student = attempt[a].student
          /\ marked.token = attempt[a].token /\ marked.status = attempt[a].status
      BY <2>1 DEF Row
    <2>4. /\ new \in Row /\ new.student = marked.student /\ new.token = marked.token
          /\ new.status = marked.status
      BY <2>1, <2>3, WarnedRow
    <2>5. QED
      BY <1>1, <2>1, <2>2, <2>3, <2>4 DEF Ended
  <1>8. ASSUME NEW r \in Requests, ActivityCommit(r) PROVE Goal
    <2> DEFINE a == req[r].attempt
               device == [req[r].snap.device EXCEPT !.acts = @ \cup {req[r].event}]
               new == [attempt[a] EXCEPT !.device = device]
    <2>1. /\ a \in AttemptIds /\ Exists(a) /\ attempt[a] \in Row /\ req[r].snap \in Row
          /\ req[r].event \in Events
      BY <1>8, RequestFields, RowStatus DEF ActivityCommit, RequestsKnow
    <2>2. attempt' = [attempt EXCEPT ![a] = new]
      BY <1>8 DEF ActivityCommit
    <2>3. device \in Device
      <3>1. req[r].snap.device \in Device
        BY <2>1 DEF Row
      <3>2. QED
        BY <2>1, <3>1 DEF Device
    <2>4. /\ new \in Row /\ new.student = attempt[a].student /\ new.token = attempt[a].token
          /\ new.status = attempt[a].status
      BY <2>1, <2>3 DEF Row
    <2>5. QED
      BY <1>1, <2>1, <2>2, <2>4 DEF Ended
  <1>9. \/ attempt' = attempt
        \/ \E r \in Requests : \/ StartCreate(r) \/ SubmitCommit(r) \/ ExpireCommit(r)
                               \/ ManualGradeCommit(r) \/ ActivityCommit(r)
        \/ \E w \in Sweepers : SweepCommit(w)
    BY DEF Next, vars, Tick, GenerateToken, SaveOverdue, Sweep, SweepBegin, SweepRead,
           SweepScore, SweepEmit, SweepAbort, Staff, Student, Abort, SetStatusRead,
           SetStatusCommit, StartRead, StartCheck, SaveRead, SaveCommit, SubmitRead,
           SubmitScore, ExpireRead, ManualGradeRead, ActivityRead
  <1>10. QED
    BY <1>2, <1>3, <1>4, <1>5, <1>6, <1>7, <1>8, <1>9

\* A row that is there stays there, with its student, its token and its end.
LEMMA KeptRow ==
  ASSUME TypeOK, RequestsKnow, SweepsKnow, [Next]_vars, NEW a \in AttemptIds, Exists(a)
  PROVE  /\ Exists(a)'
         /\ attempt'[a].student = attempt[a].student
         /\ attempt'[a].token = attempt[a].token
         /\ Ended(a) => Ended(a)'
  <1>1. attempt \in [AttemptIds -> Row \cup {NoRow}] /\ attempt[a] \in Row
    BY RowStatus DEF TypeOK
  <1>2. CASE attempt'[a] = attempt[a]
    BY <1>2 DEF Exists, Ended
  <1>3. CASE Updates(a)
    BY <1>3 DEF Updates, Exists, Ended, Row, NoRow
  <1>4. ASSUME NEW r \in Requests, NEW b \in AttemptIds, Creates(r, b)
        PROVE  attempt'[a] = attempt[a]
    BY <1>1, <1>4 DEF Creates
  <1>5. QED
    BY <1>2, <1>3, <1>4, AttemptStep DEF Keeps

LEMMA AttemptType ==
  ASSUME TypeOK, RequestsKnow, SweepsKnow, [Next]_vars
  PROVE  attempt' \in [AttemptIds -> Row \cup {NoRow}]
  <1>0. attempt \in [AttemptIds -> Row \cup {NoRow}]
    BY DEF TypeOK
  <1>1. CASE \A a \in AttemptIds : Keeps(a)
    BY <1>0, <1>1, AttemptStep, Zenon DEF Keeps, Updates
  <1>2. ASSUME NEW r \in Requests, NEW a \in AttemptIds, Creates(r, a)
        PROVE  attempt' \in [AttemptIds -> Row \cup {NoRow}]
    <2>1. NewRow(req[r].student, req[r].token, req[r].at) \in Row
      BY <1>2, RequestFields DEF Creates, StartCreate, NewRow, Row, Status, Device
    <2>2. QED
      BY <1>0, <1>2, <2>1 DEF Creates
  <1>3. QED
    BY <1>1, <1>2, AttemptStep

\* writeGrade leaves a well-formed Grade table.
LEMMA GradedType ==
  ASSUME NEW g \in [AttemptIds \X Semesters -> GradeRow \cup {NoGrade}],
         NEW a \in AttemptIds, NEW old \in Row, NEW auto \in Score
  PROVE  Graded(g, a, old, auto) \in [AttemptIds \X Semesters -> GradeRow \cup {NoGrade}]
  <1>1. [auto |-> auto, manual |-> old.manual] \in GradeRow
    BY DEF GradeRow, Row
  <1>2. <<a, SemesterLabel(now)>> \in AttemptIds \X Semesters
    BY DEF SemesterLabel, Semesters
  <1>3. QED
    BY <1>1, <1>2 DEF Graded

LEMMA GradeType ==
  ASSUME TypeOK, RequestsKnow, SweepsKnow, [Next]_vars
  PROVE  grade' \in [AttemptIds \X Semesters -> GradeRow \cup {NoGrade}]
  <1>0. grade \in [AttemptIds \X Semesters -> GradeRow \cup {NoGrade}]
    BY DEF TypeOK
  <1>1. ASSUME NEW r \in Requests, SubmitCommit(r)
        PROVE grade' \in [AttemptIds \X Semesters -> GradeRow \cup {NoGrade}]
    <2>1. req[r].attempt \in AttemptIds /\ req[r].snap \in Row /\ req[r].auto \in Score
      BY <1>1, RequestFields DEF SubmitCommit
    <2>2. grade' = Graded(grade, req[r].attempt, req[r].snap, req[r].auto)
      BY <1>1 DEF SubmitCommit
    <2>3. QED
      BY <1>0, <2>1, <2>2, GradedType
  <1>2. ASSUME NEW r \in Requests, ManualGradeCommit(r)
        PROVE grade' \in [AttemptIds \X Semesters -> GradeRow \cup {NoGrade}]
    <2>1. req[r].attempt \in AttemptIds /\ req[r].snap \in Row
      BY <1>2, RequestFields DEF ManualGradeCommit
    <2>2. PICK f \in Score : grade' = Graded(grade, req[r].attempt, req[r].snap, f)
      BY <1>2 DEF ManualGradeCommit, LatestAnswers
    <2>3. QED
      BY <1>0, <2>1, <2>2, GradedType
  <1>3. ASSUME NEW w \in Sweepers, SweepCommit(w)
        PROVE grade' \in [AttemptIds \X Semesters -> GradeRow \cup {NoGrade}]
    <2>1. ASSUME NEW x \in AttemptIds \X Semesters, x[1] \in DOMAIN sweep[w].snap
          PROVE  Graded(grade, x[1], sweep[w].snap[x[1]], sweep[w].auto[x[1]])[x]
                   \in GradeRow \cup {NoGrade}
      <3>1. /\ x[1] \in AttemptIds /\ sweep[w].snap[x[1]] \in Row
            /\ sweep[w].auto[x[1]] \in Score
        BY <1>3, <2>1, SweepFields DEF SweepCommit
      <3>2. Graded(grade, x[1], sweep[w].snap[x[1]], sweep[w].auto[x[1]])
              \in [AttemptIds \X Semesters -> GradeRow \cup {NoGrade}]
        BY <1>0, <3>1, GradedType
      <3>3. QED
        BY <3>2
    <2>2. grade' = [x \in AttemptIds \X Semesters |->
                     IF x[1] \in DOMAIN sweep[w].snap
                     THEN Graded(grade, x[1], sweep[w].snap[x[1]], sweep[w].auto[x[1]])[x]
                     ELSE grade[x]]
      BY <1>3 DEF SweepCommit
    <2>3. QED
      BY <1>0, <2>1, <2>2
  <1>4. \/ grade' = grade
        \/ \E r \in Requests : SubmitCommit(r) \/ ManualGradeCommit(r)
        \/ \E w \in Sweepers : SweepCommit(w)
    BY DEF Next, vars, Tick, GenerateToken, SaveOverdue, Sweep, SweepBegin, SweepRead,
           SweepScore, SweepEmit, SweepAbort, Staff, Student, Abort, SetStatusRead,
           SetStatusCommit, StartRead, StartCheck, StartCreate, SaveRead, SaveCommit,
           SubmitRead, SubmitScore, ExpireRead, ExpireCommit, ManualGradeRead, ActivityRead,
           ActivityCommit
  <1>5. QED
    BY <1>0, <1>1, <1>2, <1>3, <1>4

\* A Grade, once written, is only ever written again.
HasGrade(a) == \E x \in Semesters : grade[<<a, x>>] # NoGrade

LEMMA GradedHas ==
  ASSUME TypeOK, NEW a \in AttemptIds, NEW b \in AttemptIds, NEW old \in Row, NEW auto \in Score
  PROVE  /\ \A x \in Semesters :
              a # b => Graded(grade, b, old, auto)[<<a, x>>] = grade[<<a, x>>]
         /\ \A x \in Semesters :
              grade[<<a, x>>] # NoGrade => Graded(grade, b, old, auto)[<<a, x>>] # NoGrade
         /\ old.student \in Enrolled =>
              \E x \in Semesters : Graded(grade, b, old, auto)[<<b, x>>] # NoGrade
  <1>0. /\ grade \in [AttemptIds \X Semesters -> GradeRow \cup {NoGrade}]
        /\ SemesterLabel(now) \in Semesters
    BY DEF TypeOK, SemesterLabel, Semesters
  <1>1. [auto |-> auto, manual |-> old.manual] # NoGrade
    <2>1. auto # None
      BY NoneAssumption DEF Score
    <2>2. QED
      BY <2>1 DEF NoGrade
  <1>2. CASE old.student \in Enrolled
    <2>1. Graded(grade, b, old, auto)
            = [grade EXCEPT ![<<b, SemesterLabel(now)>>] =
                 [auto |-> auto, manual |-> old.manual]]
      BY <1>2 DEF Graded
    <2>2. QED
      BY <1>0, <1>1, <2>1
  <1>3. CASE old.student \notin Enrolled
    BY <1>3 DEF Graded
  <1>4. QED
    BY <1>2, <1>3

LEMMA EmptyPartial ==
  ASSUME NEW S
  PROVE  <<>> \in Partial(S)
  <1>1. <<>> \in [{} -> S]
    OBVIOUS
  <1>2. QED
    BY <1>1 DEF Partial

LEMMA PageSize ==
  ASSUME NEW skip \in Nat
  PROVE  Page(skip) \subseteq AttemptIds /\ Cardinality(Page(skip)) \in Nat
  <1>1. Page(skip) \subseteq AttemptIds
    BY DEF Page, InProgress
  <1>2. QED
    BY <1>1, IdAssumption, FS_Subset, FS_CardinalityType

LEMMA SweepType ==
  ASSUME TypeOK, [Next]_vars
  PROVE  sweep' \in [Sweepers -> Sweeper]
  <1>0. sweep \in [Sweepers -> Sweeper] /\ Resting \in Sweeper
    BY EmptyPartial DEF TypeOK, Sweeper, Resting
  <1>1. ASSUME NEW w \in Sweepers, NEW new \in Sweeper, sweep' = [sweep EXCEPT ![w] = new]
        PROVE  sweep' \in [Sweepers -> Sweeper]
    BY <1>0, <1>1
  <1>2. ASSUME NEW w \in Sweepers, SweepBegin(w) PROVE sweep' \in [Sweepers -> Sweeper]
    <2>1. [Resting EXCEPT !.pc = "read"] \in Sweeper
      BY <1>0 DEF Sweeper
    <2>2. QED
      BY <1>1, <1>2, <2>1 DEF SweepBegin
  <1>3. ASSUME NEW w \in Sweepers, SweepRead(w) PROVE sweep' \in [Sweepers -> Sweeper]
    <2> DEFINE page == Page(sweep[w].cursor)
               due == {a \in page : Overdue(attempt[a], now)}
               full == Cardinality(page) = Batch
               next == [pc |-> IF due = {} THEN "read" ELSE "score",
                        cursor |-> sweep[w].cursor + Cardinality(page),
                        full |-> full,
                        snap |-> [a \in due |-> attempt[a]],
                        auto |-> <<>>]
    <2>1. sweep[w].cursor \in Nat
      BY <1>0 DEF Sweeper
    <2>2. page \subseteq AttemptIds /\ Cardinality(page) \in Nat
      BY <2>1, PageSize
    <2>3. [a \in due |-> attempt[a]] \in Partial(Row)
      <3>1. \A a \in due : a \in AttemptIds /\ attempt[a] \in Row
        BY <2>2, RowStatus DEF Page, InProgress
      <3>2. due \in SUBSET AttemptIds
        BY <3>1
      <3> HIDE DEF due
      <3>3. [a \in due |-> attempt[a]] \in [due -> Row]
        BY <3>1
      <3>4. QED
        BY <3>2, <3>3 DEF Partial
    <2>4. next \in Sweeper
      <3>1. sweep[w].cursor + Cardinality(page) \in Nat
        BY <2>1, <2>2
      <3>2. full \in BOOLEAN
        OBVIOUS
      <3> HIDE DEF page, due, full
      <3>3. QED
        BY <2>3, <3>1, <3>2, EmptyPartial DEF Sweeper
    <2>5. sweep' = [sweep EXCEPT ![w] = IF due = {} /\ ~full THEN Resting ELSE next]
      BY <1>3 DEF SweepRead
    <2> HIDE DEF next, due, full
    <2>6. QED
      BY <1>0, <1>1, <2>4, <2>5
  <1>4. ASSUME NEW w \in Sweepers, SweepScore(w) PROVE sweep' \in [Sweepers -> Sweeper]
    <2>1. PICK f \in [DOMAIN sweep[w].snap -> Score] :
            sweep' = [sweep EXCEPT ![w].pc = "commit", ![w].auto = f]
      BY <1>4 DEF SweepScore
    <2>2. f \in Partial(Score)
      BY <1>0 DEF Sweeper, Partial
    <2>3. [sweep[w] EXCEPT !.pc = "commit", !.auto = f] \in Sweeper
      BY <1>0, <2>2 DEF Sweeper
    <2>4. sweep' = [sweep EXCEPT ![w] = [sweep[w] EXCEPT !.pc = "commit", !.auto = f]]
      BY <1>0, <2>1
    <2>5. QED
      BY <1>1, <2>3, <2>4
  <1>5. ASSUME NEW w \in Sweepers, SweepCommit(w) PROVE sweep' \in [Sweepers -> Sweeper]
    <2>1. [sweep[w] EXCEPT !.pc = "emit"] \in Sweeper
      BY <1>0 DEF Sweeper
    <2>2. QED
      BY <1>0, <1>5, <2>1 DEF SweepCommit
  <1>6. ASSUME NEW w \in Sweepers, SweepEmit(w) PROVE sweep' \in [Sweepers -> Sweeper]
    <2>1. [Resting EXCEPT !.pc = "read", !.cursor = sweep[w].cursor] \in Sweeper
      BY <1>0 DEF Sweeper
    <2>2. QED
      BY <1>0, <1>1, <1>6, <2>1 DEF SweepEmit
  <1>7. ASSUME NEW w \in Sweepers, SweepAbort(w) PROVE sweep' \in [Sweepers -> Sweeper]
    BY <1>0, <1>1, <1>7 DEF SweepAbort
  <1>8. sweep' = sweep \/ \E w \in Sweepers : Sweep(w)
    BY DEF Next, vars, Tick, GenerateToken, SaveOverdue, Staff, Student, Abort, SetStatusRead,
           SetStatusCommit, StartRead, StartCheck, StartCreate, SaveRead, SaveCommit,
           SubmitRead, SubmitScore, SubmitCommit, ExpireRead, ExpireCommit, ManualGradeRead,
           ManualGradeCommit, ActivityRead, ActivityCommit
  <1>9. QED
    BY <1>0, <1>2, <1>3, <1>4, <1>5, <1>6, <1>7, <1>8 DEF Sweep

LEMMA LogType ==
  ASSUME TypeOK, RequestsKnow, [Next]_vars
  PROVE  log' \subseteq LogRow
  <1>1. ASSUME NEW r \in Requests, SaveCommit(r) PROVE log' \subseteq LogRow
    <2>1. /\ req[r].attempt \in AttemptIds /\ req[r].key \in Keys
          /\ req[r].at \in Time /\ now \in Time /\ log \subseteq LogRow
          /\ \A q \in DOMAIN req[r].sheet : q \in Questions /\ req[r].sheet[q] \in Answers
      BY <1>1, RequestFields DEF SaveCommit, TypeOK, Sheets
    <2>2. PICK t \in req[r].at .. now :
            log' = log \cup {[attempt |-> req[r].attempt, key |-> req[r].key, question |-> q,
                              answer |-> req[r].sheet[q], at |-> t] :
                                q \in {p \in DOMAIN req[r].sheet :
                                        KeyFree(req[r].attempt, req[r].key, p)}}
      BY <1>1 DEF SaveCommit
    <2>3. t \in Time
      BY <2>1, <2>2, TimeAssumption DEF Time
    <2>4. QED
      BY <2>1, <2>2, <2>3 DEF LogRow
  <1>2. log' = log \/ \E r \in Requests : SaveCommit(r)
    BY DEF Next, vars, Tick, GenerateToken, SaveOverdue, Sweep, SweepBegin, SweepRead,
           SweepScore, SweepCommit, SweepEmit, SweepAbort, Staff, Student, Abort,
           SetStatusRead, SetStatusCommit, StartRead, StartCheck, StartCreate, SaveRead,
           SubmitRead, SubmitScore, SubmitCommit, ExpireRead, ExpireCommit, ManualGradeRead,
           ManualGradeCommit, ActivityRead, ActivityCommit
  <1>3. QED
    BY <1>1, <1>2 DEF TypeOK

\* The rooms and clients told are those of attempts that are there.
LEMMA ToldType ==
  ASSUME TypeOK, SweepsKnow, [Next]_vars
  PROVE  pushed' \subseteq AttemptIds /\ told' \subseteq AttemptIds
  <1>0. pushed \subseteq AttemptIds /\ told \subseteq AttemptIds
    BY DEF TypeOK
  <1>1. ASSUME NEW w \in Sweepers, SweepEmit(w)
        PROVE pushed' \subseteq AttemptIds /\ told' \subseteq AttemptIds
    BY <1>0, <1>1, SweepFields DEF SweepEmit
  <1>2. ASSUME NEW a \in AttemptIds, SaveOverdue(a)
        PROVE pushed' \subseteq AttemptIds /\ told' \subseteq AttemptIds
    BY <1>0, <1>2 DEF SaveOverdue
  <1>3. \/ UNCHANGED <<pushed, told>>
        \/ \E w \in Sweepers : SweepEmit(w)
        \/ \E a \in AttemptIds : SaveOverdue(a)
    BY DEF Next, vars, Tick, GenerateToken, Sweep, SweepBegin, SweepRead,
           SweepScore, SweepCommit, SweepAbort, Staff, Student, Abort,
           SetStatusRead, SetStatusCommit, StartRead, StartCheck, StartCreate, SaveRead,
           SaveCommit, SubmitRead, SubmitScore, SubmitCommit, ExpireRead, ExpireCommit,
           ManualGradeRead, ManualGradeCommit, ActivityRead, ActivityCommit
  <1>4. QED
    BY <1>0, <1>1, <1>2, <1>3

LEMMA SessionType ==
  ASSUME TypeOK, [Next]_vars
  PROVE  /\ now' \in Time
         /\ exam' \in ExamStatus
         /\ session' \in [token : Tokens \cup {None}, expires : Int]
  <1>0. /\ now \in Time /\ exam \in ExamStatus
        /\ session \in [token : Tokens \cup {None}, expires : Int]
    BY DEF TypeOK
  <1>1. CASE Tick
    BY <1>0, <1>1, TimeAssumption DEF Tick, Time
  <1>2. ASSUME NEW t \in Tokens, GenerateToken(t)
        PROVE  session' \in [token : Tokens \cup {None}, expires : Int]
    <2>1. now + TokenTtl \in Int
      BY <1>0, TimeAssumption DEF Time
    <2>2. QED
      BY <1>2, <2>1 DEF GenerateToken
  <1>3. ASSUME NEW r \in Requests, SetStatusCommit(r) PROVE exam' \in ExamStatus
    BY <1>3, RequestFields DEF SetStatusCommit
  <1>4. ASSUME NEW r \in Requests, StartCreate(r) PROVE exam' \in ExamStatus
    BY <1>0, <1>4 DEF StartCreate, ExamStatus
  <1>5. /\ now' = now \/ Tick
        /\ session' = session \/ \E t \in Tokens : GenerateToken(t)
        /\ \/ exam' = exam
           \/ \E r \in Requests : SetStatusCommit(r) \/ StartCreate(r)
    BY DEF Next, vars, Tick, GenerateToken, SaveOverdue, Sweep, SweepBegin, SweepRead,
           SweepScore, SweepCommit, SweepEmit, SweepAbort, Staff, Student, Abort,
           SetStatusRead, SetStatusCommit, StartRead, StartCheck, StartCreate, SaveRead,
           SaveCommit, SubmitRead, SubmitScore, SubmitCommit, ExpireRead, ExpireCommit,
           ManualGradeRead, ManualGradeCommit, ActivityRead, ActivityCommit
  <1>6. QED
    BY <1>0, <1>1, <1>2, <1>3, <1>4, <1>5

LEMMA TypeStep ==
  ASSUME TypeOK, RequestsKnow, SweepsKnow, [Next]_vars
  PROVE  TypeOK'
  BY SessionType, AttemptType, LogType, GradeType, ReqType, SweepType, ToldType DEF TypeOK

-----------------------------------------------------------------------------
(* What the handlers know *)

\* What one step can do to a request: leave it, end it, move it on, or begin one whose
\* read saw the row as it is.
Reads(r) ==
    /\ attempt' = attempt
    /\ \/ req'[r].op \in {"start", "status"}
       \/ /\ req'[r].op \in {"save", "submit", "expire", "grade", "activity"}
          /\ req'[r].attempt \in AttemptIds /\ Exists(req'[r].attempt)
          /\ req'[r].op \in {"submit", "grade"} =>
               req'[r].snap = attempt[req'[r].attempt]
          /\ req'[r].op = "grade" => Ended(req'[r].attempt)

Moves(r) ==
    /\ req'[r].op = req[r].op
    /\ req[r].op = "submit" => req'[r].attempt = req[r].attempt /\ req'[r].snap = req[r].snap
    /\ req[r].op \in {"start", "submit"}

LEMMA ReqStep ==
  ASSUME TypeOK, [Next]_vars, NEW r \in Requests
  PROVE  req'[r] = req[r] \/ req'[r] = Idle \/ Moves(r) \/ Reads(r)
  <1> DEFINE Goal == req'[r] = req[r] \/ req'[r] = Idle \/ Moves(r) \/ Reads(r)
  <1>0. req \in [Requests -> Request]
    BY DEF TypeOK
  <1>1. ASSUME NEW p \in Requests, Finish(p) PROVE Goal
    BY <1>0, <1>1 DEF Finish
  <1>2. ASSUME NEW p \in Requests, Staff(p) PROVE Goal
    <2>1. ASSUME NEW target \in DOMAIN SetStatusFrom, SetStatusRead(p, target) PROVE Goal
      BY <1>0, <2>1 DEF SetStatusRead, Begin, Reads
    <2>2. ASSUME NEW a \in AttemptIds, ExpireRead(p, a) PROVE Goal
      BY <1>0, <2>2, RowStatus DEF ExpireRead, Begin, Reads
    <2>3. ASSUME NEW a \in AttemptIds, NEW m \in Marks, ManualGradeRead(p, a, m) PROVE Goal
      <3>1. Ended(a) /\ Exists(a)
        BY <2>3, RowStatus DEF ManualGradeRead, Ended, Status
      <3>2. QED
        BY <1>0, <2>3, <3>1 DEF ManualGradeRead, Begin, Reads
    <2>4. QED
      BY <1>1, <1>2, <2>1, <2>2, <2>3
         DEF Staff, SetStatusCommit, ExpireCommit, ManualGradeCommit
  <1>3. ASSUME NEW p \in Requests, Student(p) PROVE Goal
    <2>1. ASSUME NEW s \in Students, NEW t \in Tokens, StartRead(p, s, t) PROVE Goal
      BY <1>0, <2>1 DEF StartRead, Begin, Reads
    <2>2. CASE StartCheck(p)
      <3>1. CASE req' = [req EXCEPT ![p].checked = TRUE]
        <4>1. req[p] \in Request /\ req[p].op = "start"
          BY <1>0, <2>2 DEF StartCheck
        <4>2. [req[p] EXCEPT !.checked = TRUE].op = "start"
          BY <4>1 DEF Request, Idle
        <4>3. QED
          BY <1>0, <3>1, <4>1, <4>2 DEF Moves
      <3>2. QED
        BY <1>1, <2>2, <3>1 DEF StartCheck
    <2>3. ASSUME NEW a \in AttemptIds, NEW k \in Keys, NEW sheet \in Sheets,
                 SaveRead(p, a, k, sheet)
          PROVE  Goal
      BY <1>0, <2>3, RowStatus DEF SaveRead, Begin, Reads
    <2>4. ASSUME NEW a \in AttemptIds, SubmitRead(p, a) PROVE Goal
      BY <1>0, <2>4, RowStatus DEF SubmitRead, Begin, Reads
    <2>5. CASE SubmitScore(p)
      <3>1. PICK f \in Score : req' = [req EXCEPT ![p].auto = f]
        BY <2>5 DEF SubmitScore, LatestAnswers
      <3>2. req[p] \in Request /\ req[p].op = "submit"
        BY <1>0, <2>5 DEF SubmitScore
      <3>3. /\ [req[p] EXCEPT !.auto = f].op = "submit"
            /\ [req[p] EXCEPT !.auto = f].attempt = req[p].attempt
            /\ [req[p] EXCEPT !.auto = f].snap = req[p].snap
        BY <3>2 DEF Request, Idle
      <3>4. QED
        BY <1>0, <3>1, <3>2, <3>3 DEF Moves
    <2>6. ASSUME NEW a \in AttemptIds, NEW e \in Events, ActivityRead(p, a, e) PROVE Goal
      BY <1>0, <2>6 DEF ActivityRead, Begin, Reads
    <2>7. QED
      BY <1>1, <1>3, <2>1, <2>2, <2>3, <2>4, <2>5, <2>6
         DEF Student, StartCreate, SaveCommit, SubmitCommit, ActivityCommit
  <1>4. req' = req \/ \E p \in Requests : Staff(p) \/ Student(p) \/ Abort(p)
    BY DEF Next, vars, Tick, GenerateToken, SaveOverdue, Sweep, SweepBegin, SweepRead,
           SweepScore, SweepCommit, SweepEmit, SweepAbort
  <1>5. QED
    BY <1>1, <1>2, <1>3, <1>4 DEF Abort

LEMMA RequestsKnowStep ==
  ASSUME TypeOK, RequestsKnow, SweepsKnow, [Next]_vars
  PROVE  RequestsKnow'
  <1> SUFFICES ASSUME NEW r \in Requests
               PROVE  /\ req'[r].op \in {"save", "submit", "expire", "grade", "activity"} =>
                            attempt'[req'[r].attempt] # NoRow
                      /\ req'[r].op \in {"submit", "grade"} =>
                            req'[r].snap.student = attempt'[req'[r].attempt].student
                      /\ req'[r].op = "grade" =>
                            attempt'[req'[r].attempt].status \in Status \ {"IN_PROGRESS"}
    BY DEF RequestsKnow, Exists, Ended
  <1>1. CASE req'[r] = req[r]
    <2>1. CASE req[r].op \in {"save", "submit", "expire", "grade", "activity"}
      <3>1. /\ req[r].attempt \in AttemptIds /\ Exists(req[r].attempt)
            /\ req[r].op = "grade" => Ended(req[r].attempt)
            /\ req[r].op \in {"submit", "grade"} =>
                 req[r].snap.student = attempt[req[r].attempt].student
        BY <2>1, RequestFields DEF RequestsKnow
      <3>2. /\ attempt'[req[r].attempt] # NoRow
            /\ attempt'[req[r].attempt].student = attempt[req[r].attempt].student
            /\ Ended(req[r].attempt) => attempt'[req[r].attempt].status \in Status \ {"IN_PROGRESS"}
        BY <3>1, KeptRow DEF Exists, Ended
      <3>3. QED
        BY <1>1, <3>1, <3>2 DEF Exists, Ended
    <2>2. QED
      BY <1>1, <2>1
  <1>2. CASE req'[r] = Idle
    BY <1>2 DEF Idle
  <1>3. CASE Moves(r)
    <2>1. CASE req[r].op = "submit"
      <3>1. /\ req[r].attempt \in AttemptIds /\ Exists(req[r].attempt)
            /\ req[r].snap.student = attempt[req[r].attempt].student
        BY <2>1, RequestFields DEF RequestsKnow
      <3>2. /\ attempt'[req[r].attempt] # NoRow
            /\ attempt'[req[r].attempt].student = attempt[req[r].attempt].student
        BY <3>1, KeptRow DEF Exists
      <3>3. QED
        BY <1>3, <2>1, <3>1, <3>2 DEF Moves, Exists
    <2>2. QED
      BY <1>3, <2>1 DEF Moves
  <1>4. CASE Reads(r)
    BY <1>4 DEF Reads, Exists, Ended
  <1>5. QED
    BY <1>1, <1>2, <1>3, <1>4, ReqStep

\* The batch's commit ends every row of the page.
LEMMA SweepCommitEnds ==
  ASSUME TypeOK, RequestsKnow, SweepsKnow, [Next]_vars, NEW w \in Sweepers, SweepCommit(w),
         NEW a \in DOMAIN sweep[w].snap
  PROVE  Ended(a)'
  <1>1. /\ a \in AttemptIds /\ attempt[a] \in Row /\ sweep[w].snap[a] \in Row
        /\ sweep[w].auto[a] \in Score
    BY SweepFields DEF SweepCommit
  <1>2. attempt'[a] = Finalized(attempt[a], sweep[w].snap[a], "AUTO_SUBMITTED", sweep[w].auto[a])
    BY <1>1 DEF SweepCommit
  <1>3. ASSUME NEW row \in Row, NEW old \in Row, NEW auto \in Score
        PROVE  Finalized(row, old, "AUTO_SUBMITTED", auto).status = "AUTO_SUBMITTED"
    <2>1. "AUTO_SUBMITTED" \in Status
      BY DEF Status
    <2>2. QED
      BY <2>1, FinalizedRow
  <1>4. attempt'[a].status = "AUTO_SUBMITTED"
    BY <1>1, <1>2, <1>3
  <1>5. QED
    BY <1>4 DEF Ended, Status

LEMMA SweepsKnowStep ==
  ASSUME TypeOK, RequestsKnow, SweepsKnow, [Next]_vars
  PROVE  SweepsKnow'
  <1> DEFINE Goal(w) ==
        /\ \A a \in DOMAIN sweep'[w].snap :
            /\ attempt'[a] # NoRow
            /\ sweep'[w].snap[a].student = attempt'[a].student
            /\ sweep'[w].pc = "emit" => attempt'[a].status \in Status \ {"IN_PROGRESS"}
        /\ sweep'[w].pc \in {"commit", "emit"} => DOMAIN sweep'[w].auto = DOMAIN sweep'[w].snap
  <1>0. sweep \in [Sweepers -> Sweeper]
    BY DEF TypeOK
  <1>1. SUFFICES ASSUME NEW w \in Sweepers PROVE Goal(w)
    BY DEF SweepsKnow, Exists, Ended
  <1>2. \A a \in DOMAIN sweep[w].snap :
          /\ a \in AttemptIds
          /\ attempt'[a] # NoRow
          /\ sweep[w].snap[a].student = attempt'[a].student
          /\ sweep[w].pc = "emit" => attempt'[a].status \in Status \ {"IN_PROGRESS"}
    <2>1. SUFFICES ASSUME NEW a \in DOMAIN sweep[w].snap
                   PROVE  /\ a \in AttemptIds
                          /\ attempt'[a] # NoRow
                          /\ sweep[w].snap[a].student = attempt'[a].student
                          /\ sweep[w].pc = "emit" =>
                               attempt'[a].status \in Status \ {"IN_PROGRESS"}
      OBVIOUS
    <2>2. /\ a \in AttemptIds /\ Exists(a)
          /\ sweep[w].snap[a].student = attempt[a].student
          /\ sweep[w].pc = "emit" => Ended(a)
      BY SweepFields DEF SweepsKnow
    <2>3. QED
      BY <2>2, KeptRow DEF Exists, Ended
  <1>3. CASE sweep'[w] = sweep[w]
    BY <1>2, <1>3 DEF SweepsKnow
  <1>4. CASE sweep'[w].snap = <<>> /\ sweep'[w].pc \in {"idle", "read"}
    BY <1>4
  <1>5. CASE SweepRead(w)
    <2> DEFINE due == {a \in Page(sweep[w].cursor) : Overdue(attempt[a], now)}
    <2>1. CASE sweep'[w] = Resting
      BY <2>1 DEF Resting
    <2>2. CASE sweep'[w] # Resting
      <3>1. sweep'[w].snap = [a \in due |-> attempt[a]] /\ sweep'[w].pc \in {"read", "score"}
        BY <1>0, <1>5, <2>2 DEF SweepRead
      <3>2. \A a \in due : a \in AttemptIds /\ Exists(a)
        BY DEF Page, InProgress
      <3>3. attempt' = attempt
        BY <1>5 DEF SweepRead
      <3> HIDE DEF due
      <3>4. QED
        BY <3>1, <3>2, <3>3 DEF Exists
    <2>3. QED
      BY <2>1, <2>2
  <1>6. CASE SweepScore(w)
    <2>1. PICK f \in [DOMAIN sweep[w].snap -> Score] :
            sweep' = [sweep EXCEPT ![w].pc = "commit", ![w].auto = f]
      BY <1>6 DEF SweepScore
    <2>2. sweep'[w].pc = "commit" /\ sweep'[w].snap = sweep[w].snap /\ sweep'[w].auto = f
      BY <1>0, <2>1 DEF Sweeper
    <2>3. QED
      BY <1>2, <2>2
  <1>7. CASE SweepCommit(w)
    <2>1. /\ sweep'[w].snap = sweep[w].snap /\ sweep'[w].auto = sweep[w].auto
          /\ sweep'[w].pc = "emit" /\ sweep[w].pc = "commit"
      BY <1>0, <1>7 DEF SweepCommit, Sweeper
    <2>2. \A a \in DOMAIN sweep[w].snap : attempt'[a].status \in Status \ {"IN_PROGRESS"}
      BY <1>7, SweepCommitEnds DEF Ended
    <2>3. QED
      BY <1>2, <2>1, <2>2 DEF SweepsKnow
  <1>8. \/ sweep'[w] = sweep[w]
        \/ SweepRead(w) \/ SweepScore(w) \/ SweepCommit(w)
        \/ sweep'[w].snap = <<>> /\ sweep'[w].pc \in {"idle", "read"}
    <2>1. ASSUME NEW v \in Sweepers, Sweep(v), v # w PROVE sweep'[w] = sweep[w]
      BY <1>0, <2>1 DEF Sweep, SweepBegin, SweepRead, SweepScore, SweepCommit, SweepEmit, SweepAbort
    <2>2. ASSUME SweepBegin(w) \/ SweepEmit(w) \/ SweepAbort(w)
          PROVE  sweep'[w].snap = <<>> /\ sweep'[w].pc \in {"idle", "read"}
      <3>1. CASE SweepBegin(w)
        BY <1>0, <3>1 DEF SweepBegin, Resting
      <3>2. CASE SweepEmit(w)
        BY <1>0, <3>2 DEF SweepEmit, Resting
      <3>3. CASE SweepAbort(w)
        BY <1>0, <3>3 DEF SweepAbort, Resting
      <3>4. QED
        BY <2>2, <3>1, <3>2, <3>3
    <2>3. sweep' = sweep \/ \E v \in Sweepers : Sweep(v)
      BY DEF Next, vars, Tick, GenerateToken, SaveOverdue, Staff, Student, Abort, SetStatusRead,
             SetStatusCommit, StartRead, StartCheck, StartCreate, SaveRead, SaveCommit,
             SubmitRead, SubmitScore, SubmitCommit, ExpireRead, ExpireCommit, ManualGradeRead,
             ManualGradeCommit, ActivityRead, ActivityCommit
    <2>4. QED
      BY <2>1, <2>2, <2>3 DEF Sweep
  <1>9. QED
    BY <1>3, <1>4, <1>5, <1>6, <1>7, <1>8

-----------------------------------------------------------------------------
(* The properties *)

LEMMA UniqueSeatsStep ==
  ASSUME TypeOK, RequestsKnow, SweepsKnow, UniqueSeats, [Next]_vars
  PROVE  UniqueSeats'
  <1>0. attempt \in [AttemptIds -> Row \cup {NoRow}]
    BY DEF TypeOK
  <1>1. CASE \A a \in AttemptIds : Keeps(a)
    BY <1>1 DEF Keeps, Updates, UniqueSeats, Exists
  <1>2. ASSUME NEW r \in Requests, NEW c \in AttemptIds, Creates(r, c) PROVE UniqueSeats'
    <2> DEFINE new == NewRow(req[r].student, req[r].token, req[r].at)
    <2>1. new.student = req[r].student /\ new.token = req[r].token
      BY DEF NewRow
    <2>2. attempt' = [attempt EXCEPT ![c] = new]
      BY <1>2 DEF Creates
    <2>3. \A a \in AttemptIds : Exists(a) =>
            attempt[a].student # req[r].student /\ attempt[a].token # req[r].token
      BY <1>2 DEF Creates, UniqueKeys, StudentFree, TokenFree
    <2> HIDE DEF new
    <2>4. QED
      BY <1>0, <2>1, <2>2, <2>3 DEF UniqueSeats, Exists
  <1>3. QED
    BY <1>1, <1>2, AttemptStep

LEMMA AutosaveOnceStep ==
  ASSUME TypeOK, AutosaveOnce, [Next]_vars
  PROVE  AutosaveOnce'
  <1>1. ASSUME NEW r \in Requests, SaveCommit(r) PROVE AutosaveOnce'
    <2> DEFINE a == req[r].attempt
               k == req[r].key
               new(t) == {[attempt |-> a, key |-> k, question |-> q, answer |-> req[r].sheet[q],
                           at |-> t] : q \in {p \in DOMAIN req[r].sheet : KeyFree(a, k, p)}}
    <2>1. PICK t \in req[r].at .. now : log' = log \cup new(t)
      BY <1>1 DEF SaveCommit
    <2>2. ASSUME NEW e \in new(t)
          PROVE  /\ e.attempt = a /\ e.key = k
                 /\ e = [attempt |-> a, key |-> k, question |-> e.question,
                         answer |-> req[r].sheet[e.question], at |-> t]
                 /\ \A d \in log : ~(d.attempt = a /\ d.key = k /\ d.question = e.question)
      BY <2>2 DEF KeyFree, LogOf
    <2> HIDE DEF new, a, k
    <2>3. QED
      BY <2>1, <2>2 DEF AutosaveOnce
  <1>2. log' = log \/ \E r \in Requests : SaveCommit(r)
    BY DEF Next, vars, Tick, GenerateToken, SaveOverdue, Sweep, SweepBegin, SweepRead,
           SweepScore, SweepCommit, SweepEmit, SweepAbort, Staff, Student, Abort,
           SetStatusRead, SetStatusCommit, StartRead, StartCheck, StartCreate, SaveRead,
           SubmitRead, SubmitScore, SubmitCommit, ExpireRead, ExpireCommit, ManualGradeRead,
           ManualGradeCommit, ActivityRead, ActivityCommit
  <1>3. QED
    BY <1>1, <1>2 DEF AutosaveOnce

LEMMA PushedOnlyFinishedStep ==
  ASSUME TypeOK, RequestsKnow, SweepsKnow, PushedOnlyFinished, [Next]_vars
  PROVE  PushedOnlyFinished'
  <1>1. ASSUME NEW a \in AttemptIds, Ended(a) PROVE Ended(a)'
    BY <1>1, RowStatus, KeptRow
  <1>2. ASSUME NEW a \in pushed' PROVE a \in AttemptIds /\ Ended(a)
    <2>1. CASE a \in pushed
      BY <2>1 DEF TypeOK, PushedOnlyFinished
    <2>2. CASE a \notin pushed
      <3>1. PICK w \in Sweepers : SweepEmit(w)
        BY <1>2, <2>2
           DEF Next, vars, Tick, GenerateToken, SaveOverdue, Sweep, SweepBegin, SweepRead,
               SweepScore, SweepCommit, SweepAbort, Staff, Student, Abort, SetStatusRead,
               SetStatusCommit, StartRead, StartCheck, StartCreate, SaveRead, SaveCommit,
               SubmitRead, SubmitScore, SubmitCommit, ExpireRead, ExpireCommit,
               ManualGradeRead, ManualGradeCommit, ActivityRead, ActivityCommit
      <3>2. a \in DOMAIN sweep[w].snap /\ sweep[w].pc = "emit"
        BY <1>2, <2>2, <3>1 DEF SweepEmit
      <3>3. QED
        BY <3>2, SweepFields DEF SweepsKnow
    <2>3. QED
      BY <2>1, <2>2
  <1>3. QED
    BY <1>1, <1>2 DEF PushedOnlyFinished

\* What one step does to the Grades of an attempt: none is lost, one appears only for a row
\* that has ended, and a row that becomes submitted gets one.
GradeFollows(a) ==
    /\ HasGrade(a) => HasGrade(a)'
    /\ HasGrade(a)' => HasGrade(a) \/ Ended(a)'
    /\ attempt'[a].status \in {"SUBMITTED", "AUTO_SUBMITTED"} =>
         \/ attempt[a].status \in {"SUBMITTED", "AUTO_SUBMITTED"}
         \/ attempt'[a].student \in Enrolled => HasGrade(a)'

LEMMA GradeStep ==
  ASSUME TypeOK, RequestsKnow, SweepsKnow, [Next]_vars, NEW a \in AttemptIds
  PROVE  GradeFollows(a)
  <1>0. /\ attempt \in [AttemptIds -> Row \cup {NoRow}]
        /\ grade \in [AttemptIds \X Semesters -> GradeRow \cup {NoGrade}]
    BY DEF TypeOK
  <1>1. CASE attempt'[a] = attempt[a] /\ \A x \in Semesters : grade'[<<a, x>>] = grade[<<a, x>>]
    BY <1>1 DEF GradeFollows, HasGrade
  <1>2. ASSUME NEW b \in AttemptIds, NEW old \in Row, NEW auto \in Score,
               grade' = Graded(grade, b, old, auto)
        PROVE  /\ a # b => \A x \in Semesters : grade'[<<a, x>>] = grade[<<a, x>>]
               /\ HasGrade(a) => HasGrade(a)'
               /\ a = b /\ old.student \in Enrolled => HasGrade(a)'
    <2> DEFINE g == Graded(grade, b, old, auto)
    <2>1. /\ \A x \in Semesters : a # b => g[<<a, x>>] = grade[<<a, x>>]
          /\ \A x \in Semesters : grade[<<a, x>>] # NoGrade => g[<<a, x>>] # NoGrade
          /\ old.student \in Enrolled => \E x \in Semesters : g[<<b, x>>] # NoGrade
      BY GradedHas
    <2>2. grade' = g
      BY <1>2
    <2> HIDE DEF g
    <2>3. QED
      BY <2>1, <2>2 DEF HasGrade
  <1>3. ASSUME NEW r \in Requests, SubmitCommit(r) PROVE GradeFollows(a)
    <2>1. /\ req[r].attempt \in AttemptIds /\ Exists(req[r].attempt) /\ req[r].snap \in Row
          /\ req[r].auto \in Score /\ req[r].snap.student = attempt[req[r].attempt].student
          /\ req[r].target \in {"SUBMITTED", "AUTO_SUBMITTED"}
      BY <1>3, RequestFields DEF SubmitCommit, RequestsKnow
    <2>2. grade' = Graded(grade, req[r].attempt, req[r].snap, req[r].auto)
      BY <1>3 DEF SubmitCommit
    <2>3. CASE a # req[r].attempt
      <3>1. attempt'[a] = attempt[a]
        BY <1>0, <1>3, <2>3 DEF SubmitCommit
      <3>2. QED
        BY <1>1, <1>2, <2>1, <2>2, <2>3, <3>1
    <2>4. CASE a = req[r].attempt
      <3>1. attempt'[a] = Finalized(attempt[a], req[r].snap, req[r].target, req[r].auto)
        BY <1>0, <1>3, <2>1, <2>4 DEF SubmitCommit
      <3>2. /\ attempt[a] \in Row /\ req[r].target \in Status
        BY <2>1, <2>4, RowStatus DEF Status
      <3>3. ASSUME NEW row \in Row, NEW old \in Row, NEW target \in Status, NEW auto \in Score
            PROVE  Finalized(row, old, target, auto).status = target
        BY FinalizedRow
      <3>4. attempt'[a].status = req[r].target
        BY <2>1, <3>1, <3>2, <3>3
      <3>5. attempt'[a].student = attempt[a].student
        BY <2>1, <2>4, KeptRow
      <3>6. Ended(a)'
        BY <2>1, <3>4 DEF Ended, Status
      <3>7. /\ HasGrade(a) => HasGrade(a)'
            /\ attempt'[a].student \in Enrolled => HasGrade(a)'
        BY <1>2, <2>1, <2>2, <2>4, <3>5
      <3>8. QED
        BY <3>6, <3>7 DEF GradeFollows
    <2>5. QED
      BY <2>3, <2>4
  <1>4. ASSUME NEW r \in Requests, ManualGradeCommit(r) PROVE GradeFollows(a)
    <2>1. /\ req[r].attempt \in AttemptIds /\ Exists(req[r].attempt) /\ req[r].snap \in Row
          /\ Ended(req[r].attempt) /\ req[r].mark \in Marks
      BY <1>4, RequestFields DEF ManualGradeCommit, RequestsKnow
    <2>2. PICK f \in Score : grade' = Graded(grade, req[r].attempt, req[r].snap, f)
      BY <1>4 DEF ManualGradeCommit, LatestAnswers
    <2>3. CASE a # req[r].attempt
      <3>1. attempt'[a] = attempt[a]
        BY <1>0, <1>4, <2>3 DEF ManualGradeCommit
      <3>2. QED
        BY <1>1, <1>2, <2>1, <2>2, <2>3, <3>1
    <2>4. CASE a = req[r].attempt
      <3>1. attempt[a] \in Row
        BY <2>1, <2>4, RowStatus
      <3>2. [attempt[a] EXCEPT !.manual = req[r].mark] \in Row
        BY <2>1, <3>1 DEF Row
      <3>3. attempt'[a] = Warned([attempt[a] EXCEPT !.manual = req[r].mark], req[r].snap)
        BY <1>0, <1>4, <2>1, <2>4 DEF ManualGradeCommit
      <3>4. attempt'[a].status = [attempt[a] EXCEPT !.manual = req[r].mark].status
        <4>1. ASSUME NEW row \in Row, NEW old \in Row
              PROVE  Warned(row, old).status = row.status
          BY WarnedRow
        <4>2. QED
          BY <2>1, <3>2, <3>3, <4>1
      <3>5. attempt'[a].status = attempt[a].status
        BY <3>1, <3>4 DEF Row
      <3>6. HasGrade(a) => HasGrade(a)'
        BY <1>2, <2>1, <2>2
      <3>7. Ended(a)'
        BY <2>1, <2>4, KeptRow
      <3>8. QED
        BY <3>5, <3>6, <3>7 DEF GradeFollows
    <2>5. QED
      BY <2>3, <2>4
  <1>5. ASSUME NEW w \in Sweepers, SweepCommit(w) PROVE GradeFollows(a)
    <2> DEFINE snap == sweep[w].snap
    <2>1. /\ attempt' = [b \in AttemptIds |-> IF b \in DOMAIN snap
                         THEN Finalized(attempt[b], snap[b], "AUTO_SUBMITTED", sweep[w].auto[b])
                         ELSE attempt[b]]
          /\ grade' = [x \in AttemptIds \X Semesters |->
                IF x[1] \in DOMAIN snap
                THEN Graded(grade, x[1], snap[x[1]], sweep[w].auto[x[1]])[x]
                ELSE grade[x]]
      BY <1>5 DEF SweepCommit
    <2>2. CASE a \notin DOMAIN snap
      BY <1>1, <2>1, <2>2
    <2>3. CASE a \in DOMAIN snap
      <3>1. /\ snap[a] \in Row /\ sweep[w].auto[a] \in Score /\ Exists(a)
            /\ snap[a].student = attempt[a].student
        BY <1>5, <2>3, SweepFields DEF SweepCommit, SweepsKnow
      <3>2. Ended(a)'
        BY <1>5, <2>3, SweepCommitEnds
      <3>3. \A x \in Semesters :
              grade'[<<a, x>>] = Graded(grade, a, snap[a], sweep[w].auto[a])[<<a, x>>]
        BY <2>1, <2>3
      <3>4. attempt'[a].student = snap[a].student
        BY <3>1, KeptRow
      <3> HIDE DEF snap
      <3>5. /\ HasGrade(a) => HasGrade(a)'
            /\ attempt'[a].student \in Enrolled => HasGrade(a)'
        <4> DEFINE g == Graded(grade, a, snap[a], sweep[w].auto[a])
        <4>1. /\ \A x \in Semesters : grade[<<a, x>>] # NoGrade => g[<<a, x>>] # NoGrade
              /\ snap[a].student \in Enrolled => \E x \in Semesters : g[<<a, x>>] # NoGrade
          BY <3>1, GradedHas
        <4>2. \A x \in Semesters : grade'[<<a, x>>] = g[<<a, x>>]
          BY <3>3
        <4> HIDE DEF g
        <4>3. QED
          BY <3>4, <4>1, <4>2 DEF HasGrade
      <3>6. QED
        BY <3>2, <3>5 DEF GradeFollows
    <2>4. QED
      BY <2>2, <2>3
  <1>6. ASSUME NEW r \in Requests, StartCreate(r) \/ ExpireCommit(r) \/ ActivityCommit(r)
        PROVE  GradeFollows(a)
    <2>1. attempt'[a].status \in {"SUBMITTED", "AUTO_SUBMITTED"} =>
            attempt[a].status \in {"SUBMITTED", "AUTO_SUBMITTED"}
      <3>1. CASE StartCreate(r)
        BY <1>0, <3>1 DEF StartCreate, NewRow
      <3>2. CASE ExpireCommit(r)
        <4>1. req[r].attempt \in AttemptIds /\ attempt[req[r].attempt] \in Row
          BY <3>2, RequestFields, RowStatus DEF ExpireCommit, RequestsKnow
        <4>2. QED
          BY <1>0, <3>2, <4>1 DEF ExpireCommit, Row
      <3>3. CASE ActivityCommit(r)
        <4>1. req[r].attempt \in AttemptIds /\ attempt[req[r].attempt] \in Row
          BY <3>3, RequestFields, RowStatus DEF ActivityCommit, RequestsKnow
        <4>2. QED
          BY <1>0, <3>3, <4>1 DEF ActivityCommit, Row
      <3>4. QED
        BY <1>6, <3>1, <3>2, <3>3
    <2>2. grade' = grade
      BY <1>6 DEF StartCreate, ExpireCommit, ActivityCommit
    <2>3. QED
      BY <2>1, <2>2 DEF GradeFollows, HasGrade
  <1>7. \/ attempt' = attempt /\ grade' = grade
        \/ \E r \in Requests : \/ StartCreate(r) \/ SubmitCommit(r) \/ ExpireCommit(r)
                               \/ ManualGradeCommit(r) \/ ActivityCommit(r)
        \/ \E w \in Sweepers : SweepCommit(w)
    BY DEF Next, vars, Tick, GenerateToken, SaveOverdue, Sweep, SweepBegin, SweepRead,
           SweepScore, SweepEmit, SweepAbort, Staff, Student, Abort, SetStatusRead,
           SetStatusCommit, StartRead, StartCheck, SaveRead, SaveCommit, SubmitRead,
           SubmitScore, ExpireRead, ManualGradeRead, ActivityRead
  <1>8. QED
    BY <1>1, <1>3, <1>4, <1>5, <1>6, <1>7

LEMMA GradeIffFinishedStep ==
  ASSUME TypeOK, RequestsKnow, SweepsKnow, GradeIffFinished, [Next]_vars
  PROVE  GradeIffFinished'
  <1> SUFFICES ASSUME NEW a \in AttemptIds
               PROVE  /\ HasGrade(a)' => Ended(a)'
                      /\ attempt'[a].status \in {"SUBMITTED", "AUTO_SUBMITTED"}
                          /\ attempt'[a].student \in Enrolled => HasGrade(a)'
    BY DEF GradeIffFinished, HasGrade
  <1>1. /\ HasGrade(a) => Ended(a)
        /\ attempt[a].status \in {"SUBMITTED", "AUTO_SUBMITTED"}
            /\ attempt[a].student \in Enrolled => HasGrade(a)
    BY DEF GradeIffFinished, HasGrade
  <1>2. GradeFollows(a)
    BY GradeStep
  <1>3. HasGrade(a)' => Ended(a)'
    BY <1>1, <1>2, RowStatus, KeptRow DEF GradeFollows
  <1>4. CASE attempt[a].status \in {"SUBMITTED", "AUTO_SUBMITTED"}
    <2>1. Exists(a)
      BY <1>4, RowStatus DEF Ended, Status
    <2>2. attempt'[a].student = attempt[a].student
      BY <2>1, KeptRow
    <2>3. QED
      BY <1>1, <1>2, <1>3, <1>4, <2>2 DEF GradeFollows
  <1>5. CASE attempt[a].status \notin {"SUBMITTED", "AUTO_SUBMITTED"}
    BY <1>2, <1>3, <1>5 DEF GradeFollows
  <1>6. QED
    BY <1>4, <1>5

-----------------------------------------------------------------------------
(* The inductive invariant and the theorems *)

LEMMA InitInv ==
  ASSUME Init
  PROVE  IInv
  <1>1. TypeOK
    <2>1. /\ now \in Time /\ exam \in ExamStatus /\ log \subseteq LogRow
          /\ session \in [token : Tokens \cup {None}, expires : Int]
          /\ attempt \in [AttemptIds -> Row \cup {NoRow}]
          /\ grade \in [AttemptIds \X Semesters -> GradeRow \cup {NoGrade}]
          /\ req \in [Requests -> Request]
          /\ pushed \subseteq AttemptIds /\ told \subseteq AttemptIds
      BY TimeAssumption DEF Init, Time, ExamStatus, Request
    <2>2. Resting \in Sweeper
      BY EmptyPartial DEF Resting, Sweeper
    <2>3. QED
      BY <2>1, <2>2 DEF TypeOK, Init
  <1>2. \A a \in AttemptIds : ~Exists(a) /\ ~Ended(a)
    BY DEF Init, Exists, Ended, NoRow, Status
  <1>3. RequestsKnow
    BY DEF Init, RequestsKnow, Idle
  <1>4. SweepsKnow
    BY DEF Init, SweepsKnow, Resting
  <1>5. UniqueSeats /\ AutosaveOnce /\ PushedOnlyFinished
    BY <1>2 DEF Init, UniqueSeats, AutosaveOnce, PushedOnlyFinished
  <1>6. GradeIffFinished
    <2>1. \A a \in AttemptIds : attempt[a].status \notin {"SUBMITTED", "AUTO_SUBMITTED"}
      BY <1>2 DEF Ended, Status
    <2>2. \A a \in AttemptIds, x \in Semesters : grade[<<a, x>>] = NoGrade
      BY DEF Init
    <2>3. QED
      BY <2>1, <2>2 DEF GradeIffFinished
  <1>7. QED
    BY <1>1, <1>3, <1>4, <1>5, <1>6 DEF IInv

\* IInv is inductive: every reachable state, of a session of any size, satisfies it.
THEOREM Invariance == Spec => []IInv
  <1>1. Init => IInv
    BY InitInv
  <1>2. IInv /\ [Next]_vars => IInv'
    BY TypeStep, RequestsKnowStep, SweepsKnowStep, UniqueSeatsStep, AutosaveOnceStep,
       GradeIffFinishedStep, PushedOnlyFinishedStep
       DEF IInv
  <1>3. QED
    BY <1>1, <1>2, PTL DEF Spec

\* Every row, grade, request and sweep keeps its type, statuses included.
THEOREM TypeCorrect == Spec => []TypeOK
  <1>1. IInv => TypeOK
    BY DEF IInv
  <1>2. QED
    BY <1>1, Invariance, PTL

\* However the starts of several clients interleave, a student has one attempt and a
\* session token opens one attempt (start, exam-attempt.service.ts).
THEOREM SeatsAreUnique == Spec => []UniqueSeats
  <1>1. IInv => UniqueSeats
    BY DEF IInv
  <1>2. QED
    BY <1>1, Invariance, PTL

\* A retried autosave never doubles an answer (saveAnswers).
THEOREM AutosaveIsIdempotent == Spec => []AutosaveOnce
  <1>1. IInv => AutosaveOnce
    BY DEF IInv
  <1>2. QED
    BY <1>1, Invariance, PTL

\* The status and the Grade of an attempt go together, whoever finalised it last
\* (submit, autoSubmitExpired, markExpired, manualGrade).
THEOREM GradesFollowStatus == Spec => []GradeIffFinished
  <1>1. IInv => GradeIffFinished
    BY DEF IInv
  <1>2. QED
    BY <1>1, Invariance, PTL

\* Only rooms of attempts that ended are told to stop (autoSubmitExpired emits after the
\* batch has committed).
THEOREM PushesAreTrue == Spec => []PushedOnlyFinished
  <1>1. IInv => PushedOnlyFinished
    BY DEF IInv
  <1>2. QED
    BY <1>1, Invariance, PTL

-----------------------------------------------------------------------------
(* Refinement of ExamSeat *)

LEMMA SeatInit ==
  ASSUME Init
  PROVE  Seat!Init
  <1>1. \A a \in AttemptIds : ~Exists(a)
    BY DEF Init, Exists
  <1>2. \A s \in Students : SeatOf[s] = "none"
    BY <1>1 DEF SeatOf, HasRow
  <1>3. QED
    BY <1>1, <1>2 DEF Seat!Init, SeatOf, SpentOf, TokenFree

\* A start that creates its row opens one seat with one unspent token.
LEMMA CreateOpensSeat ==
  ASSUME IInv, NEW r \in Requests, NEW c \in AttemptIds, Creates(r, c),
         NEW s \in Students, NEW t \in Tokens, s = req[r].student, t = req[r].token
  PROVE  Seat!Open(s, t)
  <1> DEFINE new == NewRow(s, t, req[r].at)
  <1>0. attempt \in [AttemptIds -> Row \cup {NoRow}]
    BY DEF IInv, TypeOK
  <1>1. new.student = s /\ new.token = t /\ new.status = "IN_PROGRESS" /\ new # NoRow
    BY DEF NewRow, NoRow
  <1>2. attempt' = [attempt EXCEPT ![c] = new] /\ ~Exists(c) /\ StudentFree(s) /\ TokenFree(t)
    BY DEF Creates, UniqueKeys
  <1> HIDE DEF new
  <1>3. /\ attempt'[c] = new
        /\ \A a \in AttemptIds : a # c => attempt'[a] = attempt[a]
    BY <1>0, <1>2
  <1>4. ~HasRow(s) /\ HasRow(s)' /\ Running(s)'
    BY <1>1, <1>2, <1>3 DEF HasRow, Running, StudentFree, Exists, Open
  <1>5. ASSUME NEW u \in Students, u # s
        PROVE  (HasRow(u)' <=> HasRow(u)) /\ (Running(u)' <=> Running(u))
    BY <1>1, <1>2, <1>3, <1>5 DEF HasRow, Running, Exists, Open
  <1>6. SeatOf[s] = "none" /\ SeatOf' = [SeatOf EXCEPT ![s] = "open"]
    BY <1>0, <1>4, <1>5 DEF SeatOf
  <1>7. SpentOf' = SpentOf \cup {t} /\ t \notin SpentOf
    BY <1>0, <1>1, <1>2, <1>3 DEF SpentOf, TokenFree, Exists
  <1>8. QED
    BY <1>6, <1>7 DEF Seat!Open

\* Every other step closes the seats whose rows it ends, possibly none.
LEMMA KeepClosesSeats ==
  ASSUME IInv, [Next]_vars, \A a \in AttemptIds : Keeps(a)
  PROVE  \E S \in SUBSET Students : Seat!Close(S)
  <1>1. ASSUME NEW a \in AttemptIds
        PROVE  /\ Exists(a)' <=> Exists(a)
               /\ Exists(a) => /\ attempt'[a].student = attempt[a].student
                               /\ attempt'[a].token = attempt[a].token
               /\ Open(a)' => Open(a)
    <2>1. TypeOK
      BY DEF IInv
    <2>2. CASE attempt'[a] = attempt[a]
      BY <2>2 DEF Exists, Open
    <2>3. CASE Updates(a)
      <3>1. attempt'[a] # NoRow
        BY <2>3 DEF Updates, Row, NoRow
      <3>2. attempt'[a].status = "IN_PROGRESS" => Open(a)
        BY <2>1, <2>3, RowStatus DEF Updates
      <3>3. QED
        BY <2>3, <3>1, <3>2 DEF Updates, Exists, Open
    <2>4. QED
      BY <2>2, <2>3 DEF Keeps
  <1>2. ASSUME NEW s \in Students
        PROVE  (HasRow(s)' <=> HasRow(s)) /\ (Running(s)' => Running(s))
    BY <1>1, <1>2 DEF HasRow, Running
  <1>3. SpentOf' = SpentOf
    BY <1>1 DEF SpentOf, TokenFree
  <1> DEFINE S == {s \in Students : Running(s) /\ ~Running(s)'}
  <1>4. \A s \in S : SeatOf[s] = "open"
    BY DEF SeatOf, HasRow, Running
  <1>5. SeatOf' = [s \in Students |-> IF s \in S THEN "closed" ELSE SeatOf[s]]
    <2>1. \A s \in Students : Running(s) => HasRow(s)
      BY DEF HasRow, Running
    <2>2. QED
      BY <1>2, <2>1 DEF SeatOf
  <1>6. Seat!Close(S)
    BY <1>3, <1>4, <1>5 DEF Seat!Close
  <1>7. QED
    BY <1>6

\* The session implements ExamSeat: a seat is opened once, with a token nobody has spent,
\* and stays closed, whichever handlers overwrite the status behind it.
THEOREM Refinement == Spec => SeatSpec
  <1>1. Init => Seat!Init
    BY SeatInit
  <1>2. IInv /\ [Next]_vars => [Seat!Next]_(Seat!vars)
    <2>1. ASSUME IInv, [Next]_vars PROVE Seat!Next
      <3>1. CASE \A a \in AttemptIds : Keeps(a)
        BY <2>1, <3>1, KeepClosesSeats DEF Seat!Next
      <3>2. ASSUME NEW r \in Requests, NEW c \in AttemptIds, Creates(r, c) PROVE Seat!Next
        <4>1. req[r].student \in Students /\ req[r].token \in Tokens
          BY <2>1, <3>2, RequestFields DEF IInv, Creates, StartCreate
        <4>2. PICK s \in Students, t \in Tokens : s = req[r].student /\ t = req[r].token
          BY <4>1
        <4>3. Seat!Open(s, t)
          BY <2>1, <3>2, <4>2, CreateOpensSeat
        <4>4. QED
          BY <4>3 DEF Seat!Next
      <3>3. QED
        BY <2>1, <3>1, <3>2, AttemptStep DEF IInv
    <2>2. QED
      BY <2>1
  <1>3. QED
    BY <1>1, <1>2, Invariance, PTL DEF Spec, SeatSpec, Seat!Spec
-----------------------------------------------------------------------------
(***************************************************************************)
(* Scores.  A score is computed from the log in one step and written, or   *)
(* carried by a request or a sweep to a later step, in the next; the log   *)
(* only grows, so it stays a score of saved answers all the while.         *)
(***************************************************************************)
WasSaved(a, f, entries) ==
    \A q \in Questions :
        f[q] = None \/ \E e \in entries : e.attempt = a /\ e.question = q /\ e.answer = f[q]

AttemptScores ==
    \A a \in AttemptIds :
        Exists(a) /\ attempt[a].auto # None => WasSaved(a, attempt[a].auto, log)
GradeScores ==
    \A a \in AttemptIds, x \in Semesters :
        grade[<<a, x>>] # NoGrade => WasSaved(a, grade[<<a, x>>].auto, log)
RequestScores ==
    \A r \in Requests :
        req[r].op = "submit" /\ req[r].auto # None => WasSaved(req[r].attempt, req[r].auto, log)
SweepScores ==
    \A w \in Sweepers : \A a \in DOMAIN sweep[w].auto : WasSaved(a, sweep[w].auto[a], log)

ScoresInv == AttemptScores /\ GradeScores /\ RequestScores /\ SweepScores

LEMMA LogGrows ==
  ASSUME [Next]_vars
  PROVE  log \subseteq log'
  BY DEF Next, vars, Tick, GenerateToken, SaveOverdue, Sweep, SweepBegin, SweepRead,
         SweepScore, SweepCommit, SweepEmit, SweepAbort, Staff, Student, Abort,
         SetStatusRead, SetStatusCommit, StartRead, StartCheck, StartCreate, SaveRead,
         SaveCommit, SubmitRead, SubmitScore, SubmitCommit, ExpireRead, ExpireCommit,
         ManualGradeRead, ManualGradeCommit, ActivityRead, ActivityCommit

LEMMA SavedStays ==
  ASSUME NEW a, NEW f, NEW early, NEW late, early \subseteq late, WasSaved(a, f, early)
  PROVE  WasSaved(a, f, late)
  BY DEF WasSaved

\* latestAnswersByQuestion takes what it returns from the rows it is given.
LEMMA LatestWereSaved ==
  ASSUME NEW a, NEW f \in LatestAnswers(LogOf(a))
  PROVE  WasSaved(a, f, log)
  <1> SUFFICES ASSUME NEW q \in Questions, f[q] # None
               PROVE  \E e \in log : e.attempt = a /\ e.question = q /\ e.answer = f[q]
    BY DEF WasSaved
  <1> DEFINE mine == {e \in LogOf(a) : e.question = q}
  <1>1. mine # {} /\ \E e \in mine : f[q] = e.answer
    BY DEF LatestAnswers
  <1> QED
    BY <1>1 DEF LogOf

\* Nothing but a finalisation writes the score of a row.
LEMMA FinalizedScore ==
  ASSUME NEW row \in Row, NEW old \in Row, NEW target, NEW auto
  PROVE  /\ Finalized(row, old, target, auto).auto = auto
         /\ Warned(row, old).auto = row.auto
  BY DEF Finalized, Warned, Row

\* The Grades of other attempts stay, and what writeGrade writes is its score.
LEMMA GradedScore ==
  ASSUME grade \in [AttemptIds \X Semesters -> GradeRow \cup {NoGrade}],
         NEW a \in AttemptIds, NEW old, NEW auto, NEW b \in AttemptIds, NEW x \in Semesters
  PROVE  \/ Graded(grade, a, old, auto)[<<b, x>>] = grade[<<b, x>>]
         \/ b = a /\ Graded(grade, a, old, auto)[<<b, x>>].auto = auto
  BY DEF Graded, NoGrade, GradeRow

LEMMA AttemptScoresStep ==
  ASSUME TypeOK, RequestsKnow, SweepsKnow, ScoresInv, [Next]_vars, NEW a \in AttemptIds
  PROVE  \/ attempt'[a] = attempt[a]
         \/ attempt'[a].auto = None
         \/ Exists(a) /\ attempt'[a].auto = attempt[a].auto
         \/ WasSaved(a, attempt'[a].auto, log)
  <1> DEFINE Goal == \/ attempt'[a] = attempt[a]
                     \/ attempt'[a].auto = None
                     \/ Exists(a) /\ attempt'[a].auto = attempt[a].auto
                     \/ WasSaved(a, attempt'[a].auto, log)
  <1>0. attempt \in [AttemptIds -> Row \cup {NoRow}]
    BY DEF TypeOK
  <1>1. ASSUME NEW r \in Requests, StartCreate(r) PROVE Goal
    BY <1>0, <1>1 DEF StartCreate, NewRow
  <1>2. ASSUME NEW r \in Requests, SubmitCommit(r), a = req[r].attempt PROVE Goal
    <2>1. attempt[a] \in Row /\ req[r].snap \in Row /\ WasSaved(a, req[r].auto, log)
      BY <1>2, RequestFields, RowStatus DEF SubmitCommit, RequestsKnow, ScoresInv, RequestScores
    <2>2. attempt'[a] = Finalized(attempt[a], req[r].snap, req[r].target, req[r].auto)
      BY <1>0, <1>2 DEF SubmitCommit
    <2>3. attempt'[a].auto = req[r].auto
      BY <2>1, <2>2, FinalizedScore
    <2> QED
      BY <2>1, <2>3
  <1>3. ASSUME NEW w \in Sweepers, SweepCommit(w), a \in DOMAIN sweep[w].snap PROVE Goal
    <2>1. /\ attempt[a] \in Row /\ sweep[w].snap[a] \in Row
          /\ WasSaved(a, sweep[w].auto[a], log)
      BY <1>3, SweepFields DEF SweepCommit, SweepsKnow, ScoresInv, SweepScores
    <2>2. attempt'[a] =
            Finalized(attempt[a], sweep[w].snap[a], "AUTO_SUBMITTED", sweep[w].auto[a])
      BY <1>3 DEF SweepCommit
    <2>3. attempt'[a].auto = sweep[w].auto[a]
      BY <2>1, <2>2, FinalizedScore
    <2> QED
      BY <2>1, <2>3
  <1>4. ASSUME NEW r \in Requests, ExpireCommit(r), a = req[r].attempt PROVE Goal
    <2>1. Exists(a) /\ attempt[a] \in Row
      BY <1>4, RequestFields, RowStatus DEF ExpireCommit, RequestsKnow
    <2> QED
      BY <1>0, <1>4, <2>1 DEF ExpireCommit, Row
  <1>5. ASSUME NEW r \in Requests, ManualGradeCommit(r), a = req[r].attempt PROVE Goal
    <2> DEFINE marked == [attempt[a] EXCEPT !.manual = req[r].mark]
    <2>1. Exists(a) /\ attempt[a] \in Row /\ req[r].snap \in Row /\ req[r].mark \in Marks
      BY <1>5, RequestFields, RowStatus DEF ManualGradeCommit, RequestsKnow
    <2>2. attempt'[a] = Warned(marked, req[r].snap)
      BY <1>0, <1>5 DEF ManualGradeCommit
    <2>3. marked \in Row /\ marked.auto = attempt[a].auto
      BY <2>1 DEF Row
    <2> HIDE DEF marked
    <2>4. attempt'[a].auto = attempt[a].auto
      BY <2>1, <2>2, <2>3, FinalizedScore
    <2> QED
      BY <2>1, <2>4
  <1>6. ASSUME NEW r \in Requests, ActivityCommit(r), a = req[r].attempt PROVE Goal
    <2>1. Exists(a) /\ attempt[a] \in Row
      BY <1>6, RequestFields, RowStatus DEF ActivityCommit, RequestsKnow
    <2> QED
      BY <1>0, <1>6, <2>1 DEF ActivityCommit, Row
  <1>7. ASSUME NEW r \in Requests, a # req[r].attempt,
               SubmitCommit(r) \/ ExpireCommit(r) \/ ManualGradeCommit(r) \/ ActivityCommit(r)
        PROVE  Goal
    BY <1>0, <1>7 DEF SubmitCommit, ExpireCommit, ManualGradeCommit, ActivityCommit
  <1>8. ASSUME NEW w \in Sweepers, SweepCommit(w), a \notin DOMAIN sweep[w].snap PROVE Goal
    BY <1>8 DEF SweepCommit
  <1>9. \/ attempt' = attempt
        \/ \E r \in Requests : \/ StartCreate(r) \/ SubmitCommit(r) \/ ExpireCommit(r)
                               \/ ManualGradeCommit(r) \/ ActivityCommit(r)
        \/ \E w \in Sweepers : SweepCommit(w)
    BY DEF Next, vars, Tick, GenerateToken, SaveOverdue, Sweep, SweepBegin, SweepRead,
           SweepScore, SweepEmit, SweepAbort, Staff, Student, Abort, SetStatusRead,
           SetStatusCommit, StartRead, StartCheck, SaveRead, SaveCommit, SubmitRead,
           SubmitScore, ExpireRead, ManualGradeRead, ActivityRead
  <1> QED
    BY <1>1, <1>2, <1>3, <1>4, <1>5, <1>6, <1>7, <1>8, <1>9

LEMMA GradeScoresStep ==
  ASSUME TypeOK, RequestsKnow, SweepsKnow, ScoresInv, [Next]_vars,
         NEW a \in AttemptIds, NEW x \in Semesters
  PROVE  \/ grade'[<<a, x>>] = grade[<<a, x>>]
         \/ WasSaved(a, grade'[<<a, x>>].auto, log)
  <1> DEFINE Goal == \/ grade'[<<a, x>>] = grade[<<a, x>>]
                     \/ WasSaved(a, grade'[<<a, x>>].auto, log)
  <1>0. grade \in [AttemptIds \X Semesters -> GradeRow \cup {NoGrade}]
    BY DEF TypeOK
  <1>1. ASSUME NEW r \in Requests, SubmitCommit(r) PROVE Goal
    <2>1. /\ req[r].attempt \in AttemptIds /\ WasSaved(req[r].attempt, req[r].auto, log)
          /\ grade' = Graded(grade, req[r].attempt, req[r].snap, req[r].auto)
      BY <1>1, RequestFields DEF SubmitCommit, ScoresInv, RequestScores
    <2> QED
      BY <1>0, <2>1, GradedScore
  <1>2. ASSUME NEW r \in Requests, ManualGradeCommit(r) PROVE Goal
    <2>1. PICK f \in LatestAnswers(LogOf(req[r].attempt)) :
            grade' = Graded(grade, req[r].attempt, req[r].snap, f)
      BY <1>2 DEF ManualGradeCommit
    <2>2. req[r].attempt \in AttemptIds /\ WasSaved(req[r].attempt, f, log)
      BY <1>2, RequestFields, LatestWereSaved DEF ManualGradeCommit
    <2> QED
      BY <1>0, <2>1, <2>2, GradedScore
  <1>3. ASSUME NEW w \in Sweepers, SweepCommit(w) PROVE Goal
    <2>1. CASE a \notin DOMAIN sweep[w].snap
      BY <1>3, <2>1 DEF SweepCommit
    <2>2. CASE a \in DOMAIN sweep[w].snap
      <3>1. WasSaved(a, sweep[w].auto[a], log)
        BY <1>3, <2>2 DEF SweepCommit, SweepsKnow, ScoresInv, SweepScores
      <3>2. grade'[<<a, x>>] = Graded(grade, a, sweep[w].snap[a], sweep[w].auto[a])[<<a, x>>]
        BY <1>3, <2>2 DEF SweepCommit
      <3> QED
        BY <1>0, <3>1, <3>2, GradedScore
    <2> QED
      BY <2>1, <2>2
  <1>4. \/ grade' = grade
        \/ \E r \in Requests : SubmitCommit(r) \/ ManualGradeCommit(r)
        \/ \E w \in Sweepers : SweepCommit(w)
    BY DEF Next, vars, Tick, GenerateToken, SaveOverdue, Sweep, SweepBegin, SweepRead,
           SweepScore, SweepEmit, SweepAbort, Staff, Student, Abort, SetStatusRead,
           SetStatusCommit, StartRead, StartCheck, StartCreate, SaveRead, SaveCommit,
           SubmitRead, SubmitScore, ExpireRead, ExpireCommit, ManualGradeRead,
           ActivityRead, ActivityCommit
  <1> QED
    BY <1>1, <1>2, <1>3, <1>4

LEMMA RequestScoresStep ==
  ASSUME TypeOK, ScoresInv, [Next]_vars, NEW r \in Requests,
         req'[r].op = "submit", req'[r].auto # None
  PROVE  WasSaved(req'[r].attempt, req'[r].auto, log)
  <1>0. req \in [Requests -> Request] /\ Idle.op = "idle"
    BY DEF TypeOK, Idle
  <1>1. CASE req'[r] = req[r]
    BY <1>1 DEF ScoresInv, RequestScores
  <1>2. CASE SubmitScore(r)
    <2>1. PICK f \in LatestAnswers(LogOf(req[r].attempt)) : req' = [req EXCEPT ![r].auto = f]
      BY <1>2 DEF SubmitScore
    <2>2. req[r] \in Request /\ req[r].op = "submit"
      BY <1>0, <1>2 DEF SubmitScore
    <2>3. /\ [req[r] EXCEPT !.auto = f].attempt = req[r].attempt
          /\ [req[r] EXCEPT !.auto = f].auto = f
      BY <2>2 DEF Request, Idle
    <2>4. req'[r].attempt = req[r].attempt /\ req'[r].auto = f
      BY <1>0, <2>1, <2>3
    <2> QED
      BY <2>4, LatestWereSaved
  <1>3. req'[r] = req[r] \/ SubmitScore(r)
    <2>1. ASSUME NEW p \in Requests, Finish(p) PROVE req'[r] = req[r]
      BY <1>0, <2>1 DEF Finish
    <2>2. ASSUME NEW p \in Requests, NEW op, NEW rec, Begin(p, op, rec),
                 rec.op # "submit" \/ rec.auto = None
          PROVE  req'[r] = req[r]
      BY <1>0, <2>2 DEF Begin
    <2>3. ASSUME NEW p \in Requests, NEW target \in DOMAIN SetStatusFrom, SetStatusRead(p, target)
          PROVE  req'[r] = req[r]
      BY <2>2, <2>3 DEF SetStatusRead
    <2>4. ASSUME NEW p \in Requests, NEW a \in AttemptIds, ExpireRead(p, a)
          PROVE  req'[r] = req[r]
      BY <2>2, <2>4 DEF ExpireRead
    <2>5. ASSUME NEW p \in Requests, NEW a \in AttemptIds, NEW m \in Marks,
                 ManualGradeRead(p, a, m)
          PROVE  req'[r] = req[r]
      BY <2>2, <2>5 DEF ManualGradeRead
    <2>6. ASSUME NEW p \in Requests, NEW s \in Students, NEW t \in Tokens, StartRead(p, s, t)
          PROVE  req'[r] = req[r]
      BY <2>2, <2>6 DEF StartRead
    <2>7. ASSUME NEW p \in Requests, NEW a \in AttemptIds, NEW k \in Keys, NEW sheet \in Sheets,
                 SaveRead(p, a, k, sheet)
          PROVE  req'[r] = req[r]
      BY <2>2, <2>7 DEF SaveRead
    <2>8. ASSUME NEW p \in Requests, NEW a \in AttemptIds, SubmitRead(p, a)
          PROVE  req'[r] = req[r]
      BY <2>2, <2>8 DEF SubmitRead
    <2>9. ASSUME NEW p \in Requests, NEW a \in AttemptIds, NEW e \in Events, ActivityRead(p, a, e)
          PROVE  req'[r] = req[r]
      BY <2>2, <2>9 DEF ActivityRead
    <2>10. ASSUME NEW p \in Requests, StartCheck(p) PROVE req'[r] = req[r]
      <3>1. CASE req' = [req EXCEPT ![p].checked = TRUE]
        <4>1. req[p] \in Request /\ req[p].op = "start"
          BY <1>0, <2>10 DEF StartCheck
        <4>2. [req[p] EXCEPT !.checked = TRUE].op = "start"
          BY <4>1 DEF Request, Idle
        <4> QED
          BY <1>0, <3>1, <4>2
      <3> QED
        BY <2>1, <2>10, <3>1 DEF StartCheck
    <2>11. ASSUME NEW p \in Requests, p # r, SubmitScore(p) PROVE req'[r] = req[r]
      BY <1>0, <2>11 DEF SubmitScore
    <2>12. ASSUME NEW p \in Requests, Staff(p) \/ Student(p) \/ Abort(p)
           PROVE  req'[r] = req[r] \/ SubmitScore(r)
      BY <2>12, <2>1, <2>3, <2>4, <2>5, <2>6, <2>7, <2>8, <2>9, <2>10, <2>11
         DEF Staff, Student, Abort, SetStatusCommit, ExpireCommit, ManualGradeCommit,
             StartCreate, SaveCommit, SubmitCommit, ActivityCommit
    <2>13. req' = req \/ \E p \in Requests : Staff(p) \/ Student(p) \/ Abort(p)
      BY DEF Next, vars, Tick, GenerateToken, SaveOverdue, Sweep, SweepBegin, SweepRead,
             SweepScore, SweepCommit, SweepEmit, SweepAbort
    <2> QED
      BY <2>12, <2>13
  <1> QED
    BY <1>1, <1>2, <1>3

LEMMA SweepScoresStep ==
  ASSUME TypeOK, ScoresInv, [Next]_vars, NEW w \in Sweepers, NEW a \in DOMAIN sweep'[w].auto
  PROVE  WasSaved(a, sweep'[w].auto[a], log)
  <1>0. sweep \in [Sweepers -> Sweeper] /\ DOMAIN Resting.auto = {}
    BY DEF TypeOK, Resting
  <1>1. CASE sweep'[w].auto = sweep[w].auto
    BY <1>1 DEF ScoresInv, SweepScores
  <1>2. ASSUME NEW v \in Sweepers, SweepScore(v) PROVE WasSaved(a, sweep'[w].auto[a], log)
    <2>1. PICK f \in [DOMAIN sweep[v].snap -> Score] :
            /\ \A b \in DOMAIN f : f[b] \in LatestAnswers(LogOf(b))
            /\ sweep' = [sweep EXCEPT ![v].pc = "commit", ![v].auto = f]
      BY <1>2 DEF SweepScore
    <2>2. CASE v = w
      <3>1. sweep'[w] = [sweep[w] EXCEPT !.pc = "commit", !.auto = f]
        BY <1>0, <2>1, <2>2
      <3>2. [sweep[w] EXCEPT !.pc = "commit", !.auto = f].auto = f
        BY <1>0 DEF Sweeper
      <3>3. sweep'[w].auto = f
        BY <3>1, <3>2
      <3> QED
        BY <2>1, <3>3, LatestWereSaved
    <2>3. CASE v # w
      BY <1>0, <1>1, <2>1, <2>3
    <2> QED
      BY <2>2, <2>3
  <1>3. ASSUME NEW v \in Sweepers, Sweep(v), ~SweepScore(v)
        PROVE  sweep'[w].auto = sweep[w].auto \/ DOMAIN sweep'[w].auto = {}
    <2>1. CASE SweepBegin(v)
      BY <1>0, <2>1 DEF SweepBegin, Resting
    <2>2. CASE SweepRead(v)
      BY <1>0, <2>2 DEF SweepRead, Resting
    <2>3. CASE SweepCommit(v)
      <3>1. [sweep[v] EXCEPT !.pc = "emit"].auto = sweep[v].auto
        BY <1>0 DEF Sweeper
      <3> QED
        BY <1>0, <2>3, <3>1 DEF SweepCommit
    <2>4. CASE SweepEmit(v)
      BY <1>0, <2>4 DEF SweepEmit, Resting
    <2>5. CASE SweepAbort(v)
      BY <1>0, <2>5 DEF SweepAbort, Resting
    <2> QED
      BY <1>3, <2>1, <2>2, <2>3, <2>4, <2>5 DEF Sweep
  <1>4. sweep' = sweep \/ \E v \in Sweepers : Sweep(v)
    BY DEF Next, vars, Tick, GenerateToken, SaveOverdue, Staff, Student, Abort, SetStatusRead,
           SetStatusCommit, StartRead, StartCheck, StartCreate, SaveRead, SaveCommit,
           SubmitRead, SubmitScore, SubmitCommit, ExpireRead, ExpireCommit, ManualGradeRead,
           ManualGradeCommit, ActivityRead, ActivityCommit
  <1> QED
    BY <1>1, <1>2, <1>3, <1>4

\* Every answer in an automatic score or in a Grade is one its attempt has saved,
\* whichever of the student's submit, the sweep and the teacher wrote the score and
\* however many autosaves arrived in between.
THEOREM GradedWereSaved == Spec => []GradedAnswersWereSaved
  <1>1. Init => ScoresInv
    BY DEF Init, ScoresInv, AttemptScores, GradeScores, RequestScores, SweepScores, Exists,
           Idle, Resting
  <1>2. IInv /\ ScoresInv /\ [Next]_vars => ScoresInv'
    <2> SUFFICES ASSUME IInv, ScoresInv, [Next]_vars PROVE ScoresInv'
      OBVIOUS
    <2>0. TypeOK /\ RequestsKnow /\ SweepsKnow /\ log \subseteq log'
      BY LogGrows DEF IInv
    <2>1. AttemptScores'
      <3> SUFFICES ASSUME NEW a \in AttemptIds, attempt'[a] # NoRow, attempt'[a].auto # None
                   PROVE  WasSaved(a, attempt'[a].auto, log')
        BY DEF AttemptScores, Exists
      <3>1. WasSaved(a, attempt'[a].auto, log)
        BY <2>0, AttemptScoresStep DEF ScoresInv, AttemptScores, Exists
      <3> QED
        BY <2>0, <3>1, SavedStays
    <2>2. GradeScores'
      <3> SUFFICES ASSUME NEW a \in AttemptIds, NEW x \in Semesters, grade'[<<a, x>>] # NoGrade
                   PROVE  WasSaved(a, grade'[<<a, x>>].auto, log')
        BY DEF GradeScores
      <3>1. WasSaved(a, grade'[<<a, x>>].auto, log)
        BY <2>0, GradeScoresStep DEF ScoresInv, GradeScores
      <3> QED
        BY <2>0, <3>1, SavedStays
    <2>3. RequestScores'
      <3> SUFFICES ASSUME NEW r \in Requests, req'[r].op = "submit", req'[r].auto # None
                   PROVE  WasSaved(req'[r].attempt, req'[r].auto, log')
        BY DEF RequestScores
      <3> QED
        BY <2>0, RequestScoresStep, SavedStays
    <2>4. SweepScores'
      <3> SUFFICES ASSUME NEW w \in Sweepers, NEW a \in DOMAIN sweep'[w].auto
                   PROVE  WasSaved(a, sweep'[w].auto[a], log')
        BY DEF SweepScores
      <3> QED
        BY <2>0, SweepScoresStep, SavedStays
    <2> QED
      BY <2>1, <2>2, <2>3, <2>4 DEF ScoresInv
  <1>3. ScoresInv => GradedAnswersWereSaved
    <2> SUFFICES ASSUME ScoresInv, NEW a \in AttemptIds, NEW q \in Questions
                 PROVE  LET saved == {e.answer : e \in {d \in LogOf(a) : d.question = q}}
                                     \cup {None}
                        IN /\ Exists(a) /\ attempt[a].auto # None => attempt[a].auto[q] \in saved
                           /\ \A x \in Semesters :
                                grade[<<a, x>>] # NoGrade => grade[<<a, x>>].auto[q] \in saved
      BY DEF GradedAnswersWereSaved
    <2>1. ASSUME NEW f, WasSaved(a, f, log)
          PROVE  f[q] \in {e.answer : e \in {d \in LogOf(a) : d.question = q}} \cup {None}
      BY <2>1 DEF WasSaved, LogOf
    <2> QED
      BY <2>1 DEF ScoresInv, AttemptScores, GradeScores
  <1> QED
    BY <1>1, <1>2, <1>3, Invariance, PTL DEF Spec

-----------------------------------------------------------------------------
(* The schedule *)

\* Every step of the scheduled system is one of ExamAttempt or leaves its rows alone.
LEMMA ScheduledStep == [AutoSubmitNext]_autoSubmitVars => [Next]_vars
  <1> SUFFICES ASSUME [AutoSubmitNext]_autoSubmitVars PROVE [Next]_vars
    OBVIOUS
  <1>1. CASE UNCHANGED autoSubmitVars
    BY <1>1 DEF autoSubmitVars
  <1>2. CASE CronEnqueues \/ JobCompletes \/ OthersBreak \/ QueueForgets
    BY <1>2 DEF CronEnqueues, JobCompletes, OthersBreak, QueueForgets
  <1>3. ASSUME NEW w \in Sweepers,
               \/ CronSweeps(w) \/ EndpointSweeps(w) \/ WorkerSweeps(w)
               \/ SweepGoesOn(w) \/ SweepBreaks(w)
        PROVE  Next
    BY <1>3 DEF CronSweeps, EndpointSweeps, WorkerSweeps, SweepGoesOn, SweepBreaks, Sweep, Next
  <1> QED
    BY <1>1, <1>2, <1>3 DEF AutoSubmitNext, Next

\* Whoever starts the sweeps, the cron of an instance, the worker of the queue or
\* the endpoint (exam-autosubmit.processor.ts:29-65), what was proved of the
\* attempts holds.
THEOREM Scheduled == AutoSubmitSpec => Spec
  <1>1. AutoSubmitInit => Init
    BY DEF AutoSubmitInit
  <1> QED
    BY <1>1, ScheduledStep, PTL DEF AutoSubmitSpec, Spec

\* A worker waits for a sweep only while its job is active, and the counters of
\* the job stay within the attempts and redeliveries BullMQ grants.
THEOREM QueueTypes == AutoSubmitSpec => []QueueTypeOK
  <1> USE DEF Queue!JobType, Queue!NoJob
  <1>1. AutoSubmitInit => QueueTypeOK
    BY JobAssumption DEF AutoSubmitInit, QueueTypeOK
  <1>2. QueueTypeOK /\ [AutoSubmitNext]_autoSubmitVars => QueueTypeOK'
    <2> SUFFICES ASSUME QueueTypeOK, [AutoSubmitNext]_autoSubmitVars PROVE QueueTypeOK'
      OBVIOUS
    <2>0. job \in Queue!JobType /\ job.tried \in Nat /\ job.stalled \in Nat
      BY JobAssumption DEF QueueTypeOK
    <2>1. ASSUME JobBreaks PROVE QueueTypeOK'
      <3>1. Queue!Thrown(job) \in Queue!JobType
        <4>1. CASE job.tried + 1 < Attempts
          <5>1. job.tried + 1 \in 0..Attempts
            BY <2>0, <4>1, JobAssumption
          <5> QED BY <2>0, <4>1, <5>1 DEF Queue!Thrown
        <4>2. CASE ~(job.tried + 1 < Attempts)
          BY <4>2, JobAssumption DEF Queue!Thrown, Queue!Ended
        <4> QED BY <4>1, <4>2
      <3>2. Queue!Redelivered(job) \in Queue!JobType
        <4>1. CASE job.stalled < Stalls
          <5>1. job.stalled + 1 \in 0..Stalls
            BY <2>0, <4>1, JobAssumption
          <5> QED BY <2>0, <4>1, <5>1 DEF Queue!Redelivered
        <4>2. CASE ~(job.stalled < Stalls)
          BY <4>2, JobAssumption DEF Queue!Redelivered, Queue!Ended
        <4> QED BY <4>1, <4>2
      <3> QED BY <2>1, <3>1, <3>2 DEF JobBreaks, QueueTypeOK
    <2>2. ASSUME UNCHANGED queueVars PROVE QueueTypeOK'
      BY <2>2 DEF queueVars, QueueTypeOK
    <2>3. CASE CronEnqueues
      BY <2>0, <2>3, JobAssumption DEF CronEnqueues, Queue!Add, QueueTypeOK
    <2>4. CASE JobCompletes
      BY <2>4, JobAssumption DEF JobCompletes, Queue!Completed, Queue!Ended, QueueTypeOK
    <2>5. CASE QueueForgets
      BY <2>5, JobAssumption DEF QueueForgets, QueueTypeOK
    <2>6. ASSUME NEW w \in Sweepers, WorkerSweeps(w) PROVE QueueTypeOK'
      BY <2>0, <2>6 DEF WorkerSweeps, Queue!Take, QueueTypeOK
    <2>7. ASSUME NEW w \in Sweepers, SweepBreaks(w) PROVE QueueTypeOK'
      BY <2>1, <2>2, <2>7 DEF SweepBreaks
    <2> QED
      BY <2>1, <2>2, <2>3, <2>4, <2>5, <2>6, <2>7
         DEF AutoSubmitNext, autoSubmitVars, queueVars, OthersBreak, CronSweeps, EndpointSweeps
  <1> QED
    BY <1>1, <1>2, PTL DEF AutoSubmitSpec
=============================================================================
