--------------------------- MODULE Payroll_proofs ---------------------------
(***************************************************************************)
(* What holds of a payroll run for every staff, any number of concurrent   *)
(* requests and any number of changes of the salary data.  A handler       *)
(* writes by id what it decided earlier, so the properties need what it    *)
(* still knows: that the run is there, and which signatures it has, for    *)
(* those are never withdrawn; and, while requests do not overlap, the      *)
(* status itself.                                                          *)
(***************************************************************************)
EXTENDS Payroll, JobQueue_proofs

\* The calls before which a handler knows the run, and those at the end of the
\* head's approval.
Signed  == {"rekap", "paid", "list-slips", "issue-slips"}
OnRun   == {"figure", "set-items", "calculated", "validated", "keuangan-signs",
            "approved", "kepsek-signs"} \cup Signed
Calls   == {"free", "find", "insert", "job-find", "job-insert"} \cup OnRun

HandlerTypes == /\ at \in [Handlers -> Calls]
                /\ held \in [Handlers -> Held \cup {None}]
                /\ \A h \in Handlers : at[h] \in OnRun => held[h] \in Held /\ run # None

\* Which signatures a handler has seen or set.
SignaturesKnown ==
    \A h \in Handlers :
        /\ at[h] \in {"approved", "kepsek-signs"} \cup Signed => run.keuangan
        /\ at[h] \in Signed => run.kepsek

PayrollInv == /\ PayrollTypeOK /\ HandlerTypes /\ SignaturesKnown
              /\ PaidWasSigned /\ CompletedJobHasRun

LEMMA StagesOfTransitions ==
    /\ Transitions["DRAFT"] = {"CALCULATED"}
    /\ Transitions["CALCULATED"] = {"VALIDATED", "DRAFT"}
    /\ Transitions["VALIDATED"] = {"APPROVED_KEUANGAN", "CALCULATED"}
    /\ Transitions["APPROVED_KEUANGAN"] = {"REKAP_KEPSEK", "VALIDATED"}
    /\ Transitions["REKAP_KEPSEK"] = {"PAID", "APPROVED_KEUANGAN"}
    /\ Transitions["PAID"] = {}
BY DEF Transitions, States

LEMMA ItemsFacts ==
    /\ NoItems \in Items
    /\ [Staff -> Figures] \subseteq Items
    /\ \A i \in Items : DOMAIN i \subseteq Staff /\ \A t \in DOMAIN i : i[t] \in Figures
BY DEF Items, NoItems

\* The record a handler keeps, whatever it reads.
LEMMA RecordTypes ==
    ASSUME NEW s \in States, NEW i \in Items, NEW H \in SUBSET Staff
    PROVE  Record(s, i, H) \in Held
BY DEF Record, Held

LEMMA HeldTypes ==
    ASSUME NEW x \in Held, NEW i \in Items, NEW H \in SUBSET Staff
    PROVE  [x EXCEPT !.items = i] \in Held /\ [x EXCEPT !.have = H] \in Held
BY DEF Held

LEMMA RowTypes ==
    ASSUME NEW r \in Runs, NEW s \in States, NEW i \in Items
    PROVE  /\ [r EXCEPT !.status = s] \in Runs /\ [r EXCEPT !.items = i] \in Runs
           /\ [r EXCEPT !.keuangan = TRUE] \in Runs /\ [r EXCEPT !.kepsek = TRUE] \in Runs
           /\ Draft \in Runs
BY ItemsFacts DEF Runs, Draft, States

LEMMA InitInv == PayrollInit => PayrollInv
<1> SUFFICES ASSUME PayrollInit PROVE PayrollInv
  OBVIOUS
<1>1. wages \in [Staff -> Figures]
  BY PayrollAssumption DEF PayrollInit
<1>2. PayrollTypeOK
  BY <1>1, ItemsFacts, NoJobType, PayrollAssumption DEF PayrollInit, PayrollTypeOK
<1>3. HandlerTypes /\ SignaturesKnown
  BY DEF PayrollInit, RequestsInit, HandlerTypes, SignaturesKnown, Calls, OnRun, Signed
<1> QED BY <1>2, <1>3 DEF PayrollInv, PayrollInit, PaidWasSigned, CompletedJobHasRun, NoJob

-----------------------------------------------------------------------------
(* Two shapes of steps: those that leave the run and the payslips alone,   *)
(* and those that write the run.                                           *)

\* The request goes to another call; it may take what it knows along.
LEMMA MoveStep ==
    ASSUME PayrollInv, NEW h \in Handlers, NEW call \in Calls, NEW x,
           Goto(h, call, x), x \in Held \cup {None},
           UNCHANGED <<run, slips, raises>>, wages' \in Items,
           payJob' \in JobType, CompletedJobHasRun',
           call \in OnRun => x \in Held /\ run # None,
           call \in {"approved", "kepsek-signs"} \cup Signed => run.keuangan,
           call \in Signed => run.kepsek
    PROVE  PayrollInv'
<1>1. PayrollTypeOK'
  BY DEF PayrollInv, PayrollTypeOK
<1>2. HandlerTypes'
  BY DEF PayrollInv, HandlerTypes, Goto
<1>3. SignaturesKnown'
  BY DEF PayrollInv, HandlerTypes, SignaturesKnown, Goto
<1> QED BY <1>1, <1>2, <1>3 DEF PayrollInv, PaidWasSigned

\* The run is written: signatures are never withdrawn, the status goes up only
\* with the signatures it needs.
LEMMA WriteStep ==
    ASSUME PayrollInv, NEW h \in Handlers, at[h] \in OnRun, NEW call \in Calls, NEW x,
           Goto(h, call, x), x \in Held \cup {None}, call \in OnRun => x \in Held,
           UNCHANGED <<wages, raises, slips, payJob>>,
           run' \in Runs, run.keuangan => run'.keuangan, run.kepsek => run'.kepsek,
           run'.status \in {"APPROVED_KEUANGAN", "REKAP_KEPSEK", "PAID"} => run'.keuangan,
           run'.status \in {"REKAP_KEPSEK", "PAID"} => run'.kepsek,
           call \in {"approved", "kepsek-signs"} \cup Signed => run'.keuangan,
           call \in Signed => run'.kepsek
    PROVE  PayrollInv'
<1>1. run # None /\ run' # None /\ run \in Runs
  BY PayrollRowAssumption DEF PayrollInv, HandlerTypes, PayrollTypeOK
<1>2. PayrollTypeOK'
  BY DEF PayrollInv, PayrollTypeOK
<1>3. HandlerTypes'
  BY <1>1 DEF PayrollInv, HandlerTypes, Goto
<1>4. SignaturesKnown'
  BY <1>1 DEF PayrollInv, HandlerTypes, SignaturesKnown, Goto
<1>5. PaidWasSigned'
  BY <1>1 DEF PayrollInv, PaidWasSigned
<1>6. CompletedJobHasRun'
  BY <1>1 DEF PayrollInv, CompletedJobHasRun
<1> QED BY <1>2, <1>3, <1>4, <1>5, <1>6 DEF PayrollInv

-----------------------------------------------------------------------------
\* Creating the run: a row appears at most once, and a job that completes has
\* seen one.
LEMMA CreateSteps ==
    ASSUME PayrollInv, NEW h \in Handlers,
           TakePayrollJob(h) \/ CreateInline(h) \/ FindRun(h) \/ InsertRun(h)
    PROVE  PayrollInv'
<1>1. payJob \in JobType /\ (run # None => run \in Runs)
  BY DEF PayrollInv, PayrollTypeOK
<1>2. CASE TakePayrollJob(h)
  <2>1. payJob' \in JobType /\ CompletedJobHasRun'
    BY <1>1, <1>2, JobsStayJobs, OnlyCompletedCompletes DEF TakePayrollJob, CompletedJobHasRun
  <2> QED BY <1>2, <2>1, MoveStep
          DEF TakePayrollJob, Calls, OnRun, Signed, PayrollInv, PayrollTypeOK
<1>3. CASE CreateInline(h)
  BY <1>3, MoveStep
     DEF CreateInline, payrollRows, Calls, OnRun, Signed, PayrollInv, PayrollTypeOK,
         CompletedJobHasRun
<1>4. CASE FindRun(h)
  <2>1. payJob' \in JobType /\ CompletedJobHasRun'
    BY <1>1, <1>4, JobsStayJobs, OnlyCompletedCompletes
       DEF FindRun, JobEnds, CompletedJobHasRun, PayrollInv
  <2>2. CASE run = None
    <3>1. \E call \in {"job-insert", "insert"} : Goto(h, call, None)
      BY <1>4, <2>2 DEF FindRun
    <3> QED BY <1>4, <2>1, <2>2, <3>1, MoveStep
            DEF FindRun, Calls, OnRun, Signed, PayrollInv, PayrollTypeOK
  <2>3. CASE run # None
    BY <1>4, <2>1, <2>3, MoveStep
       DEF FindRun, Answer, Calls, OnRun, Signed, PayrollInv, PayrollTypeOK
  <2> QED BY <2>2, <2>3
<1>5. CASE InsertRun(h)
  <2>1. payJob' \in JobType
    BY <1>1, <1>5, JobsStayJobs DEF InsertRun, JobEnds
  <2>2. CASE run # None
    <3>1. run' = run /\ CompletedJobHasRun'
      BY <1>5, <2>2 DEF InsertRun, CompletedJobHasRun
    <3> QED BY <1>5, <2>1, <3>1, MoveStep
            DEF InsertRun, Answer, Calls, OnRun, Signed, PayrollInv, PayrollTypeOK
  <2>3. CASE run = None
    <3>1. run' = Draft /\ Draft \in Runs /\ run' # None
      <4>1. Draft \in Runs
        BY ItemsFacts DEF Runs, Draft, States
      <4> QED BY <1>5, <2>3, <4>1, PayrollRowAssumption DEF InsertRun
    <3>2. HandlerTypes' /\ SignaturesKnown'
      <4>1. \A g \in Handlers : at'[g] \notin OnRun
        BY <1>5, <2>3 DEF PayrollInv, HandlerTypes, InsertRun, Answer, Goto, OnRun, Signed
      <4> QED BY <1>5, <4>1
              DEF PayrollInv, HandlerTypes, SignaturesKnown, InsertRun, Answer, Goto, Calls,
                  OnRun
    <3>3. PayrollTypeOK'
      BY <1>5, <2>1, <3>1 DEF InsertRun, PayrollInv, PayrollTypeOK
    <3>4. PaidWasSigned' /\ CompletedJobHasRun'
      BY <1>5, <2>3, <3>1
         DEF InsertRun, PayrollInv, PaidWasSigned, CompletedJobHasRun, Draft
    <3> QED BY <3>2, <3>3, <3>4 DEF PayrollInv
  <2> QED BY <2>2, <2>3
<1> QED BY <1>2, <1>3, <1>4, <1>5

\* The handlers that begin by reading the run.
LEMMA ReadSteps ==
    ASSUME PayrollInv, NEW h \in Handlers,
           CalculateRead(h) \/ ValidateRead(h) \/ KeuanganRead(h) \/ KepsekRead(h)
    PROVE  PayrollInv'
<1> DEFINE x == Record(run.status, NoItems, {})
<1>1. run # None /\ run \in Runs
  BY DEF CalculateRead, ValidateRead, KeuanganRead, KepsekRead, PayrollInv, PayrollTypeOK
<1>2. x \in Held
  BY <1>1, RecordTypes, ItemsFacts DEF Runs
<1> HIDE DEF x
<1>3. /\ UNCHANGED payrollRows
      /\ \/ \E call \in {"figure", "validated", "keuangan-signs"} : Goto(h, call, x)
         \/ Goto(h, "kepsek-signs", x) /\ run.status = "APPROVED_KEUANGAN"
  BY DEF CalculateRead, ValidateRead, KeuanganRead, KepsekRead, SignableByKepsek, x
<1>4. run.status = "APPROVED_KEUANGAN" => run.keuangan
  BY <1>1 DEF PayrollInv, PaidWasSigned
<1> QED BY <1>1, <1>2, <1>3, <1>4, MoveStep
        DEF payrollRows, Calls, OnRun, Signed, PayrollInv, PayrollTypeOK, CompletedJobHasRun

\* The figures, and the payslips found: nothing but the locals changes.
LEMMA LocalSteps ==
    ASSUME PayrollInv, NEW h \in Handlers, Calculate(h) \/ ListSlips(h)
    PROVE  PayrollInv'
<1>1. held[h] \in Held /\ run # None /\ at[h] \in {"figure", "list-slips"}
  BY DEF Calculate, ListSlips, PayrollInv, HandlerTypes, OnRun, Signed
<1>2. {p.staff : p \in slips} \in SUBSET Staff
  BY DEF PayrollInv, PayrollTypeOK, Slips
<1>3. CASE Calculate(h)
  <2>1. [held[h] EXCEPT !.items = wages] \in Held
    BY <1>1, HeldTypes DEF PayrollInv, PayrollTypeOK
  <2> QED BY <1>1, <1>3, <2>1, MoveStep
          DEF Calculate, payrollRows, Calls, OnRun, Signed, PayrollInv, PayrollTypeOK,
              CompletedJobHasRun
<1>4. CASE ListSlips(h)
  <2>1. [held[h] EXCEPT !.have = {p.staff : p \in slips}] \in Held
    BY <1>1, <1>2 DEF Held
  <2>2. run.keuangan /\ run.kepsek
    BY <1>4 DEF ListSlips, PayrollInv, SignaturesKnown, Signed
  <2> QED BY <1>1, <1>4, <2>1, <2>2, MoveStep
          DEF ListSlips, payrollRows, Calls, OnRun, Signed, PayrollInv, PayrollTypeOK,
              CompletedJobHasRun
<1> QED BY <1>3, <1>4

\* New figures and signatures: the status stays as it is.
LEMMA StoreSteps ==
    ASSUME PayrollInv, NEW h \in Handlers,
           SetItems(h) \/ KeuanganSigns(h) \/ KepsekSigns(h)
    PROVE  PayrollInv'
<1>1. /\ held[h] \in Held /\ run # None /\ run \in Runs
      /\ at[h] \in {"set-items", "keuangan-signs", "kepsek-signs"} /\ at[h] \in OnRun
  BY DEF SetItems, KeuanganSigns, KepsekSigns, PayrollInv, PayrollTypeOK, HandlerTypes,
         OnRun, Signed
<1>2. /\ run.status \in {"APPROVED_KEUANGAN", "REKAP_KEPSEK", "PAID"} => run.keuangan
      /\ run.status \in {"REKAP_KEPSEK", "PAID"} => run.kepsek
  BY <1>1 DEF PayrollInv, PaidWasSigned
<1>3. CASE SetItems(h)
  <2>1. /\ run' = [run EXCEPT !.items = held[h].items] /\ run' \in Runs
        /\ run'.status = run.status /\ run'.keuangan = run.keuangan
        /\ run'.kepsek = run.kepsek
    BY <1>1, <1>3, RowTypes DEF SetItems, Runs, Held
  <2>2. \/ Goto(h, "calculated", held[h])
        \/ Goto(h, "free", None)
    BY <1>3 DEF SetItems, Answer
  <2> QED BY <1>1, <1>2, <1>3, <2>1, <2>2, WriteStep DEF SetItems, Calls, OnRun, Signed
<1>4. CASE KeuanganSigns(h)
  <2>1. /\ run' = [run EXCEPT !.keuangan = TRUE] /\ run' \in Runs
        /\ run'.status = run.status /\ run'.keuangan /\ run'.kepsek = run.kepsek
    BY <1>1, <1>4, RowTypes DEF KeuanganSigns, Runs
  <2>2. \/ Goto(h, "approved", held[h])
        \/ Goto(h, "free", None)
    BY <1>4 DEF KeuanganSigns, Answer
  <2> QED BY <1>1, <1>2, <1>4, <2>1, <2>2, WriteStep DEF KeuanganSigns, Calls, OnRun, Signed
<1>5. CASE KepsekSigns(h)
  <2>1. /\ run' = [run EXCEPT !.kepsek = TRUE] /\ run' \in Runs
        /\ run'.status = run.status /\ run'.keuangan = run.keuangan /\ run'.kepsek
    BY <1>1, <1>5, RowTypes DEF KepsekSigns, Runs
  <2>2. run.keuangan
    BY <1>5 DEF KepsekSigns, PayrollInv, SignaturesKnown
  <2>3. \/ Goto(h, "rekap", held[h])
        \/ Goto(h, "free", None)
    BY <1>5 DEF KepsekSigns, Answer
  <2> QED BY <1>1, <1>2, <1>5, <2>1, <2>2, <2>3, WriteStep
          DEF KepsekSigns, Calls, OnRun, Signed
<1> QED BY <1>3, <1>4, <1>5

\* transition, by id: the status is written whatever it is by now, but only by a
\* handler that knows the signatures the status needs.
LEMMA MarkSteps ==
    ASSUME PayrollInv, NEW h \in Handlers,
           \/ MarkCalculated(h) \/ MarkValidated(h) \/ MarkApproved(h)
           \/ MarkRekap(h) \/ MarkPaid(h)
    PROVE  PayrollInv'
<1>1. PICK call \in Calls, status \in States, next \in Calls :
          /\ Mark(h, call, status, next)
          /\ <<call, status, next>> \in
                {<<"calculated", "CALCULATED", "free">>, <<"validated", "VALIDATED", "free">>,
                 <<"approved", "APPROVED_KEUANGAN", "free">>,
                 <<"rekap", "REKAP_KEPSEK", "paid">>, <<"paid", "PAID", "list-slips">>}
  BY DEF MarkCalculated, MarkValidated, MarkApproved, MarkRekap, MarkPaid, Calls, OnRun,
         Signed, States
<1>2. /\ at[h] = call /\ call \in OnRun /\ held[h] \in Held /\ run # None /\ run \in Runs
  BY <1>1 DEF Mark, PayrollInv, PayrollTypeOK, HandlerTypes, OnRun, Signed
<1>3. /\ run' = [run EXCEPT !.status = status] /\ run' \in Runs
      /\ run'.status = status /\ run'.keuangan = run.keuangan /\ run'.kepsek = run.kepsek
  BY <1>1, <1>2, RowTypes DEF Mark, Runs
<1> DEFINE x == IF next = "free" THEN None ELSE [held[h] EXCEPT !.items = run.items]
<1>4. x \in Held \cup {None} /\ (next # "free" => x \in Held)
  <2>1. [held[h] EXCEPT !.items = run.items] \in Held
    BY <1>2 DEF Held, Runs
  <2> QED BY <2>1
<1>5. Goto(h, next, x) /\ UNCHANGED <<wages, raises, slips, payJob>>
  BY <1>1 DEF Mark
<1> HIDE DEF x
<1>6. /\ call \in {"approved", "rekap", "paid"} => run.keuangan
      /\ call \in {"rekap", "paid"} => run.kepsek
  BY <1>2 DEF PayrollInv, SignaturesKnown, Signed
<1> QED BY <1>1, <1>2, <1>3, <1>4, <1>5, <1>6, WriteStep DEF OnRun, Signed

\* The payslips: only a handler that knows both signatures issues them.
LEMMA SlipStep ==
    ASSUME PayrollInv, NEW h \in Handlers, IssueSlips(h)
    PROVE  PayrollInv'
<1>1. held[h] \in Held /\ run # None /\ run.keuangan /\ run.kepsek
  BY DEF IssueSlips, PayrollInv, HandlerTypes, SignaturesKnown, OnRun, Signed
<1>2. slips' \subseteq Slips
  <2>1. \A t \in DOMAIN held[h].items : t \in Staff /\ held[h].items[t] \in Figures
    BY <1>1, ItemsFacts DEF Held
  <2> QED BY <2>1 DEF IssueSlips, PayrollInv, PayrollTypeOK, Slips
<1>3. PayrollTypeOK'
  BY <1>2 DEF IssueSlips, PayrollInv, PayrollTypeOK
<1>4. HandlerTypes' /\ SignaturesKnown'
  BY DEF IssueSlips, PayrollInv, HandlerTypes, SignaturesKnown, Answer, Goto, Calls, OnRun,
         Signed
<1> QED BY <1>1, <1>3, <1>4
        DEF IssueSlips, PayrollInv, PaidWasSigned, CompletedJobHasRun

\* Failures, the job and the salary data: the run stays.
LEMMA WorldSteps ==
    ASSUME PayrollInv,
           \/ AskForRun \/ WagesChange \/ PayrollJobForgotten
           \/ \E h \in Handlers : PayrollFails(h)
    PROVE  PayrollInv'
<1>1. payJob \in JobType
  BY DEF PayrollInv, PayrollTypeOK
<1>2. payJob' \in JobType /\ CompletedJobHasRun'
  <2>1. CASE AskForRun
    BY <1>1, <2>1, JobsStayJobs, OnlyCompletedCompletes DEF AskForRun, CompletedJobHasRun
  <2>2. CASE WagesChange
    BY <1>1, <2>2 DEF WagesChange, CompletedJobHasRun, PayrollInv
  <2>3. CASE PayrollJobForgotten
    BY <2>3, NoJobType DEF PayrollJobForgotten, CompletedJobHasRun, NoJob
  <2>4. CASE \E h \in Handlers : PayrollFails(h)
    <3>1. PICK h \in Handlers : PayrollFails(h)
      BY <2>4
    <3>2. payJob' \in {payJob, Thrown(payJob), Redelivered(payJob)} /\ run' = run
      BY <3>1 DEF PayrollFails, JobAfterFailure
    <3> QED BY <1>1, <3>2, JobsStayJobs, OnlyCompletedCompletes
            DEF CompletedJobHasRun, PayrollInv
  <2> QED BY <2>1, <2>2, <2>3, <2>4
<1>3. CASE \E h \in Handlers : PayrollFails(h)
  <2>1. PICK h \in Handlers : PayrollFails(h)
    BY <1>3
  <2> QED BY <1>2, <2>1, MoveStep
          DEF PayrollFails, Answer, Calls, OnRun, Signed, PayrollInv, PayrollTypeOK
<1>4. CASE AskForRun \/ WagesChange \/ PayrollJobForgotten
  <2>1. UNCHANGED <<requestVars, run, slips>>
    BY <1>4 DEF AskForRun, WagesChange, PayrollJobForgotten
  <2>2. wages' \in Items /\ raises' \in 0..MaxRaises
    BY <1>4, PayrollAssumption
       DEF AskForRun, WagesChange, PayrollJobForgotten, PayrollInv, PayrollTypeOK
  <2>3. PayrollTypeOK'
    BY <1>2, <2>1, <2>2 DEF PayrollInv, PayrollTypeOK
  <2> QED BY <1>2, <2>1, <2>3
          DEF PayrollInv, HandlerTypes, SignaturesKnown, PaidWasSigned, requestVars
<1> QED BY <1>3, <1>4

LEMMA NextInv == PayrollInv /\ [PayrollNext]_payrollVars => PayrollInv'
<1> SUFFICES ASSUME PayrollInv, [PayrollNext]_payrollVars PROVE PayrollInv'
  OBVIOUS
<1>1. CASE UNCHANGED payrollVars
  BY <1>1 DEF PayrollInv, PayrollTypeOK, HandlerTypes, SignaturesKnown, PaidWasSigned,
              CompletedJobHasRun, payrollVars, payrollRows, requestVars
<1>2. CASE PayrollNext
  BY <1>2, CreateSteps, ReadSteps, LocalSteps, StoreSteps, MarkSteps, SlipStep, WorldSteps
     DEF PayrollNext, PayrollStep
<1> QED BY <1>1, <1>2

THEOREM Invariance == PayrollSpec => []PayrollInv
BY InitInv, NextInv, PTL DEF PayrollSpec

-----------------------------------------------------------------------------
\* However the requests overlap, no run counts as approved or paid, and no
\* payslip exists, without the signatures (payroll-run.service.ts: the
\* signature is stored before the transition, and nothing withdraws it).
THEOREM SignaturesPrecedePay == PayrollSpec => []PaidWasSigned
BY Invariance, PTL DEF PayrollInv

\* The job payroll.run reports success only when the row of the period's run exists
\* (payroll.processor.ts), through retries, redeliveries and inline creation.
\* Whether the run was calculated, it does not say.
THEOREM SuccessIsTrue == PayrollSpec => []CompletedJobHasRun
BY Invariance, PTL DEF PayrollInv

-----------------------------------------------------------------------------
(* While requests do not overlap.                                          *)

\* What a handler has seen of the run is still so: its status has not moved
\* since the handler checked it, and no payslip exists before the last call.
StageHolds(call, x) ==
    /\ call \in {"figure", "set-items"} => run.status \in {"DRAFT", "CALCULATED"}
    /\ call = "calculated" => run.status = "DRAFT"
    /\ call = "validated" => run.status = "CALCULATED"
    /\ call \in {"keuangan-signs", "approved"} => run.status = "VALIDATED"
    /\ call \in {"kepsek-signs", "rekap"} => run.status = "APPROVED_KEUANGAN"
    /\ call = "paid" => run.status = "REKAP_KEPSEK"
    /\ call \in {"list-slips", "issue-slips"} =>
          run.status = "PAID" /\ slips = {} /\ x.items = run.items

SlipsOfPaid == slips # {} => run # None /\ run.status = "PAID"

AloneInv == alone =>
    /\ \A g, h \in Handlers : at[g] # "free" /\ at[h] # "free" => g = h
    /\ \A h \in Handlers : StageHolds(at[h], held[h])
    /\ SlipsOfPaid /\ OneSlipAsPaid

LEMMA InitAlone == PayrollInit => AloneInv
BY DEF PayrollInit, RequestsInit, AloneInv, StageHolds, SlipsOfPaid, OneSlipAsPaid

\* Only the handler that moves has anything to preserve.
LEMMA AloneStep ==
    ASSUME HandlerTypes, AloneInv, alone, NEW h \in Handlers, NEW call \in Calls, NEW x,
           Goto(h, call, x), x \in Held \cup {None},
           at[h] # "free" \/ MayStart(h),
           StageHolds(call, x)', SlipsOfPaid', OneSlipAsPaid'
    PROVE  AloneInv'
<1>1. \A g \in Handlers \ {h} : at'[g] = "free"
  BY DEF AloneInv, Goto, HandlerTypes, MayStart
<1>2. at'[h] = call /\ held'[h] = x
  BY DEF Goto, HandlerTypes
<1>3. \A g \in Handlers : StageHolds(at[g], held[g])'
  BY <1>1, <1>2 DEF StageHolds
<1> QED BY <1>1, <1>3 DEF AloneInv

\* A step that changes neither the run nor the payslips.
LEMMA StillAlone ==
    ASSUME HandlerTypes, AloneInv, alone, NEW h \in Handlers, NEW call \in Calls, NEW x,
           Goto(h, call, x), x \in Held \cup {None},
           at[h] # "free" \/ MayStart(h),
           UNCHANGED <<run, slips>>, StageHolds(call, x)
    PROVE  AloneInv'
<1>1. StageHolds(call, x)'
  BY DEF StageHolds
<1>2. SlipsOfPaid' /\ OneSlipAsPaid'
  BY DEF AloneInv, SlipsOfPaid, OneSlipAsPaid, Goto
<1> QED BY <1>1, <1>2, AloneStep

\* A step that writes a run of which there are no payslips yet.
LEMMA WriteAlone ==
    ASSUME HandlerTypes, AloneInv, alone, NEW h \in Handlers, NEW call \in Calls, NEW x,
           Goto(h, call, x), x \in Held \cup {None},
           at[h] # "free", slips = {}, slips' = {}, StageHolds(call, x)'
    PROVE  AloneInv'
BY AloneStep DEF SlipsOfPaid, OneSlipAsPaid

LEMMA CreateAlone ==
    ASSUME PayrollInv, AloneInv, alone, NEW h \in Handlers,
           TakePayrollJob(h) \/ CreateInline(h) \/ FindRun(h) \/ InsertRun(h)
           \/ PayrollFails(h)
    PROVE  AloneInv'
<1>1. CASE InsertRun(h) /\ run = None
  <2>1. slips = {} /\ slips' = {}
    BY <1>1 DEF AloneInv, SlipsOfPaid, InsertRun
  <2> QED BY <1>1, <2>1, WriteAlone
          DEF InsertRun, Answer, StageHolds, PayrollInv, Calls
<1>2. CASE ~(InsertRun(h) /\ run = None)
  <2>1. \E call \in {"free", "find", "insert", "job-find", "job-insert"} : Goto(h, call, None)
    BY <1>2 DEF TakePayrollJob, CreateInline, FindRun, InsertRun, PayrollFails, Answer
  <2>2. UNCHANGED <<run, slips>> /\ (at[h] # "free" \/ MayStart(h))
    BY <1>2 DEF TakePayrollJob, CreateInline, FindRun, InsertRun, PayrollFails, payrollRows
  <2> QED BY <2>1, <2>2, StillAlone DEF StageHolds, PayrollInv, Calls
<1> QED BY <1>1, <1>2

LEMMA ReadAlone ==
    ASSUME PayrollInv, AloneInv, alone, NEW h \in Handlers,
           CalculateRead(h) \/ ValidateRead(h) \/ KeuanganRead(h) \/ KepsekRead(h)
    PROVE  AloneInv'
<1> DEFINE x == Record(run.status, NoItems, {})
<1>1. run \in Runs
  BY DEF CalculateRead, ValidateRead, KeuanganRead, KepsekRead, PayrollInv, PayrollTypeOK
<1>2. x \in Held
  BY <1>1, RecordTypes, ItemsFacts DEF Runs
<1> HIDE DEF x
<1>3. /\ UNCHANGED <<run, slips>> /\ MayStart(h)
      /\ \E call \in Calls : Goto(h, call, x) /\ StageHolds(call, x)
  BY DEF CalculateRead, ValidateRead, KeuanganRead, KepsekRead, SignableByKepsek, Calculable,
         x, Calls, OnRun, StageHolds, payrollRows
<1> QED BY <1>2, <1>3, StillAlone DEF PayrollInv

LEMMA LocalAlone ==
    ASSUME PayrollInv, AloneInv, alone, NEW h \in Handlers, Calculate(h) \/ ListSlips(h)
    PROVE  AloneInv'
<1>1. held[h] \in Held /\ StageHolds(at[h], held[h]) /\ at[h] \in {"figure", "list-slips"}
  BY DEF Calculate, ListSlips, PayrollInv, HandlerTypes, OnRun, Signed, AloneInv
<1>2. CASE Calculate(h)
  <2>1. [held[h] EXCEPT !.items = wages] \in Held
    BY <1>1, HeldTypes DEF PayrollInv, PayrollTypeOK
  <2> QED BY <1>1, <1>2, <2>1, StillAlone
          DEF Calculate, payrollRows, StageHolds, PayrollInv, Calls, OnRun
<1>3. CASE ListSlips(h)
  <2> DEFINE x == [held[h] EXCEPT !.have = {p.staff : p \in slips}]
  <2>1. x \in Held /\ x.items = held[h].items
    BY <1>1 DEF Held, PayrollInv, PayrollTypeOK, Slips
  <2> HIDE DEF x
  <2>2. Goto(h, "issue-slips", x) /\ UNCHANGED <<run, slips>>
    BY <1>3 DEF ListSlips, payrollRows, x
  <2> QED BY <1>1, <1>3, <2>1, <2>2, StillAlone
          DEF ListSlips, StageHolds, PayrollInv, Calls, OnRun, Signed
<1> QED BY <1>2, <1>3

LEMMA StoreAlone ==
    ASSUME PayrollInv, AloneInv, alone, NEW h \in Handlers,
           SetItems(h) \/ KeuanganSigns(h) \/ KepsekSigns(h)
    PROVE  AloneInv'
<1>1. /\ held[h] \in Held /\ run # None /\ run \in Runs
      /\ at[h] \in {"set-items", "keuangan-signs", "kepsek-signs"}
      /\ StageHolds(at[h], held[h])
  BY DEF SetItems, KeuanganSigns, KepsekSigns, PayrollInv, PayrollTypeOK, HandlerTypes,
         OnRun, Signed, AloneInv
<1>2. run.status # "PAID" /\ slips = {} /\ slips' = {}
  BY <1>1 DEF StageHolds, AloneInv, SlipsOfPaid, SetItems, KeuanganSigns, KepsekSigns
<1>3. run'.status = run.status
  BY <1>1 DEF SetItems, KeuanganSigns, KepsekSigns, Runs
<1>4. \/ Goto(h, "free", None)
      \/ Goto(h, "calculated", held[h]) /\ run.status = "DRAFT"
      \/ Goto(h, "approved", held[h]) /\ run.status = "VALIDATED"
      \/ Goto(h, "rekap", held[h]) /\ run.status = "APPROVED_KEUANGAN"
  BY <1>1, StagesOfTransitions DEF SetItems, KeuanganSigns, KepsekSigns, StageHolds, Answer
<1> QED BY <1>1, <1>2, <1>3, <1>4, WriteAlone
        DEF StageHolds, PayrollInv, Calls, OnRun, Signed

LEMMA MarkAlone ==
    ASSUME PayrollInv, AloneInv, alone, NEW h \in Handlers,
           \/ MarkCalculated(h) \/ MarkValidated(h) \/ MarkApproved(h)
           \/ MarkRekap(h) \/ MarkPaid(h)
    PROVE  AloneInv'
<1>1. PICK call \in OnRun, status \in States, next \in Calls :
          /\ Mark(h, call, status, next)
          /\ <<call, status, next>> \in
                {<<"calculated", "CALCULATED", "free">>, <<"validated", "VALIDATED", "free">>,
                 <<"approved", "APPROVED_KEUANGAN", "free">>,
                 <<"rekap", "REKAP_KEPSEK", "paid">>, <<"paid", "PAID", "list-slips">>}
  BY DEF MarkCalculated, MarkValidated, MarkApproved, MarkRekap, MarkPaid, Calls, OnRun,
         Signed, States
<1>2. /\ held[h] \in Held /\ run # None /\ run \in Runs /\ at[h] = call
      /\ StageHolds(call, held[h])
  BY <1>1 DEF Mark, PayrollInv, PayrollTypeOK, HandlerTypes, AloneInv
<1>3. run.status # "PAID" /\ slips = {} /\ slips' = {}
  BY <1>1, <1>2 DEF Mark, StageHolds, AloneInv, SlipsOfPaid
<1>4. run'.status = status /\ run'.items = run.items
  BY <1>1, <1>2 DEF Mark, Runs
<1>5. PICK x \in Held \cup {None} :
          /\ x = IF next = "free" THEN None ELSE [held[h] EXCEPT !.items = run.items]
          /\ next # "free" => x.items = run.items
  <2>1. /\ [held[h] EXCEPT !.items = run.items] \in Held
        /\ [held[h] EXCEPT !.items = run.items].items = run.items
    BY <1>2 DEF Held, Runs
  <2>2. CASE next = "free"
    BY <2>2
  <2>3. CASE next # "free"
    BY <2>1, <2>3
  <2> QED BY <2>2, <2>3
<1>6. Goto(h, next, x)
  BY <1>1, <1>5 DEF Mark
<1>7. StageHolds(next, x)'
  BY <1>1, <1>3, <1>4, <1>5 DEF StageHolds
<1> QED BY <1>1, <1>2, <1>3, <1>5, <1>6, <1>7, WriteAlone
        DEF PayrollInv, OnRun, Signed

\* The payslips are those of the paid run, one for each of its items.
LEMMA SlipsAlone ==
    ASSUME PayrollInv, AloneInv, alone, NEW h \in Handlers, IssueSlips(h)
    PROVE  AloneInv'
<1>1. /\ held[h] \in Held /\ run # None /\ run.status = "PAID" /\ slips = {}
      /\ held[h].items = run.items
  BY DEF IssueSlips, PayrollInv, HandlerTypes, OnRun, Signed, AloneInv, StageHolds
<1>2. slips' = {[by |-> h, staff |-> t, net |-> run.items[t]] :
                   t \in DOMAIN run.items \ held[h].have}
  BY <1>1 DEF IssueSlips
<1>3. SlipsOfPaid' /\ OneSlipAsPaid'
  BY <1>1, <1>2 DEF SlipsOfPaid, OneSlipAsPaid, IssueSlips
<1> QED BY <1>1, <1>3, AloneStep
        DEF IssueSlips, Answer, PayrollInv, Calls, StageHolds

LEMMA NextAlone == PayrollInv /\ AloneInv /\ [PayrollNext]_payrollVars => AloneInv'
<1> SUFFICES ASSUME PayrollInv, AloneInv, [PayrollNext]_payrollVars PROVE AloneInv'
  OBVIOUS
<1>1. alone' = alone
  BY DEF PayrollNext, PayrollStep, AskForRun, WagesChange, PayrollJobForgotten,
         TakePayrollJob, CreateInline, PayrollFails, FindRun, InsertRun, CalculateRead,
         Calculate, SetItems, MarkCalculated, ValidateRead, MarkValidated, KeuanganRead,
         KeuanganSigns, MarkApproved, KepsekRead, KepsekSigns, MarkRekap, MarkPaid, Mark,
         ListSlips, IssueSlips, Answer, Goto, requestVars, payrollVars
<1>2. CASE ~alone
  BY <1>1, <1>2 DEF AloneInv
<1>3. CASE alone /\ UNCHANGED <<requestVars, run, slips>>
  BY <1>3 DEF AloneInv, StageHolds, SlipsOfPaid, OneSlipAsPaid, requestVars
<1>4. CASE alone /\ \E h \in Handlers : \/ TakePayrollJob(h) \/ CreateInline(h)
                                       \/ PayrollStep(h) \/ PayrollFails(h)
  BY <1>4, CreateAlone, ReadAlone, LocalAlone, StoreAlone, MarkAlone, SlipsAlone
     DEF PayrollStep
<1> QED BY <1>2, <1>3, <1>4
        DEF PayrollNext, AskForRun, WagesChange, PayrollJobForgotten, payrollVars, payrollRows

\* While requests do not overlap, even if some fail half-way, an employee gets
\* one payslip, for the amount of the paid run (approveByKepsek issues them
\* once, and a paid run is calculated no more).
THEOREM SlipsAreThePaidOnes == PayrollSpec => []OneSlipAsPaid
<1>1. AloneInv => OneSlipAsPaid
  BY DEF AloneInv, OneSlipAsPaid
<1>2. PayrollSpec => []AloneInv
  BY InitAlone, NextAlone, Invariance, PTL DEF PayrollSpec
<1> QED BY <1>1, <1>2, PTL
=============================================================================
