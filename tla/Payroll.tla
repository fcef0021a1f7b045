------------------------------ MODULE Payroll -------------------------------
(***************************************************************************)
(* The payroll run of one period (payroll/services/payroll-run.service.ts):*)
(* created by the job payroll.run or, when the queue is out of reach, by   *)
(* the request itself, then calculated, validated, approved by the finance *)
(* officer and by the head, who makes it PAID and issues the payslips.     *)
(* Every operation reads the run, checks its status in memory and writes   *)
(* by id; nothing locks the row.                                           *)
(***************************************************************************)
EXTENDS JobQueue, Requests

CONSTANTS Staff,        \* the employees of the school
          Figures,      \* the net salaries the calculator can come to
          MaxRaises     \* bound: changes of the salary data

ASSUME PayrollAssumption == Figures # {} /\ MaxRaises \in Nat

VARIABLES run,        \* the PayrollRun row of the period, or None
          wages,      \* what the calculator makes of the salary data now
          raises,     \* how often the salary data changed
          slips,      \* the Payslip rows
          payJob      \* the job payroll.run:<period>

payrollRows == <<run, wages, raises, slips, payJob>>
payrollVars == <<requestVars, payrollRows>>

States == {"DRAFT", "CALCULATED", "VALIDATED", "APPROVED_KEUANGAN",
           "REKAP_KEPSEK", "PAID"}

\* VALID_TRANSITIONS.
Transitions == [s \in States |->
    CASE s = "DRAFT" -> {"CALCULATED"}
      [] s = "CALCULATED" -> {"VALIDATED", "DRAFT"}
      [] s = "VALIDATED" -> {"APPROVED_KEUANGAN", "CALCULATED"}
      [] s = "APPROVED_KEUANGAN" -> {"REKAP_KEPSEK", "VALIDATED"}
      [] s = "REKAP_KEPSEK" -> {"PAID", "APPROVED_KEUANGAN"}
      [] s = "PAID" -> {}]

\* The rows of PayrollRunItem: a net salary for each employee it covers.
Items == UNION {[S -> Figures] : S \in SUBSET Staff}

NoItems == [t \in {} |-> 0]

Runs == [status : States, keuangan : BOOLEAN, kepsek : BOOLEAN, items : Items]

\* A payslip row; the handler that inserted it tells two rows apart.
Slips == [by : Handlers, staff : Staff, net : Figures]

ASSUME PayrollRowAssumption == None \notin Runs

Draft == [status |-> "DRAFT", keuangan |-> FALSE, kepsek |-> FALSE,
          items |-> NoItems]

PayrollInit == /\ RequestsInit
               /\ run = None
               /\ wages \in [Staff -> {CHOOSE f \in Figures : TRUE}]
               /\ raises = 0
               /\ slips = {}
               /\ payJob = NoJob

-----------------------------------------------------------------------------
\* Creating the run.

\* POST /payroll/runs: the job has one id per period.
AskForRun == /\ payJob' = Add(payJob)
             /\ payJob' # payJob
             /\ UNCHANGED <<requestVars, run, wages, raises, slips>>

TakePayrollJob(h) == /\ payJob.state = "waiting"
                     /\ MayStart(h)
                     /\ payJob' = Take(payJob)
                     /\ Goto(h, "job-find", None)
                     /\ UNCHANGED <<run, wages, raises, slips>>

\* The queue refused the job: the request creates the run itself.
CreateInline(h) == /\ MayStart(h)
                   /\ Goto(h, "find", None)
                   /\ UNCHANGED payrollRows

InJob(h) == at[h] \in {"job-find", "job-insert"}

\* create ends: the job completes, or throws and is retried.
JobEnds(h, thrown) ==
    payJob' = IF ~InJob(h) THEN payJob
              ELSE IF thrown THEN Thrown(payJob) ELSE Completed(payJob)

\* findRunByPeriod: an unfinished run is returned, a PAID one refused.
FindRun(h) == /\ at[h] \in {"find", "job-find"}
              /\ IF run = None
                 THEN /\ Goto(h, IF InJob(h) THEN "job-insert" ELSE "insert", None)
                      /\ UNCHANGED payJob
                 ELSE /\ Answer(h)
                      /\ JobEnds(h, run.status = "PAID")
              /\ UNCHANGED <<run, wages, raises, slips>>

\* createRun: the period is unique, the second insertion throws.
InsertRun(h) == /\ at[h] \in {"insert", "job-insert"}
                /\ run' = IF run = None THEN Draft ELSE run
                /\ JobEnds(h, run # None)
                /\ Answer(h)
                /\ UNCHANGED <<wages, raises, slips>>

-----------------------------------------------------------------------------
\* The states of the run.

\* What a handler keeps of the record it was given last.
Record(status, items, have) == [status |-> status, items |-> items, have |-> have]

Held == [status : States, items : Items, have : SUBSET Staff]

\* Mutant: a run that is paid may be calculated again.
CalculableEver(status) == status \in {"DRAFT", "CALCULATED", "PAID"}

Calculable(status) == status \in {"DRAFT", "CALCULATED"}

\* calculate reads the run ...
CalculateRead(h) == /\ MayStart(h)
                    /\ run # None /\ Calculable(run.status)
                    /\ Goto(h, "figure", Record(run.status, NoItems, {}))
                    /\ UNCHANGED payrollRows

\* ... then the salary data ...
Calculate(h) == /\ at[h] = "figure"
                /\ Goto(h, "set-items", [held[h] EXCEPT !.items = wages])
                /\ UNCHANGED payrollRows

\* Mutant: new figures withdraw the signatures.
SetItemsAfresh(h) == /\ at[h] = "set-items"
                     /\ run' = [Draft EXCEPT !.status = run.status,
                                            !.items = held[h].items]
                     /\ IF "CALCULATED" \in Transitions[run.status]
                        THEN Goto(h, "calculated", held[h])
                        ELSE Answer(h)
                     /\ UNCHANGED <<wages, raises, slips, payJob>>

\* ... replaces the items whatever the status is by now, and lets the status
\* of the row it gets back decide whether to go on.
SetItems(h) == /\ at[h] = "set-items"
               /\ run' = [run EXCEPT !.items = held[h].items]
               /\ IF "CALCULATED" \in Transitions[run.status]
                  THEN Goto(h, "calculated", held[h])
                  ELSE Answer(h)
               /\ UNCHANGED <<wages, raises, slips, payJob>>

\* validate decides on the status it read.
ValidateRead(h) == /\ MayStart(h)
                   /\ run # None /\ run.status = "CALCULATED"
                   /\ Goto(h, "validated", Record(run.status, NoItems, {}))
                   /\ UNCHANGED payrollRows

\* transition: the status is written by id.
Mark(h, call, status, next) ==
    /\ at[h] = call
    /\ run' = [run EXCEPT !.status = status]
    /\ Goto(h, next, IF next = "free" THEN None
                     ELSE [held[h] EXCEPT !.items = run.items])
    /\ UNCHANGED <<wages, raises, slips, payJob>>

MarkCalculated(h) == Mark(h, "calculated", "CALCULATED", "free")
MarkValidated(h) == Mark(h, "validated", "VALIDATED", "free")

KeuanganRead(h) == /\ MayStart(h)
                   /\ run # None /\ run.status = "VALIDATED"
                   /\ Goto(h, "keuangan-signs", Record(run.status, NoItems, {}))
                   /\ UNCHANGED payrollRows

\* The signature is stored before the transition is checked, against the row
\* the update returned.
KeuanganSigns(h) == /\ at[h] = "keuangan-signs"
                    /\ run' = [run EXCEPT !.keuangan = TRUE]
                    /\ IF "APPROVED_KEUANGAN" \in Transitions[run.status]
                       THEN Goto(h, "approved", held[h])
                       ELSE Answer(h)
                    /\ UNCHANGED <<wages, raises, slips, payJob>>

MarkApproved(h) == Mark(h, "approved", "APPROVED_KEUANGAN", "free")

SignableByKepsek(status) == status = "APPROVED_KEUANGAN"

KepsekRead(h) == /\ MayStart(h)
                 /\ run # None /\ SignableByKepsek(run.status)
                 /\ Goto(h, "kepsek-signs", Record(run.status, NoItems, {}))
                 /\ UNCHANGED payrollRows

RekapAllowed(status) == "REKAP_KEPSEK" \in Transitions[status]

KepsekSigns(h) == /\ at[h] = "kepsek-signs"
                  /\ run' = [run EXCEPT !.kepsek = TRUE]
                  /\ IF RekapAllowed(run.status)
                     THEN Goto(h, "rekap", held[h])
                     ELSE Answer(h)
                  /\ UNCHANGED <<wages, raises, slips, payJob>>

MarkRekap(h) == Mark(h, "rekap", "REKAP_KEPSEK", "paid")
MarkPaid(h) == Mark(h, "paid", "PAID", "list-slips")

\* The payslips: those the run has already are not issued again.
ListSlips(h) == /\ at[h] = "list-slips"
                /\ Goto(h, "issue-slips",
                        [held[h] EXCEPT !.have = {p.staff : p \in slips}])
                /\ UNCHANGED payrollRows

IssueSlips(h) ==
    /\ at[h] = "issue-slips"
    /\ slips' = slips \cup
         {[by |-> h, staff |-> t, net |-> held[h].items[t]] :
             t \in DOMAIN held[h].items \ held[h].have}
    /\ Answer(h)
    /\ UNCHANGED <<run, wages, raises, payJob>>

-----------------------------------------------------------------------------
\* The world around it.

\* A salary structure, an attendance or an employee changes.
WagesChange == /\ raises < MaxRaises
               /\ wages' \in Items \ {wages}
               /\ raises' = raises + 1
               /\ UNCHANGED <<requestVars, run, slips, payJob>>

\* Mutant: the processor reports an error as success.
ErrorSwallowed(h) == IF InJob(h) THEN {Completed(payJob)} ELSE {payJob}

\* What becomes of the job when its handler throws, or its worker dies.
JobAfterFailure(h) == IF InJob(h) THEN {Thrown(payJob), Redelivered(payJob)} ELSE {payJob}

\* A query fails or the process dies between two calls.
PayrollFails(h) == /\ at[h] # "free"
                   /\ Answer(h)
                   /\ payJob' \in JobAfterFailure(h)
                   /\ UNCHANGED <<run, wages, raises, slips>>

\* removeOnComplete, removeOnFail: the oldest ended jobs are forgotten.
PayrollJobForgotten == /\ payJob.state \in {"completed", "failed"}
                       /\ payJob' = NoJob
                       /\ UNCHANGED <<requestVars, run, wages, raises, slips>>

PayrollStep(h) == \/ FindRun(h) \/ InsertRun(h)
                  \/ CalculateRead(h) \/ Calculate(h) \/ SetItems(h) \/ MarkCalculated(h)
                  \/ ValidateRead(h) \/ MarkValidated(h)
                  \/ KeuanganRead(h) \/ KeuanganSigns(h) \/ MarkApproved(h)
                  \/ KepsekRead(h) \/ KepsekSigns(h) \/ MarkRekap(h) \/ MarkPaid(h)
                  \/ ListSlips(h) \/ IssueSlips(h)

PayrollNext == \/ AskForRun \/ WagesChange \/ PayrollJobForgotten
               \/ \E h \in Handlers : \/ TakePayrollJob(h) \/ CreateInline(h)
                                      \/ PayrollStep(h) \/ PayrollFails(h)

PayrollSpec == PayrollInit /\ [][PayrollNext]_payrollVars

-----------------------------------------------------------------------------
\* Properties.

PayrollTypeOK == /\ run \in Runs \cup {None}
                 /\ wages \in Items
                 /\ raises \in 0..MaxRaises
                 /\ slips \subseteq Slips
                 /\ payJob \in JobType

\* However the requests overlap, a run that counts as approved carries the
\* finance officer's signature, and one that is paid, or has payslips, the
\* head's too.
PaidWasSigned ==
    /\ run # None =>
         /\ run.status \in {"APPROVED_KEUANGAN", "REKAP_KEPSEK", "PAID"} => run.keuangan
         /\ run.status \in {"REKAP_KEPSEK", "PAID"} => run.keuangan /\ run.kepsek
    /\ slips # {} => run # None /\ run.keuangan /\ run.kepsek

\* While requests do not overlap, even if some of them fail half-way: an
\* employee gets one payslip, for the amount the paid run states.
OneSlipAsPaid == alone =>
    \A p \in slips : /\ run.status = "PAID"
                     /\ p.staff \in DOMAIN run.items
                     /\ p.net = run.items[p.staff]
                     /\ \A q \in slips : q.staff = p.staff => q = p

\* The job payroll.run reports success only when the row of the period's run exists.
\* It does not say that the run is calculated: that is another request.
CompletedJobHasRun == payJob.state = "completed" => run # None
=============================================================================
