------------------------------ MODULE Billing -------------------------------
(***************************************************************************)
(* School fees: invoices, payments and their verification, the overdue and *)
(* late-fee (denda) job.  The handlers of finance/services/                *)
(* invoice.service.ts, spp-scheduler.service.ts, payment.service.ts and    *)
(* late-fee.service.ts on the Invoice, Payment and DendaInvoice rows.      *)
(*                                                                         *)
(* A handler runs in a slot of `work`: a step that reads keeps what the    *)
(* code keeps in local variables, a later step writes from them.  verify() *)
(* is one transaction: its claim of the payment row and its recomputed     *)
(* invoice statuses are seen by nobody until VerifyCommit, and it reads    *)
(* what others have committed (READ COMMITTED) plus its own claim.  The    *)
(* locks its updates take on invoices only order the commits, and are left *)
(* out: the model has every order the database has.                        *)
(*                                                                         *)
(* Amounts are abstract: the id of an invoice fixes its amount, due date   *)
(* and late-fee rule, that of a payment its amount, and Covers[i] holds    *)
(* the sets of payments that add up to the net amount of i.                *)
(***************************************************************************)
EXTENDS Integers, FiniteSets, Functions

CONSTANTS
    Invoices,
    Payments,
    Keys,           \* Idempotency-Key headers
    NoKey,
    Bills,          \* the values of (student_id, type, period)
    DueOf,
    Covers,
    Ruled,          \* the invoices whose type has an enabled LateFeeRule
    Grace,          \* LateFeeRule.grace_days
    Month,          \* days in a period of the denda job
    MaxTime,        \* bound on the clock
    Workers         \* slots for concurrent requests and job runs

ASSUME InvoicesAssumption ==
    /\ IsFiniteSet(Invoices) /\ IsFiniteSet(Bills)
    /\ DueOf \in [Invoices -> Nat]
    /\ Ruled \subseteq Invoices
\* Amounts are positive: more payments never cover less.
ASSUME CoversAssumption ==
    /\ Covers \in [Invoices -> SUBSET SUBSET Payments]
    /\ \A i \in Invoices : \A S \in Covers[i], T \in SUBSET Payments :
        S \subseteq T => T \in Covers[i]
ASSUME TimesAssumption == Grace \in Nat /\ Month \in Nat \ {0} /\ MaxTime \in Nat
ASSUME NoKeyAssumption == NoKey \notin Keys

VARIABLES
    invoice,    \* Invoice rows
    payment,    \* Payment rows
    denda,      \* DendaInvoice rows; a deleted one keeps its row
    now,        \* days
    work        \* handlers in flight

vars == <<invoice, payment, denda, now, work>>

-----------------------------------------------------------------------------
(* Rows *)

InvoiceStatus == {"PENDING", "PARTIAL", "PAID", "OVERDUE"}
PaymentStatus == {"PENDING", "PAID", "CANCELLED"}

NoRow == [status |-> "NO_ROW"]
Gone == [status |-> "GONE"]         \* deleted; ids are never used again
Invoice == [no : Nat, bill : Bills, status : InvoiceStatus]
\* touches: the invoice paid to and those in the allocations column.
Payment == [invoice : Invoices, touches : SUBSET Invoices, status : PaymentStatus,
            key : Keys \cup {NoKey}]
Denda == [invoice : Invoices, period : Nat, no : Nat, deleted : BOOLEAN]

Idle == [op |-> "idle"]
Found == InvoiceStatus \cup {"todo", "missing"}
Work ==
    {Idle}
    \cup [op : {"create"}, bills : SUBSET Bills, skip : BOOLEAN, count : Nat]
    \cup [op : {"record"}, invoice : Invoices, touches : SUBSET Invoices, key : Keys \cup {NoKey}]
    \cup [op : {"verify"}, id : Payments, accept : BOOLEAN, found : [Invoices -> Found]]
    \cup [op : {"denda"}, pc : {"late", "marked", "read", "counted"}, at : Nat,
          ids : SUBSET Invoices, count : Nat]

TypeOK ==
    /\ invoice \in [Invoices -> Invoice \cup {NoRow, Gone}]
    /\ payment \in [Payments -> Payment \cup {NoRow, Gone}]
    /\ denda \subseteq Denda
    /\ now \in Nat
    /\ work \in [Workers -> Work]

Init ==
    /\ invoice = [i \in Invoices |-> NoRow]
    /\ payment = [p \in Payments |-> NoRow]
    /\ denda = {}
    /\ now = 0
    /\ work = [w \in Workers |-> Idle]

-----------------------------------------------------------------------------
(* Helpers *)

Exists(i) == invoice[i].status \in InvoiceStatus
Stands(p) == payment[p].status \in PaymentStatus

\* paidSumOf: the verified payments made out to the invoice itself.
PaidOf(i) == {p \in Payments : payment[p].status = "PAID" /\ payment[p].invoice = i}

\* computeInvoiceTotals
StatusFor(i, paid, t) ==
    CASE paid \in Covers[i] -> "PAID"
      [] paid \notin Covers[i] /\ t > DueOf[i] -> "OVERDUE"
      [] paid \notin Covers[i] /\ t <= DueOf[i] -> IF paid = {} THEN "PENDING" ELSE "PARTIAL"

Period(t) == t \div Month

Begin(w, job) == work[w] = Idle /\ work' = [work EXCEPT ![w] = job]
Finish(w) == work' = [work EXCEPT ![w] = Idle]
Doing(w, op) == work[w].op = op
At(w, pc) == Doing(w, "denda") /\ work[w].pc = pc

\* Consecutive numbers after a count, one per row of a batch.
Numbering(S, count) == Injection(S, (count + 1)..(count + Cardinality(S)))

-----------------------------------------------------------------------------
(* create, createManyForStudents and generateSpp *)

Unbilled(b) == \A i \in Invoices : Exists(i) => invoice[i].bill # b

\* SPP (skip) leaves out the students who have their invoice of the period.  Its two
\* queries are one step: a row that only the second would see is refused by UniqueInvoice.
CreateRead(w, bills, skip) ==
    /\ bills # {}
    /\ skip => \A b \in bills : Unbilled(b)
    /\ Begin(w, [op |-> "create", bills |-> bills, skip |-> skip,
                 count |-> Cardinality({i \in Invoices : Exists(i)})])
    /\ UNCHANGED <<invoice, payment, denda, now>>

\* Mutant: no unique index on the student, type and period.
UniqueNumberOnly(b, n) == \A j \in Invoices : Exists(j) => invoice[j].no # n

\* @@unique([invoice_no]) and @@unique([student_id, type, period])
UniqueInvoice(b, n) ==
    \A j \in Invoices : Exists(j) => invoice[j].bill # b /\ invoice[j].no # n

Unused == {i \in Invoices : invoice[i] = NoRow}

\* A conflict loses the row with skipDuplicates, the whole batch without.  When ids run
\* out (the bound on invoices) nothing is inserted.
CreateCommit(w) ==
    /\ Doing(w, "create")
    /\ \E no \in Numbering(work[w].bills, work[w].count) :
        LET ok == {b \in work[w].bills : UniqueInvoice(b, no[b])}
            new == IF work[w].skip \/ ok = work[w].bills THEN ok ELSE {}
        IN \/ \E id \in Injection(new, Unused) :
                invoice' = [i \in Invoices |-> IF \E b \in new : id[b] = i
                    THEN LET b == CHOOSE b \in new : id[b] = i
                         IN [no |-> no[b], bill |-> b, status |-> "PENDING"]
                    ELSE invoice[i]]
           \/ Cardinality(Unused) < Cardinality(new) /\ UNCHANGED invoice
    /\ Finish(w)
    /\ UNCHANGED <<payment, denda, now>>

\* Mutant: the payments that were spread over the invoice go too.
RemoveTouched(i) ==
    /\ Exists(i)
    /\ \A w \in Workers : Doing(w, "verify") => i \notin payment[work[w].id].touches
    /\ invoice' = [invoice EXCEPT ![i] = Gone]
    /\ payment' = [p \in Payments |->
            IF Stands(p) /\ i \in payment[p].touches THEN Gone ELSE payment[p]]
    /\ UNCHANGED <<denda, now, work>>

\* remove: ON DELETE CASCADE takes the payments along, and waits for their row locks.
Remove(i) ==
    /\ Exists(i)
    /\ \A w \in Workers : Doing(w, "verify") => payment[work[w].id].invoice # i
    /\ invoice' = [invoice EXCEPT ![i] = Gone]
    /\ payment' = [p \in Payments |->
            IF Stands(p) /\ payment[p].invoice = i THEN Gone ELSE payment[p]]
    /\ UNCHANGED <<denda, now, work>>

-----------------------------------------------------------------------------
(* record and recordAllocated *)

KeyFree(k) == k # NoKey => \A p \in Payments : Stands(p) => payment[p].key # k

\* record has touches = {i}; recordAllocated the invoices the money was spread over,
\* i first.  A key in use is answered with the payment it made.
RecordRead(w, i, touches, k) ==
    /\ i \in touches /\ \A j \in touches : Exists(j)
    /\ KeyFree(k)
    /\ Begin(w, [op |-> "record", invoice |-> i, touches |-> touches, key |-> k])
    /\ UNCHANGED <<invoice, payment, denda, now>>

\* The insert can meet the unique index of the key or the foreign key of the invoice.
RecordCommit(w) ==
    /\ Doing(w, "record")
    /\ \/ \E p \in Payments :
            /\ payment[p] = NoRow /\ KeyFree(work[w].key) /\ Exists(work[w].invoice)
            /\ payment' = [payment EXCEPT ![p] =
                    [invoice |-> work[w].invoice, touches |-> work[w].touches,
                     status |-> "PENDING", key |-> work[w].key]]
       \/ ~(KeyFree(work[w].key) /\ Exists(work[w].invoice)) /\ UNCHANGED payment
    /\ Finish(w)
    /\ UNCHANGED <<invoice, denda, now>>

-----------------------------------------------------------------------------
(* verify *)

\* Mutant: updateMany by id, whatever the status.
ClaimableAny(p) == Stands(p)

\* updateMany where status = PENDING takes the row lock; another claim waits for it
\* and then finds the status changed.
Claimable(p) ==
    /\ payment[p].status = "PENDING"
    /\ \A w \in Workers : Doing(w, "verify") => work[w].id # p

VerifyClaim(w, p, accept) ==
    /\ Claimable(p)
    /\ Begin(w, [op |-> "verify", id |-> p, accept |-> accept,
                 found |-> [i \in Invoices |-> "todo"]])
    /\ UNCHANGED <<invoice, payment, denda, now>>

\* Mutant: a refused payment is counted like an accepted one.
PaidSeenRefused(w, i) ==
    PaidOf(i) \cup (IF payment[work[w].id].invoice = i THEN {work[w].id} ELSE {})

\* What the transaction reads: committed payments and its own claim.
PaidSeen(w, i) ==
    PaidOf(i) \cup
        (IF work[w].accept /\ payment[work[w].id].invoice = i THEN {work[w].id} ELSE {})

VerifyRecompute(w, i) ==
    /\ Doing(w, "verify")
    /\ i \in payment[work[w].id].touches /\ work[w].found[i] = "todo"
    /\ work' = [work EXCEPT ![w].found[i] =
            IF Exists(i) THEN StatusFor(i, PaidSeen(w, i), now) ELSE "missing"]
    /\ UNCHANGED <<invoice, payment, denda, now>>

\* An invoice deleted since its read fails the update: Abort.
VerifyCommit(w) ==
    /\ Doing(w, "verify")
    /\ LET p == work[w].id
           found == work[w].found
       IN /\ \A i \in payment[p].touches :
                found[i] # "todo" /\ (found[i] \in InvoiceStatus => Exists(i))
          /\ payment' = [payment EXCEPT ![p].status =
                IF work[w].accept THEN "PAID" ELSE "CANCELLED"]
          /\ invoice' = [i \in Invoices |->
                IF found[i] \in InvoiceStatus THEN [invoice[i] EXCEPT !.status = found[i]]
                ELSE invoice[i]]
    /\ Finish(w)
    /\ UNCHANGED <<denda, now>>

-----------------------------------------------------------------------------
(* runDailyDenda, with refreshOverdueStatuses as its first two steps *)

Late(i, t) ==
    /\ invoice[i].status \in {"PENDING", "PARTIAL"}
    /\ StatusFor(i, PaidOf(i), t) = "OVERDUE"

\* The daily job and POST /finance/jobs/late-fee run the same code, which does nothing
\* when there is no rule.
DendaBegin(w) ==
    /\ Ruled # {}
    /\ Begin(w, [op |-> "denda", pc |-> "late", at |-> now,
                 ids |-> {i \in Invoices : Late(i, now)}, count |-> 0])
    /\ UNCHANGED <<invoice, payment, denda, now>>

\* updateMany by the ids read before
DendaMark(w) ==
    /\ At(w, "late")
    /\ invoice' = [i \in Invoices |->
            IF i \in work[w].ids /\ Exists(i) THEN [invoice[i] EXCEPT !.status = "OVERDUE"]
            ELSE invoice[i]]
    /\ work' = [work EXCEPT ![w].pc = "marked", ![w].ids = {}]
    /\ UNCHANGED <<payment, denda, now>>

Charged(i, period) == \E d \in denda : d.invoice = i /\ d.period = period /\ ~d.deleted

\* The OVERDUE invoices with a rule, something outstanding, beyond the grace days and
\* not charged this period.  The two queries are one step: a denda that only the second
\* would see is refused by UniqueDenda.
DendaRead(w) ==
    /\ At(w, "marked")
    /\ work' = [work EXCEPT ![w].pc = "read", ![w].ids =
            {i \in Ruled :
                /\ invoice[i].status = "OVERDUE"
                /\ PaidOf(i) \notin Covers[i]
                /\ work[w].at - DueOf[i] > Grace
                /\ ~Charged(i, Period(work[w].at))}]
    /\ UNCHANGED <<invoice, payment, denda, now>>

DendaCount(w) ==
    /\ At(w, "read")
    /\ work' = [work EXCEPT ![w].pc = "counted", ![w].count = Cardinality(denda)]
    /\ UNCHANGED <<invoice, payment, denda, now>>

\* Mutant: only rows that are not deleted count as duplicates.
UniqueLiveDenda(d) ==
    \A e \in denda : e.no # d.no /\ ~(e.invoice = d.invoice /\ e.period = d.period /\ ~e.deleted)

\* @unique invoice_no and @@unique([original_invoice_id, period])
UniqueDenda(d) ==
    \A e \in denda : e.no # d.no /\ ~(e.invoice = d.invoice /\ e.period = d.period)

DendaCharge(w) ==
    /\ At(w, "counted")
    /\ \E no \in Numbering(work[w].ids, work[w].count) :
        LET rows == {[invoice |-> i, period |-> Period(work[w].at), no |-> no[i],
                      deleted |-> FALSE] : i \in work[w].ids}
        IN denda' = denda \cup {d \in rows : UniqueDenda(d)}
    /\ Finish(w)
    /\ UNCHANGED <<invoice, payment, now>>

DeleteDenda(d) ==
    /\ d \in denda
    /\ denda' = (denda \ {d}) \cup {[d EXCEPT !.deleted = TRUE]}
    /\ UNCHANGED <<invoice, payment, now, work>>

-----------------------------------------------------------------------------
(* Specification *)

\* A failed statement, a rollback, or a crash of the process.
Abort(w) ==
    /\ work[w] # Idle
    /\ Finish(w)
    /\ UNCHANGED <<invoice, payment, denda, now>>

Tick ==
    /\ now < MaxTime
    /\ now' = now + 1
    /\ UNCHANGED <<invoice, payment, denda, work>>

Create(w) ==
    \/ \E bills \in SUBSET Bills, skip \in BOOLEAN : CreateRead(w, bills, skip)
    \/ CreateCommit(w)
Record(w) ==
    \/ \E i \in Invoices, touches \in SUBSET Invoices, k \in Keys \cup {NoKey} :
        RecordRead(w, i, touches, k)
    \/ RecordCommit(w)
Verify(w) ==
    \/ \E p \in Payments, accept \in BOOLEAN : VerifyClaim(w, p, accept)
    \/ \E i \in Invoices : VerifyRecompute(w, i)
    \/ VerifyCommit(w)
DendaJob(w) ==
    DendaBegin(w) \/ DendaMark(w) \/ DendaRead(w) \/ DendaCount(w) \/ DendaCharge(w)

Next ==
    \/ \E w \in Workers : Create(w) \/ Record(w) \/ Verify(w) \/ DendaJob(w) \/ Abort(w)
    \/ \E i \in Invoices : Remove(i)
    \/ \E d \in denda : DeleteDenda(d)
    \/ Tick

Spec == Init /\ [][Next]_vars

-----------------------------------------------------------------------------
(* Properties *)

\* REL-003: however create, bulk creation and SPP runs interleave, a student has one
\* invoice per type and period, and no two invoices have one number.
OneInvoicePerBill ==
    \A i, j \in Invoices :
        Exists(i) /\ Exists(j) /\ i # j =>
            invoice[i].bill # invoice[j].bill /\ invoice[i].no # invoice[j].no

\* An invoice is PAID only if accepted payments made out to it cover it, and PARTIAL only
\* if it has an accepted payment, although verify writes a status it computed before other
\* verifications committed.
Accepted(i) == {p \in Payments : payment[p].status = "PAID" /\ payment[p].invoice = i}
StatusIsEarned ==
    \A i \in Invoices :
        /\ invoice[i].status = "PAID" => Accepted(i) \in Covers[i]
        /\ invoice[i].status = "PARTIAL" => Accepted(i) # {}

\* Overlapping runs of the job charge an invoice once per period, and a denda that
\* KEUANGAN has deleted is not charged again in its period.
OneDendaPerPeriod ==
    \A d, e \in denda : d.invoice = e.invoice /\ d.period = e.period => d = e

\* REL-002, tek-04 1.7: payments are a ledger.  A replayed request adds no entry, an entry
\* belongs to an invoice there is, it is accepted or refused once, and it goes away when
\* that invoice is deleted and in no other way.
Account == [i \in Invoices |->
    IF invoice[i] = NoRow THEN "none" ELSE IF invoice[i] = Gone THEN "closed" ELSE "open"]
Entry == [p \in Payments |->
    IF payment[p] = NoRow THEN [state |-> "none"]
    ELSE IF payment[p] = Gone THEN [state |-> "erased"]
    ELSE [key |-> payment[p].key, account |-> payment[p].invoice,
          state |-> CASE payment[p].status = "PENDING" -> "pending"
                      [] payment[p].status = "PAID" -> "accepted"
                      [] payment[p].status = "CANCELLED" -> "refused"]]
Book == INSTANCE Ledger WITH Accounts <- Invoices, account <- Account, entry <- Entry
LedgerSpec == Book!Spec

-----------------------------------------------------------------------------
(* What the documentation says and the code does not do *)

Quiet == \A w \in Workers : work[w] = Idle

\* payment.service.ts: recomputed in the same transaction so that there is no window in
\* which invoice status and payment status are out of step.
PaidIsKnown ==
    \A i \in Invoices :
        Quiet /\ Exists(i) /\ Accepted(i) # {} /\ Accepted(i) \in Covers[i]
            => invoice[i].status = "PAID"

\* payment.service.spec.ts: verifying a payment spread over several invoices settles the
\* others too; none of them is still as if nothing had been paid.
AllocatedIsCredited ==
    \A p \in Payments : payment[p].status = "PAID" =>
        \A i \in payment[p].touches : invoice[i].status # "PENDING"
=============================================================================
