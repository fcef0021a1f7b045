--------------------------- MODULE Billing_proofs ---------------------------
(***************************************************************************)
(* Theorems about Billing, for any number of invoices, payments, requests  *)
(* and job runs.                                                           *)
(*                                                                         *)
(* A verification writes statuses it computed before others committed.     *)
(* They stay true because payments, once accepted, are never taken back    *)
(* while their invoice stands, and more payments never cover less:         *)
(* VerifyKnows carries that from the read to the commit.                   *)
(***************************************************************************)
EXTENDS Billing, FiniteSetTheorems, TLAPS

\* No two payments that stand have one key.
KeysOnce ==
    \A p, q \in Payments :
        Stands(p) /\ Stands(q) /\ p # q /\ payment[p].key = payment[q].key =>
            payment[p].key = NoKey

\* A claimed payment is PENDING and claimed once, and what the verification has
\* computed for an invoice that stands is still earned.
ClaimIsGood(w) ==
    /\ payment[work[w].id].status = "PENDING"
    /\ \A v \in Workers : Doing(v, "verify") /\ v # w => work[v].id # work[w].id
FoundIsEarned(w) ==
    \A i \in Invoices :
        /\ work[w].found[i] # "todo" => i \in payment[work[w].id].touches
        /\ work[w].found[i] \in {"PAID", "PARTIAL"} => invoice[i] # NoRow
        /\ work[w].found[i] = "PAID" /\ Exists(i) => PaidSeen(w, i) \in Covers[i]
        /\ work[w].found[i] = "PARTIAL" /\ Exists(i) => PaidSeen(w, i) # {}
VerifyKnows == \A w \in Workers : Doing(w, "verify") => ClaimIsGood(w) /\ FoundIsEarned(w)

IInv ==
    /\ TypeOK
    /\ IsFiniteSet(denda)
    /\ VerifyKnows
    /\ OneInvoicePerBill
    /\ StatusIsEarned
    /\ KeysOnce
    /\ OneDendaPerPeriod

-----------------------------------------------------------------------------
(* Operators *)

\* A status is one of the four, PAID only if covered and PARTIAL only if something is paid.
LEMMA StatusForRight ==
    ASSUME NEW i \in Invoices, NEW paid, NEW t \in Nat
    PROVE  /\ StatusFor(i, paid, t) \in InvoiceStatus
           /\ StatusFor(i, paid, t) = "PAID" => paid \in Covers[i]
           /\ StatusFor(i, paid, t) = "PARTIAL" => paid # {}
<1>1. DueOf[i] \in Nat
  BY InvoicesAssumption
<1>2. CASE paid \in Covers[i]
  BY <1>2 DEF StatusFor, InvoiceStatus
<1>3. CASE paid \notin Covers[i] /\ t > DueOf[i]
  BY <1>1, <1>3 DEF StatusFor, InvoiceStatus
<1>4. CASE paid \notin Covers[i] /\ t <= DueOf[i]
  BY <1>1, <1>4 DEF StatusFor, InvoiceStatus
<1> QED
  BY <1>1, <1>2, <1>3, <1>4

\* The numbers of a batch are naturals, and no two rows have the same.
LEMMA NumberingRight ==
    ASSUME NEW S, IsFiniteSet(S), NEW count \in Nat, NEW f \in Numbering(S, count)
    PROVE  /\ f \in [S -> Nat]
           /\ \A a, b \in S : f[a] = f[b] => a = b
<1>1. Cardinality(S) \in Nat
  BY FS_CardinalityType
<1>2. f \in [S -> (count + 1)..(count + Cardinality(S))] /\ IsInjective(f)
  BY DEF Numbering, Injection
<1>3. (count + 1)..(count + Cardinality(S)) \subseteq Nat
  BY <1>1
<1> QED
  BY <1>2, <1>3 DEF IsInjective

LEMMA PeriodType == \A t \in Nat : Period(t) \in Nat
  BY TimesAssumption DEF Period

LEMMA CountType == Cardinality({i \in Invoices : Exists(i)}) \in Nat
<1>1. IsFiniteSet({i \in Invoices : Exists(i)})
  BY InvoicesAssumption, FS_Subset
<1> QED
  BY <1>1, FS_CardinalityType

\* What the slots hold, by operation.
LEMMA JobType ==
    ASSUME TypeOK, NEW w \in Workers
    PROVE  /\ work[w] \in Work
           /\ Doing(w, "create") =>
                /\ work[w].bills \subseteq Bills
                /\ work[w].skip \in BOOLEAN
                /\ work[w].count \in Nat
           /\ Doing(w, "record") =>
                /\ work[w].invoice \in Invoices
                /\ work[w].touches \subseteq Invoices
                /\ work[w].key \in Keys \cup {NoKey}
           /\ Doing(w, "verify") =>
                /\ work[w] \in [op : {"verify"}, id : Payments, accept : BOOLEAN,
                                found : [Invoices -> Found]]
                /\ work[w].id \in Payments
                /\ work[w].accept \in BOOLEAN
                /\ work[w].found \in [Invoices -> Found]
           /\ Doing(w, "denda") =>
                /\ work[w] \in [op : {"denda"}, pc : {"late", "marked", "read", "counted"},
                                at : Nat, ids : SUBSET Invoices, count : Nat]
                /\ work[w].at \in Nat
                /\ work[w].ids \subseteq Invoices
                /\ work[w].count \in Nat
<1>1. work[w] \in Work
  BY DEF TypeOK
<1> QED
  BY <1>1 DEF Work, Doing, Idle

LEMMA RowType ==
    ASSUME TypeOK
    PROVE  /\ \A i \in Invoices : Exists(i) => invoice[i] \in Invoice
           /\ \A i \in Invoices : Exists(i) \/ invoice[i] \in {NoRow, Gone}
           /\ \A p \in Payments : Stands(p) => payment[p] \in Payment
           /\ \A p \in Payments : Stands(p) \/ payment[p] \in {NoRow, Gone}
<1>1. \A i \in Invoices : invoice[i] \in Invoice \cup {NoRow, Gone}
  BY DEF TypeOK
<1>2. \A p \in Payments : payment[p] \in Payment \cup {NoRow, Gone}
  BY DEF TypeOK
<1>3. NoRow.status \notin InvoiceStatus \cup PaymentStatus
      /\ Gone.status \notin InvoiceStatus \cup PaymentStatus
  BY DEF NoRow, Gone, InvoiceStatus, PaymentStatus
<1>4. \A x \in Invoice : x.status \in InvoiceStatus
  BY DEF Invoice
<1>5. \A x \in Payment : x.status \in PaymentStatus
  BY DEF Payment
<1> QED
  BY <1>1, <1>2, <1>3, <1>4, <1>5 DEF Exists, Stands

\* A row whose status is overwritten stays a row.
LEMMA StatusWritten ==
    /\ \A x \in Invoice, st \in InvoiceStatus : [x EXCEPT !.status = st] \in Invoice
    /\ \A x \in Payment, st \in PaymentStatus : [x EXCEPT !.status = st] \in Payment
<1>1. ASSUME NEW x \in Invoice, NEW st \in InvoiceStatus
      PROVE  [x EXCEPT !.status = st] \in Invoice
  BY DEF Invoice
<1>2. ASSUME NEW x \in Payment, NEW st \in PaymentStatus
      PROVE  [x EXCEPT !.status = st] \in Payment
  BY DEF Payment
<1> QED
  BY <1>1, <1>2

-----------------------------------------------------------------------------
(* Types *)

\* Putting a job into a slot, or emptying one, keeps the slots typed.
LEMMA WorkWritten ==
    ASSUME TypeOK, NEW w \in Workers, NEW job \in Work
    PROVE  [work EXCEPT ![w] = job] \in [Workers -> Work]
BY DEF TypeOK

LEMMA IdleIsWork == Idle \in Work
BY DEF Work

LEMMA CreateTypes ==
    ASSUME TypeOK, NEW w \in Workers, Create(w)
    PROVE  TypeOK'
<1>1. ASSUME NEW bills \in SUBSET Bills, NEW skip \in BOOLEAN, CreateRead(w, bills, skip)
      PROVE  TypeOK'
  <2> DEFINE job == [op |-> "create", bills |-> bills, skip |-> skip,
                     count |-> Cardinality({i \in Invoices : Exists(i)})]
  <2>1. job \in Work
    BY CountType DEF Work
  <2>2. work' = [work EXCEPT ![w] = job] /\ UNCHANGED <<invoice, payment, denda, now>>
    BY <1>1 DEF CreateRead, Begin
  <2> HIDE DEF job
  <2>3. work' \in [Workers -> Work]
    BY <2>1, <2>2, WorkWritten
  <2> QED
    BY <2>2, <2>3 DEF TypeOK
<1>2. CASE CreateCommit(w)
  <2>1. Doing(w, "create") /\ work[w].bills \subseteq Bills /\ work[w].count \in Nat
    BY <1>2, JobType DEF CreateCommit
  <2>2. IsFiniteSet(work[w].bills)
    BY <2>1, InvoicesAssumption, FS_Subset
  <2>3. PICK no \in Numbering(work[w].bills, work[w].count) :
        LET ok == {b \in work[w].bills : UniqueInvoice(b, no[b])}
            new == IF work[w].skip \/ ok = work[w].bills THEN ok ELSE {}
        IN \/ \E id \in Injection(new, Unused) :
                invoice' = [i \in Invoices |-> IF \E b \in new : id[b] = i
                    THEN LET b == CHOOSE b \in new : id[b] = i
                         IN [no |-> no[b], bill |-> b, status |-> "PENDING"]
                    ELSE invoice[i]]
           \/ Cardinality(Unused) < Cardinality(new) /\ UNCHANGED invoice
    BY <1>2 DEF CreateCommit
  <2>4. no \in [work[w].bills -> Nat]
    BY <2>1, <2>2, NumberingRight
  <2> DEFINE ok == {b \in work[w].bills : UniqueInvoice(b, no[b])}
             new == IF work[w].skip \/ ok = work[w].bills THEN ok ELSE {}
  <2>5. new \subseteq work[w].bills
    OBVIOUS
  <2>6. ASSUME NEW id \in Injection(new, Unused),
               invoice' = [i \in Invoices |-> IF \E b \in new : id[b] = i
                    THEN LET b == CHOOSE b \in new : id[b] = i
                         IN [no |-> no[b], bill |-> b, status |-> "PENDING"]
                    ELSE invoice[i]]
        PROVE  invoice' \in [Invoices -> Invoice \cup {NoRow, Gone}]
    <3> HIDE DEF new
    <3>1. ASSUME NEW b \in new
          PROVE  [no |-> no[b], bill |-> b, status |-> "PENDING"] \in Invoice
      BY <2>1, <2>4, <2>5 DEF Invoice, InvoiceStatus
    <3>2. \A i \in Invoices : invoice[i] \in Invoice \cup {NoRow, Gone}
      BY DEF TypeOK
    <3>3. ASSUME NEW i \in Invoices, \E b \in new : id[b] = i
          PROVE  (CHOOSE b \in new : id[b] = i) \in new
      BY <3>3
    <3> QED
      BY <2>6, <3>1, <3>2, <3>3
  <2>7. invoice' \in [Invoices -> Invoice \cup {NoRow, Gone}]
    BY <2>3, <2>6 DEF TypeOK
  <2>8. work' \in [Workers -> Work]
    BY <1>2, IdleIsWork, WorkWritten DEF CreateCommit, Finish
  <2> QED
    BY <1>2, <2>7, <2>8 DEF CreateCommit, TypeOK
<1> QED
  BY <1>1, <1>2 DEF Create

LEMMA RecordTypes ==
    ASSUME TypeOK, NEW w \in Workers, Record(w)
    PROVE  TypeOK'
<1>1. ASSUME NEW i \in Invoices, NEW touches \in SUBSET Invoices, NEW k \in Keys \cup {NoKey},
             RecordRead(w, i, touches, k)
      PROVE  TypeOK'
  <2> DEFINE job == [op |-> "record", invoice |-> i, touches |-> touches, key |-> k]
  <2>1. job \in Work
    BY DEF Work
  <2>2. work' = [work EXCEPT ![w] = job] /\ UNCHANGED <<invoice, payment, denda, now>>
    BY <1>1 DEF RecordRead, Begin
  <2> HIDE DEF job
  <2>3. work' \in [Workers -> Work]
    BY <2>1, <2>2, WorkWritten
  <2> QED
    BY <2>2, <2>3 DEF TypeOK
<1>2. CASE RecordCommit(w)
  <2>1. [invoice |-> work[w].invoice, touches |-> work[w].touches,
         status |-> "PENDING", key |-> work[w].key] \in Payment
    BY <1>2, JobType DEF RecordCommit, Payment, PaymentStatus
  <2>2. payment' \in [Payments -> Payment \cup {NoRow, Gone}]
    BY <1>2, <2>1 DEF RecordCommit, TypeOK
  <2>3. work' \in [Workers -> Work]
    BY <1>2, IdleIsWork, WorkWritten DEF RecordCommit, Finish
  <2> QED
    BY <1>2, <2>2, <2>3 DEF RecordCommit, TypeOK
<1> QED
  BY <1>1, <1>2 DEF Record

\* The primed state of a verification in progress: its slot with one more status.
LEMMA RecomputeFound ==
    ASSUME TypeOK, NEW w \in Workers, NEW i \in Invoices, VerifyRecompute(w, i)
    PROVE  \E st \in Found :
            /\ work' = [work EXCEPT ![w] = [work[w] EXCEPT !.found =
                                                [work[w].found EXCEPT ![i] = st]]]
            /\ [work[w] EXCEPT !.found = [work[w].found EXCEPT ![i] = st]] \in Work
            /\ Exists(i) => st = StatusFor(i, PaidSeen(w, i), now)
            /\ ~Exists(i) => st = "missing"
<1> DEFINE st == IF Exists(i) THEN StatusFor(i, PaidSeen(w, i), now) ELSE "missing"
<1>1. now \in Nat
  BY DEF TypeOK
<1>2. st \in Found
  BY <1>1, StatusForRight DEF Found
<1>3. work' = [work EXCEPT ![w].found[i] = st]
  BY DEF VerifyRecompute
<1> HIDE DEF st
<1>4. work' = [work EXCEPT ![w] = [work[w] EXCEPT !.found = [work[w].found EXCEPT ![i] = st]]]
  BY <1>3
<1>5. work[w] \in [op : {"verify"}, id : Payments, accept : BOOLEAN,
                   found : [Invoices -> Found]]
  BY JobType DEF VerifyRecompute
<1>6. [work[w] EXCEPT !.found = [work[w].found EXCEPT ![i] = st]]
        \in [op : {"verify"}, id : Payments, accept : BOOLEAN, found : [Invoices -> Found]]
  BY <1>2, <1>5
<1>7. [work[w] EXCEPT !.found = [work[w].found EXCEPT ![i] = st]] \in Work
  BY <1>6 DEF Work
<1> QED
  BY <1>2, <1>4, <1>7 DEF st

\* What a commit writes to an invoice: a status it computed, on a row that stands.
LEMMA CommitWrites ==
    ASSUME TypeOK, VerifyKnows, NEW w \in Workers, VerifyCommit(w)
    PROVE  /\ \A i \in Invoices : work[w].found[i] \in InvoiceStatus => Exists(i)
           /\ invoice' = [i \in Invoices |-> invoice'[i]]
           /\ \A i \in Invoices : invoice'[i] =
                IF work[w].found[i] \in InvoiceStatus
                THEN [invoice[i] EXCEPT !.status = work[w].found[i]] ELSE invoice[i]
<1>1. \A i \in Invoices : work[w].found[i] # "todo" => i \in payment[work[w].id].touches
  BY DEF VerifyKnows, FoundIsEarned, VerifyCommit
<1>2. "todo" \notin InvoiceStatus
  BY DEF InvoiceStatus
<1> QED
  BY <1>1, <1>2 DEF VerifyCommit

LEMMA VerifyTypes ==
    ASSUME TypeOK, VerifyKnows, NEW w \in Workers, Verify(w)
    PROVE  TypeOK'
<1>1. ASSUME NEW p \in Payments, NEW accept \in BOOLEAN, VerifyClaim(w, p, accept)
      PROVE  TypeOK'
  <2> DEFINE job == [op |-> "verify", id |-> p, accept |-> accept,
                     found |-> [i \in Invoices |-> "todo"]]
  <2>1. job \in Work
    BY DEF Work, Found
  <2>2. work' = [work EXCEPT ![w] = job] /\ UNCHANGED <<invoice, payment, denda, now>>
    BY <1>1 DEF VerifyClaim, Begin
  <2> HIDE DEF job
  <2>3. work' \in [Workers -> Work]
    BY <2>1, <2>2, WorkWritten
  <2> QED
    BY <2>2, <2>3 DEF TypeOK
<1>2. ASSUME NEW i \in Invoices, VerifyRecompute(w, i)
      PROVE  TypeOK'
  <2>1. PICK st \in Found :
            /\ work' = [work EXCEPT ![w] = [work[w] EXCEPT !.found =
                                                [work[w].found EXCEPT ![i] = st]]]
            /\ [work[w] EXCEPT !.found = [work[w].found EXCEPT ![i] = st]] \in Work
    BY <1>2, RecomputeFound
  <2>2. work' \in [Workers -> Work]
    BY <2>1, WorkWritten
  <2> QED
    BY <1>2, <2>2 DEF VerifyRecompute, TypeOK
<1>3. CASE VerifyCommit(w)
  <2>1. ASSUME NEW i \in Invoices
        PROVE  invoice'[i] \in Invoice \cup {NoRow, Gone}
    <3>1. CASE work[w].found[i] \in InvoiceStatus
      <4>1. Exists(i)
            /\ invoice'[i] = [invoice[i] EXCEPT !.status = work[w].found[i]]
        BY <1>3, <3>1, CommitWrites
      <4>2. invoice[i] \in Invoice
        BY <4>1, RowType
      <4> QED
        BY <3>1, <4>1, <4>2, StatusWritten
    <3>2. CASE work[w].found[i] \notin InvoiceStatus
      <4>1. invoice'[i] = invoice[i]
        BY <1>3, <3>2, CommitWrites
      <4> QED
        BY <4>1 DEF TypeOK
    <3> QED
      BY <3>1, <3>2
  <2>2. invoice' \in [Invoices -> Invoice \cup {NoRow, Gone}]
    BY <1>3, <2>1, CommitWrites
  <2>3. work[w].id \in Payments /\ payment[work[w].id].status = "PENDING"
    BY <1>3, JobType DEF VerifyCommit, VerifyKnows, ClaimIsGood
  <2>4. payment[work[w].id] \in Payment
    BY <2>3, RowType DEF Stands, PaymentStatus
  <2>5. payment' \in [Payments -> Payment \cup {NoRow, Gone}]
    <3> DEFINE st == IF work[w].accept THEN "PAID" ELSE "CANCELLED"
    <3>1. st \in PaymentStatus
      BY DEF PaymentStatus
    <3>2. payment' = [payment EXCEPT ![work[w].id] = [payment[work[w].id] EXCEPT !.status = st]]
      BY <1>3 DEF VerifyCommit
    <3> HIDE DEF st
    <3>3. [payment[work[w].id] EXCEPT !.status = st] \in Payment
      BY <2>4, <3>1, StatusWritten
    <3> QED
      BY <2>3, <3>2, <3>3 DEF TypeOK
  <2>6. work' \in [Workers -> Work]
    BY <1>3, IdleIsWork, WorkWritten DEF VerifyCommit, Finish
  <2> QED
    BY <1>3, <2>2, <2>5, <2>6 DEF VerifyCommit, TypeOK
<1> QED
  BY <1>1, <1>2, <1>3 DEF Verify

\* A step of the job changes its slot and nothing else of the slots, and stays typed.
LEMMA DendaWork ==
    ASSUME TypeOK, IsFiniteSet(denda), NEW w \in Workers, DendaJob(w)
    PROVE  work' \in [Workers -> Work]
<1>1. CASE DendaBegin(w)
  <2> DEFINE job == [op |-> "denda", pc |-> "late", at |-> now,
                     ids |-> {i \in Invoices : Late(i, now)}, count |-> 0]
  <2>1. job \in Work
    BY DEF Work, TypeOK
  <2>2. work' = [work EXCEPT ![w] = job]
    BY <1>1 DEF DendaBegin, Begin
  <2> HIDE DEF job
  <2> QED
    BY <2>1, <2>2, WorkWritten
<1>2. CASE DendaMark(w)
  <2>1. work' = [work EXCEPT ![w].pc = "marked", ![w].ids = {}]
    BY <1>2 DEF DendaMark
  <2>2. Doing(w, "denda") /\ work[w].count \in Nat
    BY <1>2, JobType DEF DendaMark, At
  <2>3. work[w] \in [op : {"denda"}, pc : {"late", "marked", "read", "counted"},
                     at : Nat, ids : SUBSET Invoices, count : Nat]
    BY <2>2, JobType
  <2>4. [work[w] EXCEPT !.pc = "marked", !.ids = {}] \in Work
    BY <2>3 DEF Work
  <2>5. work' = [work EXCEPT ![w] = [work[w] EXCEPT !.pc = "marked", !.ids = {}]]
    BY <2>1
  <2> QED
    BY <2>4, <2>5, WorkWritten
<1>3. CASE DendaRead(w)
  <2> DEFINE ids == {i \in Ruled :
                /\ invoice[i].status = "OVERDUE"
                /\ PaidOf(i) \notin Covers[i]
                /\ work[w].at - DueOf[i] > Grace
                /\ ~Charged(i, Period(work[w].at))}
  <2>1. work' = [work EXCEPT ![w].pc = "read", ![w].ids = ids]
    BY <1>3 DEF DendaRead
  <2>2. ids \subseteq Invoices
    BY InvoicesAssumption
  <2> HIDE DEF ids
  <2>3. work[w] \in [op : {"denda"}, pc : {"late", "marked", "read", "counted"},
                     at : Nat, ids : SUBSET Invoices, count : Nat]
    BY <1>3, JobType DEF DendaRead, At
  <2>4. [work[w] EXCEPT !.pc = "read", !.ids = ids] \in Work
    BY <2>2, <2>3 DEF Work
  <2>5. work' = [work EXCEPT ![w] = [work[w] EXCEPT !.pc = "read", !.ids = ids]]
    BY <2>1
  <2> QED
    BY <2>4, <2>5, WorkWritten
<1>4. ASSUME IsFiniteSet(denda), DendaCount(w)
      PROVE  work' \in [Workers -> Work]
  <2>1. work' = [work EXCEPT ![w].pc = "counted", ![w].count = Cardinality(denda)]
    BY <1>4 DEF DendaCount
  <2>2. Cardinality(denda) \in Nat
    BY <1>4, FS_CardinalityType
  <2>3. work[w] \in [op : {"denda"}, pc : {"late", "marked", "read", "counted"},
                     at : Nat, ids : SUBSET Invoices, count : Nat]
    BY <1>4, JobType DEF DendaCount, At
  <2>4. [work[w] EXCEPT !.pc = "counted", !.count = Cardinality(denda)] \in Work
    BY <2>2, <2>3 DEF Work
  <2>5. work' = [work EXCEPT ![w] = [work[w] EXCEPT !.pc = "counted",
                                                     !.count = Cardinality(denda)]]
    BY <2>1
  <2> QED
    BY <2>4, <2>5, WorkWritten
<1>5. CASE DendaCharge(w)
  BY <1>5, IdleIsWork, WorkWritten DEF DendaCharge, Finish
<1> QED
  BY <1>1, <1>2, <1>3, <1>4, <1>5 DEF DendaJob

LEMMA DendaTypes ==
    ASSUME TypeOK, IsFiniteSet(denda), NEW w \in Workers, DendaJob(w)
    PROVE  TypeOK'
<1>1. work' \in [Workers -> Work]
  BY DendaWork
<1>2. CASE DendaMark(w)
  <2>1. ASSUME NEW i \in Invoices, Exists(i)
        PROVE  [invoice[i] EXCEPT !.status = "OVERDUE"] \in Invoice
    BY <2>1, RowType, StatusWritten DEF InvoiceStatus
  <2>2. invoice' \in [Invoices -> Invoice \cup {NoRow, Gone}]
    BY <1>2, <2>1 DEF DendaMark, TypeOK
  <2> QED
    BY <1>1, <1>2, <2>2 DEF DendaMark, TypeOK
<1>3. CASE DendaCharge(w)
  <2>1. Doing(w, "denda") /\ work[w].ids \subseteq Invoices /\ work[w].count \in Nat
        /\ Period(work[w].at) \in Nat
    BY <1>3, JobType, PeriodType DEF DendaCharge, At
  <2>2. IsFiniteSet(work[w].ids)
    BY <2>1, InvoicesAssumption, FS_Subset
  <2>3. ASSUME NEW no \in Numbering(work[w].ids, work[w].count), NEW i \in work[w].ids
        PROVE  [invoice |-> i, period |-> Period(work[w].at), no |-> no[i],
                deleted |-> FALSE] \in Denda
    <3>1. no[i] \in Nat
      BY <2>1, <2>2, NumberingRight
    <3> QED
      BY <2>1, <3>1 DEF Denda
  <2>4. denda' \subseteq Denda
    BY <1>3, <2>3 DEF DendaCharge, TypeOK
  <2> QED
    BY <1>1, <1>3, <2>4 DEF DendaCharge, TypeOK
<1>4. CASE DendaBegin(w) \/ DendaRead(w) \/ DendaCount(w)
  BY <1>1, <1>4 DEF DendaBegin, DendaRead, DendaCount, TypeOK
<1> QED
  BY <1>2, <1>3, <1>4 DEF DendaJob

LEMMA TypeStep ==
    ASSUME TypeOK, IsFiniteSet(denda), VerifyKnows, [Next]_vars
    PROVE  TypeOK'
<1>1. ASSUME NEW w \in Workers, Create(w) \/ Record(w) \/ Verify(w) \/ DendaJob(w)
      PROVE  TypeOK'
  BY <1>1, CreateTypes, RecordTypes, VerifyTypes, DendaTypes
<1>2. ASSUME NEW w \in Workers, Abort(w)
      PROVE  TypeOK'
  <2>1. work' \in [Workers -> Work]
    BY <1>2, IdleIsWork, WorkWritten DEF Abort, Finish
  <2> QED
    BY <1>2, <2>1 DEF Abort, TypeOK
<1>3. ASSUME NEW i \in Invoices, Remove(i)
      PROVE  TypeOK'
  BY <1>3 DEF Remove, TypeOK
<1>4. ASSUME NEW d \in denda, DeleteDenda(d)
      PROVE  TypeOK'
  <2>1. [d EXCEPT !.deleted = TRUE] \in Denda
    BY DEF TypeOK, Denda
  <2> QED
    BY <1>4, <2>1 DEF DeleteDenda, TypeOK
<1>5. CASE Tick
  BY <1>5 DEF Tick, TypeOK
<1>6. CASE UNCHANGED vars
  BY <1>6 DEF vars, TypeOK
<1> QED
  BY <1>1, <1>2, <1>3, <1>4, <1>5, <1>6 DEF Next

-----------------------------------------------------------------------------
(* Late fees *)

LEMMA DendaStep ==
    ASSUME TypeOK, IsFiniteSet(denda), OneDendaPerPeriod, [Next]_vars
    PROVE  IsFiniteSet(denda') /\ OneDendaPerPeriod'
<1>1. ASSUME NEW w \in Workers, DendaCharge(w)
      PROVE  IsFiniteSet(denda') /\ OneDendaPerPeriod'
  <2>1. PICK no \in Numbering(work[w].ids, work[w].count) :
            denda' = denda \cup
                {d \in {[invoice |-> i, period |-> Period(work[w].at), no |-> no[i],
                         deleted |-> FALSE] : i \in work[w].ids} : UniqueDenda(d)}
    BY <1>1 DEF DendaCharge
  <2> DEFINE row(i) == [invoice |-> i, period |-> Period(work[w].at), no |-> no[i],
                        deleted |-> FALSE]
             rows == {row(i) : i \in work[w].ids}
             new == {d \in rows : UniqueDenda(d)}
  <2>2. IsFiniteSet(work[w].ids)
    BY <1>1, JobType, InvoicesAssumption, FS_Subset DEF DendaCharge, At
  <2>3. IsFiniteSet(rows)
    <3> DEFINE f == [i \in work[w].ids |-> row(i)]
    <3>1. f \in Surjection(work[w].ids, rows)
      BY DEF Surjection
    <3> QED
      BY <2>2, <3>1, FS_Surjection
  <2>4. IsFiniteSet(new)
    BY <2>3, FS_Subset
  <2>5. denda' = denda \cup new
    BY <2>1
  <2>6. IsFiniteSet(denda')
    BY <2>4, <2>5, FS_Union
  <2>7. ASSUME NEW d \in rows, NEW e \in rows, d.invoice = e.invoice
        PROVE  d = e
    <3>1. PICK i \in work[w].ids : d = row(i)
      OBVIOUS
    <3>2. PICK j \in work[w].ids : e = row(j)
      OBVIOUS
    <3>3. i = j
      BY <2>7, <3>1, <3>2
    <3> QED
      BY <3>1, <3>2, <3>3
  <2>8. \A d \in new, e \in denda : ~(e.invoice = d.invoice /\ e.period = d.period)
    BY DEF UniqueDenda
  <2> HIDE DEF rows
  <2>9. \A d, e \in denda' : d.invoice = e.invoice /\ d.period = e.period => d = e
    BY <2>5, <2>7, <2>8 DEF OneDendaPerPeriod
  <2> QED
    BY <2>6, <2>9 DEF OneDendaPerPeriod
<1>2. ASSUME NEW d \in denda, DeleteDenda(d)
      PROVE  IsFiniteSet(denda') /\ OneDendaPerPeriod'
  <2> DEFINE x == [d EXCEPT !.deleted = TRUE]
  <2>1. d \in Denda
    BY DEF TypeOK
  <2>2. x.invoice = d.invoice /\ x.period = d.period
    BY <2>1 DEF Denda
  <2>3. denda' = (denda \ {d}) \cup {x}
    BY <1>2 DEF DeleteDenda
  <2> HIDE DEF x
  <2>4. IsFiniteSet(denda')
    BY <2>3, FS_Subset, FS_AddElement
  <2>5. \A e, f \in denda' : e.invoice = f.invoice /\ e.period = f.period => e = f
    BY <2>2, <2>3 DEF OneDendaPerPeriod
  <2> QED
    BY <2>4, <2>5 DEF OneDendaPerPeriod
<1>3. CASE UNCHANGED denda
  BY <1>3 DEF OneDendaPerPeriod
<1>4. UNCHANGED denda \/ (\E w \in Workers : DendaCharge(w)) \/ \E d \in denda : DeleteDenda(d)
  BY DEF Next, vars, Create, CreateRead, CreateCommit, Record, RecordRead, RecordCommit,
         Verify, VerifyClaim, VerifyRecompute, VerifyCommit, DendaJob, DendaBegin, DendaMark,
         DendaRead, DendaCount, Abort, Remove, Tick
<1> QED
  BY <1>1, <1>2, <1>3, <1>4

-----------------------------------------------------------------------------
(* Invoices *)

\* Rows appear by CreateCommit only, go away by Remove only, and keep number and bill.
LEMMA InvoiceStep ==
    ASSUME TypeOK, VerifyKnows, [Next]_vars, \A w \in Workers : ~CreateCommit(w)
    PROVE  \A i \in Invoices : Exists(i)' =>
            Exists(i) /\ invoice'[i].no = invoice[i].no /\ invoice'[i].bill = invoice[i].bill
<1>1. \A x \in Invoice, st \in InvoiceStatus :
        [x EXCEPT !.status = st].no = x.no /\ [x EXCEPT !.status = st].bill = x.bill
  BY DEF Invoice
<1>2. ASSUME NEW w \in Workers, VerifyCommit(w), NEW i \in Invoices, Exists(i)'
      PROVE  Exists(i) /\ invoice'[i].no = invoice[i].no /\ invoice'[i].bill = invoice[i].bill
  <2>1. CASE work[w].found[i] \in InvoiceStatus
    <3>1. Exists(i) /\ invoice'[i] = [invoice[i] EXCEPT !.status = work[w].found[i]]
      BY <1>2, <2>1, CommitWrites
    <3>2. invoice[i] \in Invoice
      BY <3>1, RowType
    <3> QED
      BY <1>1, <2>1, <3>1, <3>2
  <2>2. CASE work[w].found[i] \notin InvoiceStatus
    <3>1. invoice'[i] = invoice[i]
      BY <1>2, <2>2, CommitWrites
    <3> QED
      BY <1>2, <3>1 DEF Exists
  <2> QED
    BY <2>1, <2>2
<1>3. ASSUME NEW w \in Workers, DendaMark(w), NEW i \in Invoices, Exists(i)'
      PROVE  Exists(i) /\ invoice'[i].no = invoice[i].no /\ invoice'[i].bill = invoice[i].bill
  <2>1. \/ invoice'[i] = invoice[i]
        \/ Exists(i) /\ invoice'[i] = [invoice[i] EXCEPT !.status = "OVERDUE"]
    BY <1>3 DEF DendaMark
  <2>2. CASE invoice'[i] = invoice[i]
    BY <1>3, <2>2 DEF Exists
  <2>3. CASE Exists(i) /\ invoice'[i] = [invoice[i] EXCEPT !.status = "OVERDUE"]
    BY <1>1, <2>3, RowType DEF InvoiceStatus
  <2> QED
    BY <2>1, <2>2, <2>3
<1>4. ASSUME NEW j \in Invoices, Remove(j), NEW i \in Invoices, Exists(i)'
      PROVE  invoice'[i] = invoice[i]
  <2>1. invoice' = [invoice EXCEPT ![j] = Gone]
    BY <1>4 DEF Remove
  <2>2. Gone.status \notin InvoiceStatus
    BY DEF Gone, InvoiceStatus
  <2>3. i # j
    BY <1>4, <2>1, <2>2 DEF Exists, TypeOK
  <2> QED
    BY <2>1, <2>3 DEF TypeOK
<1>5. UNCHANGED invoice \/ (\E w \in Workers : VerifyCommit(w) \/ DendaMark(w))
      \/ \E j \in Invoices : Remove(j)
  BY DEF Next, vars, Create, CreateRead, Record, RecordRead, RecordCommit,
         Verify, VerifyClaim, VerifyRecompute, DendaJob, DendaBegin, DendaRead, DendaCount,
         DendaCharge, DeleteDenda, Abort, Tick
<1> QED
  BY <1>2, <1>3, <1>4, <1>5 DEF Exists

\* What an insert does to each row.
LEMMA CreateRows ==
    ASSUME TypeOK, NEW w \in Workers, CreateCommit(w)
    PROVE  /\ \A i \in Invoices : invoice'[i] = invoice[i]
                \/ /\ invoice[i] = NoRow
                   /\ invoice'[i].status = "PENDING"
                   /\ UniqueInvoice(invoice'[i].bill, invoice'[i].no)
           /\ \A i, j \in Invoices :
                invoice'[i] # invoice[i] /\ invoice'[j] # invoice[j] /\ i # j =>
                    invoice'[i].bill # invoice'[j].bill /\ invoice'[i].no # invoice'[j].no
<1>1. Doing(w, "create") /\ work[w].bills \subseteq Bills /\ work[w].count \in Nat
  BY JobType DEF CreateCommit
<1>2. IsFiniteSet(work[w].bills)
  BY <1>1, InvoicesAssumption, FS_Subset
<1>3. PICK no \in Numbering(work[w].bills, work[w].count) :
        LET ok == {b \in work[w].bills : UniqueInvoice(b, no[b])}
            new == IF work[w].skip \/ ok = work[w].bills THEN ok ELSE {}
        IN \/ \E id \in Injection(new, Unused) :
                invoice' = [i \in Invoices |-> IF \E b \in new : id[b] = i
                    THEN LET b == CHOOSE b \in new : id[b] = i
                         IN [no |-> no[b], bill |-> b, status |-> "PENDING"]
                    ELSE invoice[i]]
           \/ Cardinality(Unused) < Cardinality(new) /\ UNCHANGED invoice
  BY DEF CreateCommit
<1>4. \A a, b \in work[w].bills : no[a] = no[b] => a = b
  BY <1>1, <1>2, NumberingRight
<1> DEFINE ok == {b \in work[w].bills : UniqueInvoice(b, no[b])}
           new == IF work[w].skip \/ ok = work[w].bills THEN ok ELSE {}
<1>5. new \subseteq work[w].bills /\ \A b \in new : UniqueInvoice(b, no[b])
  OBVIOUS
<1> HIDE DEF new
<1> DEFINE row(b) == [no |-> no[b], bill |-> b, status |-> "PENDING"]
<1>6. ASSUME NEW id \in Injection(new, Unused),
             invoice' = [i \in Invoices |-> IF \E b \in new : id[b] = i
                    THEN LET b == CHOOSE b \in new : id[b] = i
                         IN [no |-> no[b], bill |-> b, status |-> "PENDING"]
                    ELSE invoice[i]],
             NEW i \in Invoices, invoice'[i] # invoice[i]
      PROVE  \E b \in new : invoice[i] = NoRow /\ invoice'[i] = row(b) /\ id[b] = i
  <2> DEFINE b == CHOOSE b \in new : id[b] = i
  <2>1. \E c \in new : id[c] = i
    BY <1>6
  <2>2. b \in new /\ id[b] = i
    BY <2>1
  <2>3. invoice'[i] = row(b)
    BY <1>6, <2>1
  <2>4. invoice[i] = NoRow
    BY <2>2 DEF Injection, Unused
  <2> HIDE DEF b
  <2> QED
    BY <2>2, <2>3, <2>4
<1>7. PICK id : \A i \in Invoices : invoice'[i] # invoice[i] =>
        \E b \in new : invoice[i] = NoRow /\ invoice'[i] = row(b) /\ id[b] = i
  <2>1. CASE UNCHANGED invoice
    BY <2>1
  <2>2. CASE ~UNCHANGED invoice
    <3>1. PICK id \in Injection(new, Unused) :
                invoice' = [i \in Invoices |-> IF \E b \in new : id[b] = i
                    THEN LET b == CHOOSE b \in new : id[b] = i
                         IN [no |-> no[b], bill |-> b, status |-> "PENDING"]
                    ELSE invoice[i]]
      BY <1>3, <2>2 DEF new
    <3>2. \A i \in Invoices : invoice'[i] # invoice[i] =>
            \E b \in new : invoice[i] = NoRow /\ invoice'[i] = row(b) /\ id[b] = i
      BY <1>6, <3>1
    <3> QED
      BY <3>2
  <2> QED
    BY <2>1, <2>2
<1>8. \A b : row(b).no = no[b] /\ row(b).bill = b /\ row(b).status = "PENDING"
  OBVIOUS
<1> HIDE DEF row
<1>9. ASSUME NEW i \in Invoices, invoice'[i] # invoice[i]
      PROVE  /\ invoice[i] = NoRow /\ invoice'[i].status = "PENDING"
             /\ UniqueInvoice(invoice'[i].bill, invoice'[i].no)
  <2>1. PICK b \in new : invoice[i] = NoRow /\ invoice'[i] = row(b)
    BY <1>7, <1>9
  <2> QED
    BY <1>5, <1>8, <2>1
<1>10. ASSUME NEW i \in Invoices, NEW j \in Invoices, i # j,
              invoice'[i] # invoice[i], invoice'[j] # invoice[j]
       PROVE  invoice'[i].bill # invoice'[j].bill /\ invoice'[i].no # invoice'[j].no
  <2>1. PICK b \in new : invoice'[i] = row(b) /\ id[b] = i
    BY <1>7, <1>10
  <2>2. PICK c \in new : invoice'[j] = row(c) /\ id[c] = j
    BY <1>7, <1>10
  <2>3. b # c
    BY <1>10, <2>1, <2>2
  <2> QED
    BY <1>4, <1>5, <1>8, <2>1, <2>2, <2>3
<1> QED
  BY <1>9, <1>10

LEMMA BillStep ==
    ASSUME TypeOK, VerifyKnows, OneInvoicePerBill, [Next]_vars
    PROVE  OneInvoicePerBill'
<1>1. ASSUME NEW w \in Workers, CreateCommit(w)
      PROVE  OneInvoicePerBill'
  <2>1. \A i \in Invoices : \A b, n : Exists(i) /\ UniqueInvoice(b, n) =>
            invoice[i].bill # b /\ invoice[i].no # n
    BY DEF UniqueInvoice
  <2>2. \A i \in Invoices : Exists(i)' /\ invoice'[i] = invoice[i] => Exists(i)
    BY DEF Exists
  <2> QED
    BY <1>1, <2>1, <2>2, CreateRows DEF OneInvoicePerBill
<1>2. CASE \A w \in Workers : ~CreateCommit(w)
  BY <1>2, InvoiceStep DEF OneInvoicePerBill
<1> QED
  BY <1>1, <1>2

-----------------------------------------------------------------------------
(* Payments *)

\* What an insert of a payment does.
LEMMA RecordWrites ==
    ASSUME TypeOK, NEW w \in Workers, RecordCommit(w)
    PROVE  \/ UNCHANGED payment
           \/ \E p \in Payments :
                /\ payment[p] = NoRow
                /\ payment'[p] \in Payment /\ payment'[p].status = "PENDING"
                /\ payment'[p].key = work[w].key /\ KeyFree(work[w].key)
                /\ payment'[p].invoice = work[w].invoice /\ Exists(work[w].invoice)
                /\ \A q \in Payments : q # p => payment'[q] = payment[q]
<1> DEFINE row == [invoice |-> work[w].invoice, touches |-> work[w].touches,
                   status |-> "PENDING", key |-> work[w].key]
<1>1. row \in Payment
  BY JobType DEF RecordCommit, Payment, PaymentStatus
<1>2. row.status = "PENDING" /\ row.key = work[w].key /\ row.invoice = work[w].invoice
  OBVIOUS
<1>3. UNCHANGED payment \/ \E p \in Payments :
        /\ payment[p] = NoRow /\ KeyFree(work[w].key) /\ Exists(work[w].invoice)
        /\ payment' = [payment EXCEPT ![p] = row]
  BY DEF RecordCommit
<1> HIDE DEF row
<1>4. ASSUME NEW p \in Payments, payment' = [payment EXCEPT ![p] = row]
      PROVE  payment'[p] = row /\ \A q \in Payments : q # p => payment'[q] = payment[q]
  BY <1>4 DEF TypeOK
<1> QED
  BY <1>1, <1>2, <1>3, <1>4

\* What a verification does to its payment.
LEMMA CommitDecides ==
    ASSUME TypeOK, VerifyKnows, NEW w \in Workers, VerifyCommit(w)
    PROVE  /\ work[w].id \in Payments
           /\ payment[work[w].id] \in Payment
           /\ payment[work[w].id].status = "PENDING"
           /\ payment'[work[w].id].status = IF work[w].accept THEN "PAID" ELSE "CANCELLED"
           /\ payment'[work[w].id].invoice = payment[work[w].id].invoice
           /\ payment'[work[w].id].touches = payment[work[w].id].touches
           /\ payment'[work[w].id].key = payment[work[w].id].key
           /\ \A q \in Payments : q # work[w].id => payment'[q] = payment[q]
<1> DEFINE st == IF work[w].accept THEN "PAID" ELSE "CANCELLED"
           p == work[w].id
<1>1. p \in Payments /\ payment[p].status = "PENDING"
  BY JobType DEF VerifyCommit, VerifyKnows, ClaimIsGood
<1>2. payment[p] \in Payment
  BY <1>1, RowType DEF Stands, PaymentStatus
<1>3. payment' = [payment EXCEPT ![p] = [payment[p] EXCEPT !.status = st]]
  BY DEF VerifyCommit
<1> HIDE DEF st, p
<1>4. \A x \in Payment : LET y == [x EXCEPT !.status = st]
        IN y.status = st /\ y.invoice = x.invoice /\ y.touches = x.touches /\ y.key = x.key
  BY DEF Payment
<1>5. payment'[p] = [payment[p] EXCEPT !.status = st]
      /\ \A q \in Payments : q # p => payment'[q] = payment[q]
  BY <1>1, <1>3 DEF TypeOK
<1>6. /\ payment'[p].status = st /\ payment'[p].invoice = payment[p].invoice
      /\ payment'[p].touches = payment[p].touches /\ payment'[p].key = payment[p].key
  BY <1>2, <1>4, <1>5
<1> QED
  BY <1>1, <1>2, <1>5, <1>6 DEF p, st

\* No other step writes a payment, but Remove, which takes those of its invoice.
LEMMA PaymentWrites ==
    ASSUME TypeOK, [Next]_vars
    PROVE  \/ UNCHANGED payment
           \/ \E w \in Workers : RecordCommit(w) \/ VerifyCommit(w)
           \/ \E i \in Invoices : Remove(i)
BY DEF Next, vars, Create, CreateRead, CreateCommit, Record, RecordRead, Verify, VerifyClaim,
       VerifyRecompute, DendaJob, DendaBegin, DendaMark, DendaRead, DendaCount, DendaCharge,
       DeleteDenda, Abort, Tick

LEMMA RemoveTakes ==
    ASSUME TypeOK, NEW i \in Invoices, Remove(i)
    PROVE  /\ ~Exists(i)'
           /\ \A j \in Invoices : j # i => invoice'[j] = invoice[j]
           /\ \A p \in Payments :
                payment'[p] = IF Stands(p) /\ payment[p].invoice = i THEN Gone ELSE payment[p]
<1>1. Gone.status \notin InvoiceStatus
  BY DEF Gone, InvoiceStatus
<1>2. invoice'[i] = Gone /\ \A j \in Invoices : j # i => invoice'[j] = invoice[j]
  BY DEF Remove, TypeOK
<1>3. payment' = [p \in Payments |->
            IF Stands(p) /\ payment[p].invoice = i THEN Gone ELSE payment[p]]
  BY DEF Remove
<1>4. \A p \in Payments :
        payment'[p] = IF Stands(p) /\ payment[p].invoice = i THEN Gone ELSE payment[p]
  BY <1>3, Zenon
<1> QED
  BY <1>1, <1>2, <1>4 DEF Exists

LEMMA KeysStep ==
    ASSUME TypeOK, VerifyKnows, KeysOnce, [Next]_vars
    PROVE  KeysOnce'
<1>1. ASSUME NEW w \in Workers, RecordCommit(w), ~UNCHANGED payment
      PROVE  KeysOnce'
  <2>1. PICK p \in Payments :
                /\ payment[p] = NoRow
                /\ payment'[p].key = work[w].key /\ KeyFree(work[w].key)
                /\ \A q \in Payments : q # p => payment'[q] = payment[q]
    BY <1>1, RecordWrites
  <2>2. \A q \in Payments : q # p => (Stands(q)' <=> Stands(q))
    BY <2>1 DEF Stands
  <2>3. \A q \in Payments : q # p /\ Stands(q) /\ payment[q].key = work[w].key =>
            work[w].key = NoKey
    BY <2>1 DEF KeyFree
  <2> QED
    BY <2>1, <2>2, <2>3 DEF KeysOnce
<1>2. ASSUME NEW w \in Workers, VerifyCommit(w)
      PROVE  KeysOnce'
  <2>1. \A q \in Payments : payment'[q].key = payment[q].key /\ (Stands(q)' => Stands(q))
    BY <1>2, CommitDecides DEF Stands, PaymentStatus
  <2> QED
    BY <2>1 DEF KeysOnce
<1>3. ASSUME NEW i \in Invoices, Remove(i)
      PROVE  KeysOnce'
  <2>1. Gone.status \notin PaymentStatus
    BY DEF Gone, PaymentStatus
  <2>2. \A q \in Payments : Stands(q)' => Stands(q) /\ payment'[q] = payment[q]
    BY <1>3, <2>1, RemoveTakes DEF Stands
  <2> QED
    BY <2>2 DEF KeysOnce
<1>4. CASE UNCHANGED payment
  BY <1>4 DEF KeysOnce, Stands
<1> QED
  BY <1>1, <1>2, <1>3, <1>4, PaymentWrites

-----------------------------------------------------------------------------
(* Statuses *)

\* While an invoice stands, what is accepted for it stays accepted.
LEMMA PaidGrows ==
    ASSUME TypeOK, VerifyKnows, [Next]_vars, NEW i \in Invoices, Exists(i)'
    PROVE  PaidOf(i) \subseteq PaidOf(i)'
<1>1. ASSUME NEW w \in Workers, RecordCommit(w), ~UNCHANGED payment
      PROVE  PaidOf(i) \subseteq PaidOf(i)'
  <2>1. NoRow.status # "PAID"
    BY DEF NoRow
  <2> QED
    BY <1>1, <2>1, RecordWrites DEF PaidOf
<1>2. ASSUME NEW w \in Workers, VerifyCommit(w)
      PROVE  PaidOf(i) \subseteq PaidOf(i)'
  BY <1>2, CommitDecides DEF PaidOf
<1>3. ASSUME NEW j \in Invoices, Remove(j)
      PROVE  PaidOf(i) \subseteq PaidOf(i)'
  <2>1. i # j
    BY <1>3, RemoveTakes
  <2>2. \A p \in PaidOf(i) : payment'[p] = payment[p]
    BY <1>3, <2>1, RemoveTakes DEF PaidOf
  <2> QED
    BY <2>2 DEF PaidOf
<1>4. CASE UNCHANGED payment
  BY <1>4 DEF PaidOf
<1> QED
  BY <1>1, <1>2, <1>3, <1>4, PaymentWrites

\* How the status of an invoice changes; a row never comes back.
LEMMA InvoiceWrites ==
    ASSUME TypeOK, VerifyKnows, [Next]_vars, NEW i \in Invoices
    PROVE  /\ \/ invoice'[i] = invoice[i]
              \/ invoice'[i].status \in {"PENDING", "OVERDUE", "GONE"}
              \/ \E w \in Workers : VerifyCommit(w) /\ Exists(i)
                                    /\ invoice'[i].status = work[w].found[i]
           /\ invoice[i] # NoRow => invoice'[i] # NoRow
           /\ Exists(i)' => Exists(i) \/ invoice[i] = NoRow
<1> DEFINE Goal ==
            /\ \/ invoice'[i] = invoice[i]
               \/ invoice'[i].status \in {"PENDING", "OVERDUE", "GONE"}
               \/ \E w \in Workers : VerifyCommit(w) /\ Exists(i)
                                     /\ invoice'[i].status = work[w].found[i]
            /\ invoice[i] # NoRow => invoice'[i] # NoRow
            /\ Exists(i)' => Exists(i) \/ invoice[i] = NoRow
<1>1. NoRow.status = "NO_ROW" /\ Gone.status = "GONE"
      /\ "NO_ROW" \notin InvoiceStatus /\ "GONE" \notin InvoiceStatus
  BY DEF NoRow, Gone, InvoiceStatus
<1>2. \A x \in Invoice, st \in InvoiceStatus : [x EXCEPT !.status = st].status = st
  BY DEF Invoice
<1>3. CASE invoice'[i] = invoice[i]
  BY <1>3 DEF Exists
<1>4. ASSUME NEW w \in Workers, CreateCommit(w), invoice'[i] # invoice[i]
      PROVE  Goal
  BY <1>1, <1>4, CreateRows
<1>5. ASSUME NEW w \in Workers, VerifyCommit(w), invoice'[i] # invoice[i]
      PROVE  Goal
  <2>1. /\ work[w].found[i] \in InvoiceStatus /\ Exists(i)
        /\ invoice'[i] = [invoice[i] EXCEPT !.status = work[w].found[i]]
    BY <1>5, CommitWrites
  <2>2. invoice'[i].status = work[w].found[i]
    BY <1>2, <2>1, RowType
  <2> QED
    BY <1>1, <1>5, <2>1, <2>2
<1>6. ASSUME NEW w \in Workers, DendaMark(w), invoice'[i] # invoice[i]
      PROVE  Goal
  <2>1. Exists(i) /\ invoice'[i] = [invoice[i] EXCEPT !.status = "OVERDUE"]
    BY <1>6 DEF DendaMark
  <2>2. invoice'[i].status = "OVERDUE" /\ "OVERDUE" # "NO_ROW"
    BY <1>2, <2>1, RowType DEF InvoiceStatus
  <2> QED
    BY <1>1, <2>1, <2>2
<1>7. ASSUME NEW j \in Invoices, Remove(j), invoice'[i] # invoice[i]
      PROVE  Goal
  <2>1. invoice'[i] = Gone
    BY <1>7, RemoveTakes DEF Remove, TypeOK
  <2> QED
    BY <1>1, <2>1 DEF Exists
<1>8. \/ UNCHANGED invoice
      \/ \E w \in Workers : CreateCommit(w) \/ VerifyCommit(w) \/ DendaMark(w)
      \/ \E j \in Invoices : Remove(j)
  BY DEF Next, vars, Create, CreateRead, Record, RecordRead, RecordCommit,
         Verify, VerifyClaim, VerifyRecompute, DendaJob, DendaBegin, DendaRead, DendaCount,
         DendaCharge, DeleteDenda, Abort, Tick
<1> QED
  BY <1>3, <1>4, <1>5, <1>6, <1>7, <1>8

LEMMA PaidSeenType ==
    ASSUME TypeOK, NEW w \in Workers, Doing(w, "verify"), NEW i \in Invoices
    PROVE  PaidSeen(w, i) \in SUBSET Payments
BY JobType DEF PaidSeen, PaidOf

\* A verification whose slot and payment are left alone still knows what it knew.
LEMMA StillKnows ==
    ASSUME TypeOK, TypeOK', VerifyKnows, [Next]_vars,
           NEW w \in Workers, Doing(w, "verify"), work'[w] = work[w],
           payment'[work[w].id] = payment[work[w].id],
           \A v \in Workers : Doing(v, "verify")' /\ v # w => work'[v].id # work[w].id
    PROVE  Doing(w, "verify")' /\ ClaimIsGood(w)' /\ FoundIsEarned(w)'
<1>1. ClaimIsGood(w) /\ FoundIsEarned(w)
  BY DEF VerifyKnows
<1>2. Doing(w, "verify")'
  BY DEF Doing
<1>3. ClaimIsGood(w)'
  BY <1>1, <1>2 DEF ClaimIsGood
<1>4. ASSUME NEW i \in Invoices
      PROVE  /\ work'[w].found[i] # "todo" => i \in payment'[work'[w].id].touches
             /\ work'[w].found[i] \in {"PAID", "PARTIAL"} => invoice'[i] # NoRow
             /\ work'[w].found[i] = "PAID" /\ Exists(i)' => PaidSeen(w, i)' \in Covers[i]
             /\ work'[w].found[i] = "PARTIAL" /\ Exists(i)' => PaidSeen(w, i)' # {}
  <2>1. /\ work[w].found[i] # "todo" => i \in payment[work[w].id].touches
        /\ work[w].found[i] \in {"PAID", "PARTIAL"} => invoice[i] # NoRow
        /\ work[w].found[i] = "PAID" /\ Exists(i) => PaidSeen(w, i) \in Covers[i]
        /\ work[w].found[i] = "PARTIAL" /\ Exists(i) => PaidSeen(w, i) # {}
    BY <1>1 DEF FoundIsEarned
  <2>2. /\ invoice[i] # NoRow => invoice'[i] # NoRow
        /\ Exists(i)' => Exists(i) \/ invoice[i] = NoRow
    BY InvoiceWrites
  <2>3. ASSUME Exists(i)'
        PROVE  PaidSeen(w, i) \subseteq PaidSeen(w, i)'
    <3>1. PaidOf(i) \subseteq PaidOf(i)'
      BY <2>3, PaidGrows
    <3> QED
      BY <3>1 DEF PaidSeen
  <2>4. PaidSeen(w, i) \in SUBSET Payments /\ PaidSeen(w, i)' \in SUBSET Payments
    BY <1>2, PaidSeenType, JobType DEF PaidSeen, PaidOf
  <2>5. \A S \in Covers[i], T \in SUBSET Payments : S \subseteq T => T \in Covers[i]
    BY CoversAssumption
  <2>6. work'[w].found[i] = "PAID" /\ Exists(i)' => PaidSeen(w, i)' \in Covers[i]
    BY <2>1, <2>2, <2>3, <2>4, <2>5
  <2>7. work'[w].found[i] = "PARTIAL" /\ Exists(i)' => PaidSeen(w, i)' # {}
    BY <2>1, <2>2, <2>3
  <2> QED
    BY <2>1, <2>2, <2>6, <2>7
<1>5. FoundIsEarned(w)'
  BY <1>4 DEF FoundIsEarned
<1> QED
  BY <1>2, <1>3, <1>5

\* The slots of verifications: which steps put one there or change one.
LEMMA VerifySlots ==
    ASSUME TypeOK, [Next]_vars, NEW w \in Workers, Doing(w, "verify")'
    PROVE  \/ Doing(w, "verify") /\ work'[w] = work[w]
           \/ \E p \in Payments, accept \in BOOLEAN : VerifyClaim(w, p, accept)
           \/ \E i \in Invoices : VerifyRecompute(w, i)
<1>1. Idle.op # "verify"
  BY DEF Idle
<1>2. CASE UNCHANGED work
  BY <1>2 DEF Doing
<1>3. ASSUME NEW v \in Workers, \/ CreateCommit(v) \/ RecordCommit(v) \/ VerifyCommit(v)
                                \/ DendaCharge(v) \/ Abort(v)
      PROVE  Doing(w, "verify") /\ work'[w] = work[w]
  <2>1. work' = [work EXCEPT ![v] = Idle]
    BY <1>3 DEF CreateCommit, RecordCommit, VerifyCommit, DendaCharge, Abort, Finish
  <2> QED
    BY <1>1, <2>1 DEF Doing, TypeOK
<1>4. ASSUME NEW v \in Workers,
             \/ \E bills \in SUBSET Bills, skip \in BOOLEAN : CreateRead(v, bills, skip)
             \/ \E i \in Invoices, touches \in SUBSET Invoices, k \in Keys \cup {NoKey} :
                    RecordRead(v, i, touches, k)
             \/ DendaBegin(v)
      PROVE  Doing(w, "verify") /\ work'[w] = work[w]
  <2>1. \E job : work' = [work EXCEPT ![v] = job] /\ job.op # "verify"
    <3>1. ASSUME NEW bills, NEW skip, CreateRead(v, bills, skip)
          PROVE  \E job : work' = [work EXCEPT ![v] = job] /\ job.op # "verify"
      <4> DEFINE job == [op |-> "create", bills |-> bills, skip |-> skip,
                         count |-> Cardinality({i \in Invoices : Exists(i)})]
      <4>1. work' = [work EXCEPT ![v] = job] /\ job.op # "verify"
        BY <3>1 DEF CreateRead, Begin
      <4> HIDE DEF job
      <4> QED
        BY <4>1
    <3>2. ASSUME NEW i, NEW touches, NEW k, RecordRead(v, i, touches, k)
          PROVE  \E job : work' = [work EXCEPT ![v] = job] /\ job.op # "verify"
      <4> DEFINE job == [op |-> "record", invoice |-> i, touches |-> touches, key |-> k]
      <4>1. work' = [work EXCEPT ![v] = job] /\ job.op # "verify"
        BY <3>2 DEF RecordRead, Begin
      <4> HIDE DEF job
      <4> QED
        BY <4>1
    <3>3. ASSUME DendaBegin(v)
          PROVE  \E job : work' = [work EXCEPT ![v] = job] /\ job.op # "verify"
      <4> DEFINE job == [op |-> "denda", pc |-> "late", at |-> now,
                         ids |-> {i \in Invoices : Late(i, now)}, count |-> 0]
      <4>1. work' = [work EXCEPT ![v] = job] /\ job.op # "verify"
        BY <3>3 DEF DendaBegin, Begin
      <4> HIDE DEF job
      <4> QED
        BY <4>1
    <3> QED
      BY <1>4, <3>1, <3>2, <3>3
  <2> QED
    BY <2>1 DEF Doing, TypeOK
<1>5. ASSUME NEW v \in Workers, DendaMark(v) \/ DendaRead(v) \/ DendaCount(v)
      PROVE  Doing(w, "verify") /\ work'[w] = work[w]
  <2>1. Doing(v, "denda")
    BY <1>5 DEF DendaMark, DendaRead, DendaCount, At
  <2>2. work'[v].op = "denda" /\ \A u \in Workers : u # v => work'[u] = work[u]
    BY <1>5, <2>1, JobType DEF DendaMark, DendaRead, DendaCount, TypeOK
  <2> QED
    BY <2>2 DEF Doing
<1>6. ASSUME NEW v \in Workers, NEW p \in Payments, NEW accept \in BOOLEAN,
             VerifyClaim(v, p, accept), v # w
      PROVE  Doing(w, "verify") /\ work'[w] = work[w]
  BY <1>6 DEF VerifyClaim, Begin, Doing, TypeOK
<1>7. ASSUME NEW v \in Workers, NEW i \in Invoices, VerifyRecompute(v, i), v # w
      PROVE  Doing(w, "verify") /\ work'[w] = work[w]
  BY <1>7 DEF VerifyRecompute, Doing, TypeOK
<1>8. \/ UNCHANGED work
      \/ \E v \in Workers :
            \/ CreateCommit(v) \/ RecordCommit(v) \/ VerifyCommit(v) \/ DendaCharge(v) \/ Abort(v)
            \/ \E bills \in SUBSET Bills, skip \in BOOLEAN : CreateRead(v, bills, skip)
            \/ \E i \in Invoices, touches \in SUBSET Invoices, k \in Keys \cup {NoKey} :
                    RecordRead(v, i, touches, k)
            \/ DendaBegin(v)
            \/ DendaMark(v) \/ DendaRead(v) \/ DendaCount(v)
            \/ \E p \in Payments, accept \in BOOLEAN : VerifyClaim(v, p, accept)
            \/ \E i \in Invoices : VerifyRecompute(v, i)
  BY DEF Next, vars, Create, Record, Verify, DendaJob, Remove, DeleteDenda, Tick
<1> QED
  BY <1>2, <1>3, <1>4, <1>5, <1>6, <1>7, <1>8

LEMMA VerifyStep ==
    ASSUME TypeOK, TypeOK', VerifyKnows, [Next]_vars
    PROVE  VerifyKnows'
<1>1. ASSUME NEW w \in Workers, Doing(w, "verify")',
             Doing(w, "verify"), work'[w] = work[w]
      PROVE  ClaimIsGood(w)' /\ FoundIsEarned(w)'
  <2>1. ClaimIsGood(w) /\ work[w].id \in Payments
    BY <1>1, JobType DEF VerifyKnows
  <2>2. payment'[work[w].id] = payment[work[w].id]
    <3>1. ASSUME NEW v \in Workers, RecordCommit(v)
          PROVE  payment'[work[w].id] = payment[work[w].id]
      <4>1. NoRow.status # "PENDING"
        BY DEF NoRow
      <4> QED
        BY <2>1, <3>1, <4>1, RecordWrites DEF ClaimIsGood
    <3>2. ASSUME NEW v \in Workers, VerifyCommit(v)
          PROVE  payment'[work[w].id] = payment[work[w].id]
      <4>1. Doing(v, "verify") /\ work' = [work EXCEPT ![v] = Idle] /\ Idle.op # "verify"
        BY <3>2 DEF VerifyCommit, Finish, Idle
      <4>2. v # w
        BY <1>1, <4>1 DEF Doing, TypeOK
      <4>3. work[v].id # work[w].id
        BY <2>1, <4>1, <4>2 DEF ClaimIsGood
      <4> QED
        BY <2>1, <3>2, <4>3, CommitDecides
    <3>3. ASSUME NEW j \in Invoices, Remove(j)
          PROVE  payment'[work[w].id] = payment[work[w].id]
      <4>1. payment[work[w].id].invoice # j
        BY <1>1, <3>3 DEF Remove
      <4> QED
        BY <2>1, <3>3, <4>1, RemoveTakes
    <3> QED
      BY <3>1, <3>2, <3>3, PaymentWrites
  <2>3. ASSUME NEW v \in Workers, Doing(v, "verify")', v # w
        PROVE  work'[v].id # work[w].id
    <3>1. CASE Doing(v, "verify") /\ work'[v] = work[v]
      BY <2>1, <2>3, <3>1 DEF ClaimIsGood
    <3>2. ASSUME NEW p \in Payments, NEW accept \in BOOLEAN, VerifyClaim(v, p, accept)
          PROVE  work'[v].id # work[w].id
      <4>1. work'[v].id = p
        BY <3>2 DEF VerifyClaim, Begin, TypeOK
      <4>2. work[w].id # p
        BY <1>1, <3>2 DEF VerifyClaim, Claimable
      <4> QED
        BY <4>1, <4>2
    <3>3. ASSUME NEW i \in Invoices, VerifyRecompute(v, i)
          PROVE  work'[v].id # work[w].id
      <4>1. Doing(v, "verify") /\ work'[v].id = work[v].id
        BY <3>3, JobType DEF VerifyRecompute, TypeOK
      <4> QED
        BY <2>1, <2>3, <4>1 DEF ClaimIsGood
    <3> QED
      BY <2>3, <3>1, <3>2, <3>3, VerifySlots
  <2> QED
    BY <1>1, <2>2, <2>3, StillKnows
<1>2. ASSUME NEW w \in Workers, NEW p \in Payments, NEW accept \in BOOLEAN,
             VerifyClaim(w, p, accept)
      PROVE  ClaimIsGood(w)' /\ FoundIsEarned(w)'
  <2>1. /\ work'[w].id = p /\ \A i \in Invoices : work'[w].found[i] = "todo"
        /\ \A v \in Workers : v # w => work'[v] = work[v]
    BY <1>2 DEF VerifyClaim, Begin, TypeOK
  <2>2. /\ payment' = payment /\ payment[p].status = "PENDING"
        /\ \A v \in Workers : Doing(v, "verify") => work[v].id # p
    BY <1>2 DEF VerifyClaim, Claimable
  <2>3. ClaimIsGood(w)'
    BY <2>1, <2>2 DEF ClaimIsGood, Doing
  <2>4. FoundIsEarned(w)'
    BY <2>1 DEF FoundIsEarned
  <2> QED
    BY <2>3, <2>4
<1>3. ASSUME NEW w \in Workers, NEW i \in Invoices, VerifyRecompute(w, i)
      PROVE  ClaimIsGood(w)' /\ FoundIsEarned(w)'
  <2>1. Doing(w, "verify") /\ i \in payment[work[w].id].touches
        /\ UNCHANGED <<invoice, payment>>
    BY <1>3 DEF VerifyRecompute
  <2>2. PICK st \in Found :
            /\ work' = [work EXCEPT ![w] = [work[w] EXCEPT !.found =
                                                [work[w].found EXCEPT ![i] = st]]]
            /\ Exists(i) => st = StatusFor(i, PaidSeen(w, i), now)
            /\ ~Exists(i) => st = "missing"
    BY <1>3, RecomputeFound
  <2>3. /\ work'[w].id = work[w].id /\ work'[w].accept = work[w].accept
        /\ work'[w].found = [work[w].found EXCEPT ![i] = st]
        /\ \A v \in Workers : v # w => work'[v] = work[v]
    BY <2>1, <2>2, JobType DEF TypeOK
  <2>4. work'[w].found[i] = st
        /\ \A j \in Invoices : j # i => work'[w].found[j] = work[w].found[j]
    BY <2>1, <2>3, JobType
  <2>5. ClaimIsGood(w) /\ FoundIsEarned(w)
    BY <2>1 DEF VerifyKnows
  <2>6. ClaimIsGood(w)'
    BY <2>1, <2>3, <2>5 DEF ClaimIsGood, Doing
  <2>7. \A j \in Invoices : PaidSeen(w, j)' = PaidSeen(w, j) /\ (Exists(j)' <=> Exists(j))
    BY <2>1, <2>3 DEF PaidSeen, PaidOf, Exists
  <2>8. now \in Nat
    BY DEF TypeOK
  <2>9. Exists(i) => invoice[i] # NoRow
    BY DEF Exists, NoRow, InvoiceStatus
  <2>10. /\ st \in {"PAID", "PARTIAL"} => invoice[i] # NoRow
         /\ st = "PAID" /\ Exists(i) => PaidSeen(w, i) \in Covers[i]
         /\ st = "PARTIAL" /\ Exists(i) => PaidSeen(w, i) # {}
    BY <2>2, <2>8, <2>9, StatusForRight
  <2>11. FoundIsEarned(w)'
    BY <2>1, <2>3, <2>4, <2>5, <2>7, <2>10 DEF FoundIsEarned
  <2> QED
    BY <2>6, <2>11
<1> QED
  BY <1>1, <1>2, <1>3, VerifySlots DEF VerifyKnows

LEMMA StatusStep ==
    ASSUME TypeOK, VerifyKnows, StatusIsEarned, [Next]_vars
    PROVE  StatusIsEarned'
<1> SUFFICES ASSUME NEW i \in Invoices
             PROVE  /\ invoice'[i].status = "PAID" => PaidOf(i)' \in Covers[i]
                    /\ invoice'[i].status = "PARTIAL" => PaidOf(i)' # {}
  BY DEF StatusIsEarned, Accepted, PaidOf
<1>1. SUFFICES ASSUME invoice'[i].status \in {"PAID", "PARTIAL"}
               PROVE  /\ invoice'[i].status = "PAID" => PaidOf(i)' \in Covers[i]
                      /\ invoice'[i].status = "PARTIAL" => PaidOf(i)' # {}
  OBVIOUS
<1>2. Exists(i)'
  BY <1>1 DEF Exists, InvoiceStatus
<1>3. PaidOf(i) \subseteq PaidOf(i)'
  BY <1>2, PaidGrows
<1>4. PaidOf(i)' \in SUBSET Payments
  BY DEF PaidOf
<1>5. \A S \in Covers[i], T \in SUBSET Payments : S \subseteq T => T \in Covers[i]
  BY CoversAssumption
<1>6. CASE invoice'[i] = invoice[i]
  <2>1. /\ invoice[i].status = "PAID" => PaidOf(i) \in Covers[i]
        /\ invoice[i].status = "PARTIAL" => PaidOf(i) # {}
    BY DEF StatusIsEarned, Accepted, PaidOf
  <2> QED
    BY <1>3, <1>4, <1>5, <1>6, <2>1
<1>7. ASSUME NEW w \in Workers, VerifyCommit(w), Exists(i),
             invoice'[i].status = work[w].found[i]
      PROVE  /\ invoice'[i].status = "PAID" => PaidOf(i)' \in Covers[i]
             /\ invoice'[i].status = "PARTIAL" => PaidOf(i)' # {}
  <2>1. /\ work[w].found[i] = "PAID" => PaidSeen(w, i) \in Covers[i]
        /\ work[w].found[i] = "PARTIAL" => PaidSeen(w, i) # {}
    BY <1>7 DEF VerifyCommit, VerifyKnows, FoundIsEarned
  <2>2. PaidSeen(w, i) \subseteq PaidOf(i)'
    <3>1. work[w].accept /\ payment[work[w].id].invoice = i => work[w].id \in PaidOf(i)'
      BY <1>7, CommitDecides DEF PaidOf
    <3> QED
      BY <1>3, <3>1 DEF PaidSeen
  <2> QED
    BY <1>4, <1>5, <1>7, <2>1, <2>2
<1> QED
  BY <1>1, <1>6, <1>7, InvoiceWrites

-----------------------------------------------------------------------------
(* Theorems *)

LEMMA InitIInv == Init => IInv
<1> SUFFICES ASSUME Init
             PROVE  IInv
  OBVIOUS
<1>1. /\ NoRow.status \notin InvoiceStatus /\ NoRow.status \notin PaymentStatus
      /\ NoRow.status # "PAID" /\ NoRow.status # "PARTIAL" /\ Idle.op # "verify"
  BY DEF NoRow, Idle, InvoiceStatus, PaymentStatus
<1>2. TypeOK
  BY IdleIsWork DEF Init, TypeOK
<1>3. VerifyKnows
  BY <1>1 DEF Init, VerifyKnows, Doing
<1>4. OneInvoicePerBill /\ StatusIsEarned /\ KeysOnce
  BY <1>1 DEF Init, OneInvoicePerBill, StatusIsEarned, KeysOnce, Exists, Stands
<1>5. IsFiniteSet(denda) /\ OneDendaPerPeriod
  BY FS_EmptySet DEF Init, OneDendaPerPeriod
<1> QED
  BY <1>2, <1>3, <1>4, <1>5 DEF IInv

\* The inductive invariant: it holds in every reachable state, for any number of rows
\* and of requests in flight.
THEOREM Invariance == Spec => []IInv
<1>1. IInv /\ [Next]_vars => IInv'
  <2> SUFFICES ASSUME IInv, [Next]_vars
               PROVE  IInv'
    OBVIOUS
  <2>1. /\ TypeOK /\ IsFiniteSet(denda) /\ VerifyKnows /\ OneInvoicePerBill
        /\ StatusIsEarned /\ KeysOnce /\ OneDendaPerPeriod
    BY DEF IInv
  <2>2. TypeOK'
    BY <2>1, TypeStep
  <2>3. IsFiniteSet(denda') /\ OneDendaPerPeriod'
    BY <2>1, DendaStep
  <2>4. VerifyKnows'
    BY <2>1, <2>2, VerifyStep
  <2>5. OneInvoicePerBill' /\ StatusIsEarned' /\ KeysOnce'
    BY <2>1, BillStep, StatusStep, KeysStep
  <2> QED
    BY <2>2, <2>3, <2>4, <2>5 DEF IInv
<1> QED
  BY InitIInv, <1>1, PTL DEF Spec

\* The rows and the handlers in flight keep their types (the rows of schema.prisma, the
\* local variables of the handlers).
THEOREM TypeCorrect == Spec => []TypeOK
BY Invariance, PTL DEF IInv

\* A student has one invoice per type and period and no two invoices have one number,
\* however many creations and SPP runs interleave.
THEOREM InvoicesAreUnique == Spec => []OneInvoicePerBill
BY Invariance, PTL DEF IInv

\* No invoice is PAID beyond what was accepted for it, nor PARTIAL with nothing accepted,
\* although verify writes statuses it computed before other verifications committed.
THEOREM StatusFollowsPayments == Spec => []StatusIsEarned
BY Invariance, PTL DEF IInv

\* Overlapping runs of the late-fee job charge an invoice once per period.
THEOREM DendaIsChargedOnce == Spec => []OneDendaPerPeriod
BY Invariance, PTL DEF IInv

-----------------------------------------------------------------------------
(* The ledger of payments *)

\* The account of an invoice row and the entry of a payment row.
AccountFor(row) == IF row = NoRow THEN "none" ELSE IF row = Gone THEN "closed" ELSE "open"
EntryFor(row) ==
    IF row = NoRow THEN [state |-> "none"]
    ELSE IF row = Gone THEN [state |-> "erased"]
    ELSE [key |-> row.key, account |-> row.invoice,
          state |-> CASE row.status = "PENDING" -> "pending"
                      [] row.status = "PAID" -> "accepted"
                      [] row.status = "CANCELLED" -> "refused"]

LEMMA AccountIsFor ==
    /\ Account = [i \in Invoices |-> AccountFor(invoice[i])]
    /\ Account' = [i \in Invoices |-> AccountFor(invoice'[i])]
BY DEF Account, AccountFor

LEMMA AccountOfRow ==
    /\ AccountFor(NoRow) = "none" /\ AccountFor(Gone) = "closed"
    /\ \A row : row.status \in InvoiceStatus => AccountFor(row) = "open"
BY DEF AccountFor, NoRow, Gone, InvoiceStatus

LEMMA EntryIsFor ==
    /\ Entry = [p \in Payments |-> EntryFor(payment[p])]
    /\ Entry' = [p \in Payments |-> EntryFor(payment'[p])]
BY DEF Entry, EntryFor

\* Only an insert opens accounts, and only Remove closes one.
LEMMA AccountKept ==
    ASSUME TypeOK, VerifyKnows, [Next]_vars,
           \A w \in Workers : ~CreateCommit(w), \A i \in Invoices : ~Remove(i)
    PROVE  UNCHANGED Account
<1>1. \A x \in Invoice, st \in InvoiceStatus : [x EXCEPT !.status = st].status = st
  BY DEF Invoice
<1>2. ASSUME NEW i \in Invoices, invoice'[i] # invoice[i]
      PROVE  AccountFor(invoice'[i]) = AccountFor(invoice[i])
  <2>1. ASSUME NEW w \in Workers, VerifyCommit(w)
        PROVE  Exists(i) /\ Exists(i)'
    <3>1. /\ work[w].found[i] \in InvoiceStatus /\ Exists(i)
          /\ invoice'[i] = [invoice[i] EXCEPT !.status = work[w].found[i]]
      BY <1>2, <2>1, CommitWrites
    <3> QED
      BY <1>1, <3>1, RowType DEF Exists
  <2>2. ASSUME NEW w \in Workers, DendaMark(w)
        PROVE  Exists(i) /\ Exists(i)'
    <3>1. Exists(i) /\ invoice'[i] = [invoice[i] EXCEPT !.status = "OVERDUE"]
      BY <1>2, <2>2 DEF DendaMark
    <3>2. invoice'[i].status = "OVERDUE"
      BY <1>1, <3>1, RowType DEF InvoiceStatus
    <3> QED
      BY <3>1, <3>2 DEF Exists, InvoiceStatus
  <2>3. UNCHANGED invoice \/ \E w \in Workers : VerifyCommit(w) \/ DendaMark(w)
    BY DEF Next, vars, Create, CreateRead, Record, RecordRead, RecordCommit,
           Verify, VerifyClaim, VerifyRecompute, DendaJob, DendaBegin, DendaRead, DendaCount,
           DendaCharge, DeleteDenda, Abort, Tick
  <2>4. Exists(i) /\ Exists(i)'
    BY <1>2, <2>1, <2>2, <2>3
  <2> QED
    BY <2>4, AccountOfRow DEF Exists
<1> QED
  BY <1>2, AccountIsFor

\* An insert opens the accounts of the new invoices.
LEMMA CreateOpens ==
    ASSUME TypeOK, NEW w \in Workers, CreateCommit(w)
    PROVE  \E S \in SUBSET Invoices : Book!Open(S)
<1> DEFINE S == {i \in Invoices : invoice'[i] # invoice[i]}
<1>1. \A i \in S : invoice[i] = NoRow /\ invoice'[i].status = "PENDING"
  BY CreateRows
<1>2. \A i \in S : Account[i] = "none" /\ AccountFor(invoice'[i]) = "open"
  BY <1>1, AccountIsFor, AccountOfRow DEF InvoiceStatus
<1>3. \A i \in Invoices \ S : AccountFor(invoice'[i]) = Account[i]
  BY AccountIsFor
<1>4. UNCHANGED Entry
  BY EntryIsFor DEF CreateCommit
<1> HIDE DEF S
<1>5. S \subseteq Invoices
  BY DEF S
<1>6. Account' = [i \in Invoices |-> IF i \in S THEN "open" ELSE Account[i]]
  BY <1>2, <1>3, AccountIsFor
<1> QED
  BY <1>2, <1>4, <1>5, <1>6 DEF Book!Open

Row(state, row) == [state |-> state, key |-> row.key, account |-> row.invoice]

LEMMA EntryOfRow ==
    /\ EntryFor(NoRow) = Book!Blank
    /\ EntryFor(Gone) = Book!Erased
    /\ \A row \in Payment :
        /\ EntryFor(row).state \in Book!Standing
        /\ EntryFor(row).key = row.key /\ EntryFor(row).account = row.invoice
        /\ row.status = "PENDING" => EntryFor(row) = Row("pending", row)
        /\ row.status = "PAID" => EntryFor(row) = Row("accepted", row)
        /\ row.status = "CANCELLED" => EntryFor(row) = Row("refused", row)
<1>1. NoRow # Gone
  BY DEF NoRow, Gone
<1>2. \A row \in Payment : row # NoRow /\ row # Gone /\ row.status \in PaymentStatus
  BY DEF Payment, PaymentStatus, NoRow, Gone
<1>3. EntryFor(NoRow) = Book!Blank /\ EntryFor(Gone) = Book!Erased
  BY <1>1 DEF EntryFor, Book!Blank, Book!Erased
<1>4. ASSUME NEW row \in Payment
      PROVE  /\ EntryFor(row).state \in Book!Standing
             /\ EntryFor(row).key = row.key /\ EntryFor(row).account = row.invoice
             /\ row.status = "PENDING" => EntryFor(row) = Row("pending", row)
             /\ row.status = "PAID" => EntryFor(row) = Row("accepted", row)
             /\ row.status = "CANCELLED" => EntryFor(row) = Row("refused", row)
  <2>1. CASE row.status = "PENDING"
    BY <1>2, <2>1 DEF EntryFor, Row, Book!Standing
  <2>2. CASE row.status = "PAID"
    BY <1>2, <2>2 DEF EntryFor, Row, Book!Standing
  <2>3. CASE row.status = "CANCELLED"
    BY <1>2, <2>3 DEF EntryFor, Row, Book!Standing
  <2> QED
    BY <1>2, <2>1, <2>2, <2>3 DEF PaymentStatus
<1> QED
  BY <1>3, <1>4

\* An entry that is written leaves the others as they are.
LEMMA OneEntry ==
    ASSUME NEW p \in Payments, \A q \in Payments : q # p => payment'[q] = payment[q]
    PROVE  Entry' = [Entry EXCEPT ![p] = EntryFor(payment'[p])]
BY EntryIsFor

LEMMA RecordPosts ==
    ASSUME TypeOK, NEW w \in Workers, RecordCommit(w), ~UNCHANGED payment
    PROVE  \E i \in Invoices, p \in Payments, k \in Keys \cup {NoKey} : Book!Post(i, p, k)
<1>1. PICK p \in Payments :
            /\ payment[p] = NoRow
            /\ payment'[p] \in Payment /\ payment'[p].status = "PENDING"
            /\ payment'[p].key = work[w].key /\ KeyFree(work[w].key)
            /\ payment'[p].invoice = work[w].invoice /\ Exists(work[w].invoice)
            /\ \A q \in Payments : q # p => payment'[q] = payment[q]
  BY RecordWrites
<1> DEFINE k == work[w].key
           i == work[w].invoice
<1>2. k \in Keys \cup {NoKey} /\ i \in Invoices
  BY JobType DEF RecordCommit
<1>3. Entry[p] = Book!Blank
  BY <1>1, EntryIsFor, EntryOfRow
<1>4. Entry' = [Entry EXCEPT ![p] = Book!Pending(i, k)]
  BY <1>1, OneEntry, EntryOfRow DEF Row, Book!Pending
<1>5. ASSUME k # NoKey, NEW q \in Payments, Entry[q].state \in Book!Standing
      PROVE  Entry[q].key # k
  <2>1. Entry[q] = EntryFor(payment[q])
    BY EntryIsFor
  <2>2. payment[q] \notin {NoRow, Gone}
    BY <1>5, <2>1, EntryOfRow DEF Book!Standing, Book!Blank, Book!Erased
  <2>3. Stands(q) /\ payment[q] \in Payment
    BY <2>2, RowType
  <2>4. Entry[q].key = payment[q].key
    BY <2>1, <2>3, EntryOfRow
  <2> QED
    BY <1>1, <1>5, <2>3, <2>4 DEF KeyFree
<1>6. Account[i] = "open"
  BY <1>1, <1>2, AccountIsFor, AccountOfRow DEF Exists
<1>7. UNCHANGED Account
  BY AccountIsFor DEF RecordCommit
<1>8. Book!Post(i, p, k)
  BY <1>3, <1>4, <1>5, <1>6, <1>7 DEF Book!Post
<1> QED
  BY <1>2, <1>8

LEMMA CommitIsDecision ==
    ASSUME TypeOK, VerifyKnows, NEW w \in Workers, VerifyCommit(w), UNCHANGED Account
    PROVE  \E p \in Payments, verdict \in {"accepted", "refused"} : Book!Decide(p, verdict)
<1> DEFINE p == work[w].id
           verdict == IF work[w].accept THEN "accepted" ELSE "refused"
<1>1. /\ p \in Payments /\ payment[p] \in Payment /\ payment[p].status = "PENDING"
      /\ payment'[p].status = IF work[w].accept THEN "PAID" ELSE "CANCELLED"
      /\ payment'[p].key = payment[p].key /\ payment'[p].invoice = payment[p].invoice
      /\ \A q \in Payments : q # p => payment'[q] = payment[q]
  BY CommitDecides
<1>2. payment'[p] \in Payment
  <2>1. payment' = [payment EXCEPT ![p] = [payment[p] EXCEPT !.status =
                        IF work[w].accept THEN "PAID" ELSE "CANCELLED"]]
    BY DEF VerifyCommit
  <2> DEFINE st == IF work[w].accept THEN "PAID" ELSE "CANCELLED"
  <2>2. st \in PaymentStatus
    BY DEF PaymentStatus
  <2>3. payment'[p] = [payment[p] EXCEPT !.status = st]
    BY <1>1, <2>1 DEF TypeOK
  <2> HIDE DEF st, p
  <2> QED
    BY <1>1, <2>2, <2>3, StatusWritten
<1> HIDE DEF p
<1>3. Entry[p] = Row("pending", payment[p])
  BY <1>1, EntryIsFor, EntryOfRow
<1>4. EntryFor(payment'[p]) = Row(verdict, payment[p])
  BY <1>1, <1>2, EntryOfRow DEF Row
<1>5. Entry' = [Entry EXCEPT ![p] = Row(verdict, payment[p])]
  BY <1>1, <1>4, OneEntry
<1>6. [Entry[p] EXCEPT !.state = verdict] = Row(verdict, payment[p])
  BY <1>3 DEF Row
<1>7. verdict \in {"accepted", "refused"}
  OBVIOUS
<1> HIDE DEF verdict
<1>8. Entry' = [Entry EXCEPT ![p].state = verdict]
  BY <1>5, <1>6
<1>9. Entry[p].state = "pending"
  BY <1>3 DEF Row
<1>10. Book!Decide(p, verdict)
  BY <1>8, <1>9 DEF Book!Decide
<1> QED
  BY <1>1, <1>7, <1>10

LEMMA RemoveCloses ==
    ASSUME TypeOK, NEW i \in Invoices, Remove(i)
    PROVE  Book!Close(i)
<1>1. \A p \in Payments :
        payment'[p] = IF Stands(p) /\ payment[p].invoice = i THEN Gone ELSE payment[p]
  BY RemoveTakes
<1>2. Account[i] = "open"
  BY AccountIsFor, AccountOfRow DEF Remove, Exists
<1>3. Account' = [Account EXCEPT ![i] = "closed"]
  BY AccountIsFor, AccountOfRow DEF Remove, TypeOK
<1>4. ASSUME NEW p \in Payments
      PROVE  EntryFor(payment'[p]) = IF Book!Posted(i, p) THEN Book!Erased ELSE Entry[p]
  <2>1. Entry[p] = EntryFor(payment[p])
    BY EntryIsFor
  <2>2. CASE Stands(p)
    BY <1>1, <2>1, <2>2, RowType, EntryOfRow DEF Book!Posted
  <2>3. CASE ~Stands(p)
    <3>1. payment[p] \in {NoRow, Gone}
      BY <2>3, RowType
    <3>2. ~Book!Posted(i, p)
      BY <2>1, <3>1, EntryOfRow DEF Book!Posted, Book!Blank, Book!Erased, Book!Standing
    <3> QED
      BY <1>1, <2>1, <2>3, <3>2
  <2> QED
    BY <2>2, <2>3
<1>5. Entry' = [p \in Payments |-> IF Book!Posted(i, p) THEN Book!Erased ELSE Entry[p]]
  BY <1>4, EntryIsFor
<1> QED
  BY <1>2, <1>3, <1>5 DEF Book!Close

\* The handlers implement the ledger: a replayed request posts nothing twice, an entry is
\* posted to an invoice there is and accepted or refused once, and the removal of its
\* invoice, nothing else, erases it.
THEOREM Refinement == Spec => LedgerSpec
<1>1. Init => Book!Init
  BY EntryIsFor, EntryOfRow, AccountIsFor, AccountOfRow DEF Init, Book!Init
<1>2. IInv /\ [Next]_vars => [Book!Next]_<<Account, Entry>>
  <2> SUFFICES ASSUME IInv, [Next]_vars
               PROVE  [Book!Next]_<<Account, Entry>>
    OBVIOUS
  <2>1. TypeOK /\ VerifyKnows
    BY DEF IInv
  <2>2. ASSUME NEW w \in Workers, CreateCommit(w)
        PROVE  Book!Next
    BY <2>1, <2>2, CreateOpens DEF Book!Next
  <2>3. ASSUME NEW i \in Invoices, Remove(i)
        PROVE  Book!Next
    BY <2>1, <2>3, RemoveCloses DEF Book!Next
  <2>4. CASE /\ \A w \in Workers : ~CreateCommit(w)
             /\ \A i \in Invoices : ~Remove(i)
    <3>1. UNCHANGED Account
      BY <2>1, <2>4, AccountKept
    <3>2. CASE UNCHANGED payment
      BY <3>1, <3>2, EntryIsFor
    <3>3. ASSUME NEW w \in Workers, RecordCommit(w), ~UNCHANGED payment
          PROVE  Book!Next
      BY <2>1, <3>3, RecordPosts DEF Book!Next
    <3>4. ASSUME NEW w \in Workers, VerifyCommit(w)
          PROVE  Book!Next
      BY <2>1, <3>1, <3>4, CommitIsDecision DEF Book!Next
    <3> QED
      BY <2>1, <2>4, <3>2, <3>3, <3>4, PaymentWrites
  <2> QED
    BY <2>2, <2>3, <2>4
<1> QED
  BY <1>1, <1>2, Invariance, PTL DEF Spec, LedgerSpec, Book!Spec
=============================================================================
