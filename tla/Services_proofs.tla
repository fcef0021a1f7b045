--------------------------- MODULE Services_proofs --------------------------
(***************************************************************************)
(* Refunds, quizzes, permits, imports, submissions, admissions, erasures,  *)
(* the maintenance switch, sessions, the timetable, uploaded files and     *)
(* cached permissions, for any rows and requests.  The argument has the    *)
(* same shape for each service.  A request writes by id what it decided    *)
(* from rows it read earlier; what it may still rely on is what no other   *)
(* request takes back.  Where a property needs more, it speaks of requests *)
(* that do not overlap, and a second invariant says that nothing has moved *)
(* since they read.                                                        *)
(***************************************************************************)
EXTENDS Refund, Quiz, Permit, Import, Submission, Admission, Session, Maintenance,
        Timetable, Erasure, FileStore, PermissionCache, JobQueue_proofs, FiniteSetTheorems

-----------------------------------------------------------------------------
(* Refunds.                                                                *)

Deciding == {"keuangan-approves", "kepsek-approves", "rejects", "mark-paid", "book"}

\* A row as create inserts it.
NewRefund(row) == row \in Refunds /\ row.status = "PENDING" /\ ~row.keuangan

\* An approval once given is never withdrawn, and the size of a refund never
\* changes: so a request may rely on them although others write the row.
RefundCalls ==
    /\ at \in [Handlers -> {"free", "insert"} \cup Deciding]
    /\ held \in [Handlers -> {None} \cup [no : Numbers, row : Refunds]]
    /\ \A h \in Handlers : LET n == held[h].no IN
          /\ at[h] # "free" => held[h] \in [no : Numbers, row : Refunds]
          /\ at[h] = "insert" => NewRefund(held[h].row)
          /\ at[h] \in Deciding => refunds[n] \in Refunds
          /\ at[h] = "keuangan-approves" => held[h].row.large = refunds[n].large
          /\ at[h] = "kepsek-approves" => refunds[n].keuangan
          /\ at[h] \in {"mark-paid", "book"} =>
                refunds[n].keuangan /\ (refunds[n].large => refunds[n].kepsek)

ApprovedByKeuangan ==
    \A n \in Existing : refunds[n].status = "APPROVED_KEUANGAN" => refunds[n].keuangan

RefundInv == RefundTypeOK /\ RefundCalls /\ ApprovedByKeuangan /\ PaidOutWasApproved

LEMMA RefundInit0 == RefundInit => RefundInv
BY DEF RefundInit, RequestsInit, RefundInv, RefundTypeOK, RefundCalls, ApprovedByKeuangan,
       PaidOutWasApproved, Existing, Deciding

\* The next number is one the year has room for.
LEMMA NextNumber ==
    ASSUME Cardinality(Existing) < MaxRefunds
    PROVE  Cardinality(Existing) + 1 \in Numbers
<1>1. IsFiniteSet(Numbers) /\ Existing \subseteq Numbers
  BY FS_Interval, RefundAssumption DEF Numbers, Existing
<1>2. Cardinality(Existing) \in Nat
  BY <1>1, FS_Subset, FS_CardinalityType
<1> QED BY <1>2, RefundAssumption DEF Numbers

\* A step of one request that leaves the rows alone.
LEMMA RefundMove ==
    ASSUME RefundInv, NEW h \in Handlers, NEW call \in {"free", "insert"} \cup Deciding, NEW x,
           Goto(h, call, x), UNCHANGED refundRows,
           IF call = "free" THEN x = None ELSE x \in [no : Numbers, row : Refunds],
           call = "insert" => NewRefund(x.row),
           call \in Deciding => refunds[x.no] \in Refunds,
           call = "keuangan-approves" => x.row.large = refunds[x.no].large,
           call = "kepsek-approves" => refunds[x.no].keuangan,
           call \notin {"mark-paid", "book"}
    PROVE  RefundInv'
<1>1. at' = [at EXCEPT ![h] = call] /\ held' = [held EXCEPT ![h] = x]
  BY DEF Goto
<1>2. RefundCalls'
  BY <1>1 DEF RefundInv, RefundCalls, refundRows
<1> QED BY <1>2 DEF RefundInv, RefundTypeOK, ApprovedByKeuangan, PaidOutWasApproved, Existing,
                    refundRows

\* A step that writes the row a decision is about: an approval stays, the size
\* stays, and the status asks for no approval that is missing.
LEMMA RefundWrite ==
    ASSUME RefundInv, NEW h \in Handlers, at[h] \in Deciding, NEW row \in Refunds,
           NEW call \in {"free", "mark-paid", "book"}, NEW x,
           Goto(h, call, x), UNCHANGED cashOut,
           refunds' = [refunds EXCEPT ![held[h].no] = row],
           row.large = refunds[held[h].no].large,
           refunds[held[h].no].keuangan => row.keuangan,
           refunds[held[h].no].kepsek => row.kepsek,
           row.status \in {"APPROVED_KEUANGAN", "PAID"} => row.keuangan,
           row.status = "PAID" /\ row.large => row.kepsek,
           IF call = "free" THEN x = None
           ELSE /\ x \in [no : Numbers, row : Refunds] /\ x.no = held[h].no
                /\ row.keuangan /\ (row.large => row.kepsek)
    PROVE  RefundInv'
<1>1. /\ at' = [at EXCEPT ![h] = call] /\ held' = [held EXCEPT ![h] = x]
      /\ at \in [Handlers -> {"free", "insert"} \cup Deciding]
      /\ held \in [Handlers -> {None} \cup [no : Numbers, row : Refunds]]
      /\ refunds \in [Numbers -> Refunds \cup {None}]
  BY DEF Goto, RefundInv, RefundCalls, RefundTypeOK
<1>2. PICK n \in Numbers : held[h].no = n /\ refunds[n] \in Refunds
  BY DEF RefundInv, RefundCalls, Deciding
<1>3. /\ refunds' = [refunds EXCEPT ![n] = row] /\ refunds'[n] = row /\ row # None
      /\ \A m \in Numbers \ {n} : refunds'[m] = refunds[m]
  BY <1>1, <1>2, RefundRowAssumption
<1>4. RefundTypeOK'
  BY <1>1, <1>3 DEF RefundInv, RefundTypeOK
<1>5. ApprovedByKeuangan' /\ PaidOutWasApproved'
  BY <1>2, <1>3, RefundRowAssumption
     DEF RefundInv, ApprovedByKeuangan, PaidOutWasApproved, Existing
<1>6. ASSUME NEW g \in Handlers, g # h
      PROVE  LET m == held[g].no IN
          /\ at'[g] # "free" => held'[g] \in [no : Numbers, row : Refunds]
          /\ at'[g] = "insert" => NewRefund(held'[g].row)
          /\ at'[g] \in Deciding => refunds'[held'[g].no] \in Refunds
          /\ at'[g] = "keuangan-approves" => held'[g].row.large = refunds'[held'[g].no].large
          /\ at'[g] = "kepsek-approves" => refunds'[held'[g].no].keuangan
          /\ at'[g] \in {"mark-paid", "book"} =>
                /\ refunds'[held'[g].no].keuangan
                /\ refunds'[held'[g].no].large => refunds'[held'[g].no].kepsek
  <2>1. at'[g] = at[g] /\ held'[g] = held[g]
    BY <1>1, <1>6
  <2>2. CASE at[g] \in {"free", "insert"}
    BY <2>1, <2>2 DEF RefundInv, RefundCalls, Deciding
  <2>3. CASE at[g] \in Deciding
    <3>1. held[g] \in [no : Numbers, row : Refunds] /\ held[g].no \in Numbers
      BY <2>3 DEF RefundInv, RefundCalls, Deciding
    <3>2. CASE held[g].no = n
      BY <1>2, <1>3, <2>1, <2>3, <3>1, <3>2 DEF RefundInv, RefundCalls, Deciding
    <3>3. CASE held[g].no # n
      BY <1>2, <1>3, <2>1, <2>3, <3>1, <3>3 DEF RefundInv, RefundCalls, Deciding
    <3> QED BY <3>2, <3>3
  <2> QED BY <1>1, <2>2, <2>3
<1>7. RefundCalls'
  <2>1. /\ at' \in [Handlers -> {"free", "insert"} \cup Deciding]
        /\ held' \in [Handlers -> {None} \cup [no : Numbers, row : Refunds]]
    BY <1>1 DEF Deciding
  <2>2. at'[h] = call /\ held'[h] = x
    BY <1>1
  <2>3. call # "free" => x.no = n /\ refunds'[x.no] = row
    BY <1>2, <1>3
  <2> QED BY <1>6, <2>1, <2>2, <2>3 DEF RefundCalls, Deciding
<1> QED BY <1>4, <1>5, <1>7 DEF RefundInv

\* What an approval makes of the row.
LEMMA ApprovedRow ==
    ASSUME NEW r \in Refunds, NEW s \in RefundStates
    PROVE  /\ [r EXCEPT !.status = s, !.keuangan = TRUE] \in Refunds
           /\ [r EXCEPT !.status = s, !.kepsek = TRUE] \in Refunds
           /\ [r EXCEPT !.status = s, !.paidAt = TRUE] \in Refunds
           /\ [r EXCEPT !.status = s] \in Refunds
BY DEF Refunds

LEMMA RefundWrites ==
    ASSUME RefundInv, NEW h \in Handlers,
           KeuanganApproves(h) \/ KepsekApproves(h) \/ Rejects(h) \/ MarkPaidAt(h)
    PROVE  RefundInv'
<1>1. PICK n \in Numbers, r \in Refunds :
          /\ held[h].no = n /\ refunds[n] = r /\ at[h] \in Deciding /\ held[h].row \in Refunds
          /\ at[h] = "keuangan-approves" => held[h].row.large = r.large
          /\ at[h] \in {"kepsek-approves", "mark-paid"} => r.keuangan
          /\ at[h] = "mark-paid" /\ r.large => r.kepsek
          /\ r.status \in {"APPROVED_KEUANGAN", "PAID"} => r.keuangan
          /\ r.status = "PAID" /\ r.large => r.kepsek
  <2>1. at[h] \in {"keuangan-approves", "kepsek-approves", "rejects", "mark-paid"}
    BY DEF KeuanganApproves, KepsekApproves, Rejects, MarkPaidAt, Write
  <2>2. held[h].no \in Numbers /\ refunds[held[h].no] \in Refunds /\ held[h].row \in Refunds
    BY <2>1 DEF RefundInv, RefundCalls, Deciding
  <2>3. held[h].no \in Existing
    BY <2>2, RefundRowAssumption DEF Existing
  <2> QED BY <2>1, <2>2, <2>3
          DEF RefundInv, RefundCalls, ApprovedByKeuangan, PaidOutWasApproved, Deciding
<1>2. CASE KeuanganApproves(h)
  <2>1. PICK row \in Refunds :
            /\ row.large = r.large /\ row.keuangan /\ row.kepsek = r.kepsek
            /\ row.status = (IF r.large THEN "APPROVED_KEUANGAN" ELSE "PAID")
            /\ Write(h, "keuangan-approves", row, IF r.large THEN "free" ELSE "mark-paid")
    <3> DEFINE row == [r EXCEPT !.status = IF r.large THEN "APPROVED_KEUANGAN" ELSE "PAID",
                                !.keuangan = TRUE]
    <3>1. row \in Refunds
      BY ApprovedRow DEF RefundStates
    <3>2. /\ row.large = r.large /\ row.keuangan /\ row.kepsek = r.kepsek
          /\ row.status = (IF r.large THEN "APPROVED_KEUANGAN" ELSE "PAID")
      BY DEF Refunds
    <3>3. Write(h, "keuangan-approves", row, IF r.large THEN "free" ELSE "mark-paid")
      BY <1>1, <1>2 DEF KeuanganApproves, NeedsKepsek, Write
    <3> HIDE DEF row
    <3> QED BY <3>1, <3>2, <3>3
  <2>2. CASE r.large
    BY <1>1, <2>1, <2>2, RefundWrite DEF Write, Answer
  <2>3. CASE ~r.large
    BY <1>1, <2>1, <2>3, RefundWrite DEF Write, Holding
  <2> QED BY <2>2, <2>3
<1>3. CASE KepsekApproves(h) \/ MarkPaidAt(h)
  <2>1. r.keuangan
    BY <1>1, <1>3 DEF KepsekApproves, MarkPaidAt, Write
  <2>2. PICK row \in Refunds, next \in {"mark-paid", "book"} :
            /\ row.large = r.large /\ row.keuangan /\ (r.kepsek => row.kepsek)
            /\ row.status = "PAID" /\ (row.large => row.kepsek)
            /\ Write(h, at[h], row, next)
    <3>1. CASE KepsekApproves(h)
      <4> DEFINE row == [r EXCEPT !.status = "PAID", !.kepsek = TRUE]
      <4>1. row \in Refunds
        BY ApprovedRow DEF RefundStates
      <4>2. row.large = r.large /\ row.keuangan /\ row.kepsek /\ row.status = "PAID"
        BY <2>1 DEF Refunds
      <4>3. Write(h, at[h], row, "mark-paid")
        BY <1>1, <3>1 DEF KepsekApproves, Write
      <4> HIDE DEF row
      <4> QED BY <4>1, <4>2, <4>3
    <3>2. CASE MarkPaidAt(h)
      <4> DEFINE row == [r EXCEPT !.status = "PAID", !.paidAt = TRUE]
      <4>1. row \in Refunds
        BY ApprovedRow DEF RefundStates
      <4>2. row.large = r.large /\ row.keuangan /\ row.kepsek = r.kepsek /\ row.status = "PAID"
        BY <2>1 DEF Refunds
      <4>3. Write(h, at[h], row, "book") /\ at[h] = "mark-paid"
        BY <1>1, <3>2 DEF MarkPaidAt, Write
      <4> HIDE DEF row
      <4> QED BY <1>1, <4>1, <4>2, <4>3
    <3> QED BY <1>3, <3>1, <3>2
  <2> QED BY <1>1, <2>1, <2>2, RefundWrite DEF Write, Holding
<1>4. CASE Rejects(h)
  <2>1. PICK row \in Refunds :
            /\ row.large = r.large /\ row.keuangan = r.keuangan /\ row.kepsek = r.kepsek
            /\ row.status = "REJECTED"
            /\ Write(h, "rejects", row, "free")
    <3> DEFINE row == [r EXCEPT !.status = "REJECTED"]
    <3>1. row \in Refunds
      BY ApprovedRow DEF RefundStates
    <3>2. /\ row.large = r.large /\ row.keuangan = r.keuangan /\ row.kepsek = r.kepsek
          /\ row.status = "REJECTED"
      BY DEF Refunds
    <3>3. Write(h, "rejects", row, "free")
      BY <1>1, <1>4 DEF Rejects, Write
    <3> HIDE DEF row
    <3> QED BY <3>1, <3>2, <3>3
  <2> QED BY <1>1, <2>1, RefundWrite DEF Write, Answer
<1> QED BY <1>2, <1>3, <1>4

\* The other steps: a request begins, inserts the row it prepared, books the
\* cash, or fails.
LEMMA RefundOthers ==
    ASSUME RefundInv, NEW h \in Handlers,
           \/ \E large \in BOOLEAN : NextRefundNo(h, large)
           \/ InsertRefund(h) \/ BookCashOut(h) \/ RefundFails(h)
           \/ \E n \in Numbers : KeuanganReads(h, n) \/ KepsekReads(h, n)
    PROVE  RefundInv'
<1>1. CASE \E large \in BOOLEAN : NextRefundNo(h, large)
  <2>1. PICK large \in BOOLEAN : NextRefundNo(h, large)
    BY <1>1
  <2>2. PICK row \in Refunds : /\ NewRefund(row)
                               /\ Goto(h, "insert", Holding(Cardinality(Existing) + 1, row))
    <3> DEFINE row == [large |-> large, status |-> "PENDING", keuangan |-> FALSE,
                       kepsek |-> FALSE, paidAt |-> FALSE]
    <3>1. row \in Refunds /\ NewRefund(row)
      BY DEF Refunds, RefundStates, NewRefund
    <3>2. Goto(h, "insert", Holding(Cardinality(Existing) + 1, row))
      BY <2>1 DEF NextRefundNo
    <3> HIDE DEF row
    <3> QED BY <3>1, <3>2
  <2>3. PICK n \in Numbers : n = Cardinality(Existing) + 1
    BY <2>1, NextNumber DEF NextRefundNo
  <2> QED BY <2>1, <2>2, <2>3, RefundMove DEF NextRefundNo, Holding, Deciding
<1>2. CASE InsertRefund(h) /\ refunds[held[h].no] = None
  <2>1. PICK n \in Numbers, row \in Refunds :
            /\ held[h].no = n /\ held[h].row = row /\ NewRefund(row) /\ refunds[n] = None
            /\ refunds' = [refunds EXCEPT ![n] = row]
    BY <1>2 DEF InsertRefund, RefundInv, RefundCalls
  <2>2. /\ refunds' \in [Numbers -> Refunds \cup {None}] /\ refunds'[n] = row
        /\ \A m \in Numbers \ {n} : refunds'[m] = refunds[m]
    BY <2>1 DEF RefundInv, RefundTypeOK
  <2>3. /\ at' = [at EXCEPT ![h] = "free"] /\ held' = [held EXCEPT ![h] = None]
        /\ cashOut' = cashOut
    BY <1>2 DEF InsertRefund, Answer, Goto
  <2>4. PaidOutWasApproved' /\ ApprovedByKeuangan'
    BY <2>1, <2>2, <2>3 DEF RefundInv, PaidOutWasApproved, ApprovedByKeuangan, Existing,
                            NewRefund
  <2>5. RefundCalls'
    <3>1. \A g \in Handlers : at[g] \in Deciding => held[g].no \in Numbers \ {n}
      BY <2>1, RefundRowAssumption DEF RefundInv, RefundCalls, Deciding
    <3> QED BY <2>2, <2>3, <3>1 DEF RefundInv, RefundCalls, Deciding
  <2> QED BY <2>2, <2>3, <2>4, <2>5 DEF RefundInv, RefundTypeOK
<1>3. CASE BookCashOut(h)
  <2>1. PICK n \in Numbers :
            /\ held[h].no = n /\ n \in Existing /\ refunds[n].keuangan
            /\ refunds[n].large => refunds[n].kepsek
            /\ cashOut' = [cashOut EXCEPT ![n] = @ + 1]
    BY <1>3, RefundRowAssumption DEF BookCashOut, RefundInv, RefundCalls, Deciding, Existing
  <2>2. RefundTypeOK' /\ PaidOutWasApproved' /\ ApprovedByKeuangan'
    BY <1>3, <2>1 DEF BookCashOut, RefundInv, RefundTypeOK, PaidOutWasApproved,
                      ApprovedByKeuangan, Existing
  <2>3. RefundCalls'
    BY <1>3 DEF BookCashOut, Answer, Goto, RefundInv, RefundCalls, Deciding
  <2> QED BY <2>2, <2>3 DEF RefundInv
<1>4. CASE RefundFails(h) \/ (InsertRefund(h) /\ refunds[held[h].no] # None)
  BY <1>4, RefundMove DEF RefundFails, InsertRefund, Answer, refundRows, Deciding
<1>5. CASE \E n \in Numbers : KeuanganReads(h, n) \/ KepsekReads(h, n)
  <2>1. PICK n \in Numbers, call \in {"keuangan-approves", "kepsek-approves", "rejects"} :
            \/ DecisionRead(h, n, "PENDING", call) /\ call # "kepsek-approves"
            \/ DecisionRead(h, n, "APPROVED_KEUANGAN", call) /\ call # "keuangan-approves"
    BY <1>5 DEF KeuanganReads, KepsekReads
  <2>2. n \in Existing /\ refunds[n] \in Refunds
    BY <2>1, RefundRowAssumption DEF DecisionRead, Existing, RefundInv, RefundTypeOK
  <2>3. call = "kepsek-approves" => refunds[n].keuangan
    BY <2>1, <2>2 DEF DecisionRead, RefundInv, ApprovedByKeuangan
  <2>4. PICK x \in [no : Numbers, row : Refunds] :
            x = Holding(n, refunds[n]) /\ x.no = n /\ x.row = refunds[n]
    <3>1. /\ Holding(n, refunds[n]) \in [no : Numbers, row : Refunds]
          /\ Holding(n, refunds[n]).no = n /\ Holding(n, refunds[n]).row = refunds[n]
      BY <2>2 DEF Holding
    <3> QED BY <3>1
  <2>5. Goto(h, call, x) /\ UNCHANGED refundRows
    BY <2>1, <2>4 DEF DecisionRead
  <2> QED BY <2>2, <2>3, <2>4, <2>5, RefundMove DEF Deciding
<1> QED BY <1>1, <1>2, <1>3, <1>4, <1>5

LEMMA RefundInvariance == RefundSpec => []RefundInv
<1>1. RefundInv /\ [RefundNext]_refundVars => RefundInv'
  <2>1. RefundInv /\ UNCHANGED refundVars => RefundInv'
    BY DEF RefundInv, RefundTypeOK, RefundCalls, ApprovedByKeuangan, PaidOutWasApproved,
           Existing, refundVars, refundRows, requestVars
  <2> QED BY <2>1, RefundWrites, RefundOthers DEF RefundNext, RefundStep
<1> QED BY <1>1, RefundInit0, PTL DEF RefundSpec

\* However the requests overlap, cash leaves for a refund, and it counts as
\* paid, only with the approvals its size asks for (refund.service.ts:
\* approvals are added to the row and never withdrawn).
THEOREM PaidIsApproved == RefundSpec => []PaidOutWasApproved
BY RefundInvariance, PTL DEF RefundInv

\* While requests do not overlap: the status a request has checked is still
\* there, and the cash of its refund has not left.
RefundStage(h) == LET n == held[h].no IN
    /\ at[h] = "keuangan-approves" => refunds[n].status = "PENDING"
    /\ at[h] = "kepsek-approves" => refunds[n].status = "APPROVED_KEUANGAN"
    /\ at[h] = "rejects" => refunds[n].status \in {"PENDING", "APPROVED_KEUANGAN"}
    /\ at[h] = "mark-paid" => refunds[n].status = "PAID"
    /\ at[h] = "book" => refunds[n].status = "PAID" /\ refunds[n].paidAt
    /\ at[h] \in Deciding => cashOut[n] = 0

CashOnce ==
    \A n \in Numbers : cashOut[n] > 0 =>
        cashOut[n] = 1 /\ refunds[n].status = "PAID" /\ refunds[n].paidAt

OneRequest == \A g, h \in Handlers : at[g] # "free" /\ at[h] # "free" => g = h

RefundAlone == alone => OneRequest /\ CashOnce /\ \A h \in Handlers : RefundStage(h)

\* The one request moves; the others stay away.
LEMMA RefundAloneStep ==
    ASSUME RefundInv, RefundAlone, NEW h \in Handlers, NEW call, NEW x, Goto(h, call, x),
           at[h] # "free" \/ MayStart(h),
           alone => CashOnce' /\ RefundStage(h)'
    PROVE  RefundAlone'
<1>1. /\ at' = [at EXCEPT ![h] = call] /\ alone' = alone
      /\ at \in [Handlers -> {"free", "insert"} \cup Deciding]
  BY DEF Goto, RefundInv, RefundCalls
<1>2. CASE alone
  <2>1. \A g \in Handlers \ {h} : at'[g] = "free"
    BY <1>1, <1>2 DEF RefundAlone, OneRequest, MayStart
  <2>2. OneRequest' /\ \A g \in Handlers \ {h} : RefundStage(g)'
    BY <2>1 DEF OneRequest, RefundStage, Deciding
  <2> QED BY <1>2, <2>2 DEF RefundAlone
<1> QED BY <1>1, <1>2 DEF RefundAlone

LEMMA RefundAloneReads ==
    ASSUME RefundInv, RefundAlone, NEW h \in Handlers,
           \/ \E large \in BOOLEAN : NextRefundNo(h, large)
           \/ InsertRefund(h) \/ RefundFails(h)
           \/ \E n \in Numbers : KeuanganReads(h, n) \/ KepsekReads(h, n)
    PROVE  RefundAlone'
<1>1. /\ at \in [Handlers -> {"free", "insert"} \cup Deciding]
      /\ held \in [Handlers -> {None} \cup [no : Numbers, row : Refunds]]
  BY DEF RefundInv, RefundCalls
<1>2. CASE \E large \in BOOLEAN : NextRefundNo(h, large)
  <2>1. PICK x : Goto(h, "insert", x)
    BY <1>2 DEF NextRefundNo
  <2>2. MayStart(h) /\ UNCHANGED refundRows
    BY <1>2 DEF NextRefundNo
  <2>3. alone => CashOnce' /\ RefundStage(h)'
    BY <1>1, <2>1, <2>2 DEF RefundAlone, CashOnce, RefundStage, Goto, refundRows, Deciding
  <2> QED BY <2>1, <2>2, <2>3, RefundAloneStep
<1>3. CASE InsertRefund(h) \/ RefundFails(h)
  <2>1. Goto(h, "free", None) /\ at[h] # "free" /\ UNCHANGED cashOut
    BY <1>3 DEF InsertRefund, RefundFails, Answer, refundRows
  <2>2. RefundStage(h)'
    BY <1>1, <2>1 DEF RefundStage, Goto, Deciding
  <2>3. \A n \in Existing : refunds'[n] = refunds[n]
    BY <1>1, <1>3, RefundRowAssumption
       DEF InsertRefund, RefundFails, refundRows, Existing, RefundInv, RefundTypeOK
  <2>4. alone => CashOnce'
    BY <2>1, <2>3 DEF RefundAlone, CashOnce, RefundInv, PaidOutWasApproved, Existing
  <2> QED BY <2>1, <2>2, <2>4, RefundAloneStep
<1>4. CASE \E n \in Numbers : KeuanganReads(h, n) \/ KepsekReads(h, n)
  <2>1. PICK n \in Numbers, call \in {"keuangan-approves", "kepsek-approves", "rejects"} :
            \/ DecisionRead(h, n, "PENDING", call) /\ call # "kepsek-approves"
            \/ DecisionRead(h, n, "APPROVED_KEUANGAN", call) /\ call # "keuangan-approves"
    BY <1>4 DEF KeuanganReads, KepsekReads
  <2>2. /\ Goto(h, call, Holding(n, refunds[n])) /\ MayStart(h) /\ UNCHANGED refundRows
        /\ refunds[n].status \in {"PENDING", "APPROVED_KEUANGAN"}
        /\ call = "keuangan-approves" => refunds[n].status = "PENDING"
        /\ call = "kepsek-approves" => refunds[n].status = "APPROVED_KEUANGAN"
    BY <2>1 DEF DecisionRead
  <2>3. alone => cashOut[n] = 0
    BY <2>2 DEF RefundAlone, CashOnce, RefundInv, RefundTypeOK
  <2>4. at'[h] = call /\ held'[h].no = n
    BY <1>1, <2>2 DEF Goto, Holding
  <2>5. alone => CashOnce' /\ RefundStage(h)'
    BY <2>2, <2>3, <2>4 DEF RefundAlone, CashOnce, RefundStage, refundRows
  <2> QED BY <2>2, <2>5, RefundAloneStep
<1> QED BY <1>2, <1>3, <1>4

\* A request that writes the row it is deciding about.
LEMMA RefundAloneWrite ==
    ASSUME RefundInv, RefundAlone, NEW h \in Handlers, at[h] \in Deciding,
           NEW n \in Numbers, held[h].no = n,
           NEW row, NEW call \in {"free", "mark-paid", "book"}, NEW x, Goto(h, call, x),
           refunds' = [refunds EXCEPT ![n] = row], cashOut' = cashOut,
           call # "free" => x.no = n /\ row.status = "PAID",
           call = "book" => row.paidAt
    PROVE  RefundAlone'
<1>1. /\ at \in [Handlers -> {"free", "insert"} \cup Deciding]
      /\ held \in [Handlers -> {None} \cup [no : Numbers, row : Refunds]]
      /\ refunds \in [Numbers -> Refunds \cup {None}] /\ cashOut \in [Numbers -> Nat]
  BY DEF RefundInv, RefundCalls, RefundTypeOK
<1>2. refunds'[n] = row /\ \A m \in Numbers \ {n} : refunds'[m] = refunds[m]
  BY <1>1
<1>3. alone => cashOut[n] = 0
  BY DEF RefundAlone, RefundStage
<1>4. alone => CashOnce'
  BY <1>2, <1>3 DEF RefundAlone, CashOnce
<1>5. at'[h] = call /\ held'[h] = x
  BY <1>1 DEF Goto
<1>6. alone => RefundStage(h)'
  BY <1>2, <1>3, <1>5 DEF RefundStage, Deciding
<1>7. at[h] # "free"
  BY DEF Deciding
<1> QED BY <1>4, <1>6, <1>7, RefundAloneStep

LEMMA RefundAloneWrites ==
    ASSUME RefundInv, RefundAlone, NEW h \in Handlers,
           \/ KeuanganApproves(h) \/ KepsekApproves(h) \/ Rejects(h) \/ MarkPaidAt(h)
           \/ BookCashOut(h)
    PROVE  RefundAlone'
<1>1. PICK n \in Numbers, r \in Refunds :
          held[h].no = n /\ refunds[n] = r /\ at[h] \in Deciding
  <2>1. at[h] \in Deciding
    BY DEF KeuanganApproves, KepsekApproves, Rejects, MarkPaidAt, Write, BookCashOut, Deciding
  <2> QED BY <2>1 DEF RefundInv, RefundCalls, Deciding
<1>2. CASE BookCashOut(h)
  <2>1. /\ at \in [Handlers -> {"free", "insert"} \cup Deciding]
        /\ held \in [Handlers -> {None} \cup [no : Numbers, row : Refunds]]
        /\ cashOut \in [Numbers -> Nat]
    BY DEF RefundInv, RefundCalls, RefundTypeOK
  <2>2. cashOut' = [cashOut EXCEPT ![n] = @ + 1] /\ refunds' = refunds /\ at[h] = "book"
    BY <1>1, <1>2 DEF BookCashOut
  <2>3. alone => CashOnce'
    BY <1>1, <2>1, <2>2 DEF RefundAlone, CashOnce, RefundStage, Deciding
  <2>4. RefundStage(h)' /\ Goto(h, "free", None)
    BY <2>1, <1>2 DEF BookCashOut, Answer, Goto, RefundStage, Deciding
  <2> QED BY <2>2, <2>3, <2>4, RefundAloneStep
<1>3. CASE KeuanganApproves(h)
  <2> DEFINE large == held[h].row.large
             row == [r EXCEPT !.status = IF large THEN "APPROVED_KEUANGAN" ELSE "PAID",
                              !.keuangan = TRUE]
  <2>1. Write(h, "keuangan-approves", row, IF large THEN "free" ELSE "mark-paid")
    BY <1>1, <1>3 DEF KeuanganApproves, NeedsKepsek, Write
  <2>2. ~large => row.status = "PAID"
    BY DEF Refunds
  <2>3. refunds' = [refunds EXCEPT ![n] = row] /\ cashOut' = cashOut
    BY <1>1, <2>1 DEF Write
  <2>4. IF large THEN Goto(h, "free", None) ELSE Goto(h, "mark-paid", Holding(n, row))
    BY <1>1, <2>1 DEF Write, Answer
  <2> HIDE DEF row, large
  <2>5. Holding(n, row).no = n
    BY DEF Holding
  <2> QED BY <1>1, <2>2, <2>3, <2>4, <2>5, RefundAloneWrite
<1>4. CASE KepsekApproves(h)
  <2> DEFINE row == [r EXCEPT !.status = "PAID", !.kepsek = TRUE]
  <2>1. Write(h, "kepsek-approves", row, "mark-paid") /\ row.status = "PAID"
    BY <1>1, <1>4 DEF KepsekApproves, Write, Refunds
  <2> HIDE DEF row
  <2>2. Goto(h, "mark-paid", Holding(n, row)) /\ Holding(n, row).no = n
    BY <1>1, <2>1 DEF Write, Holding
  <2> QED BY <1>1, <2>1, <2>2, RefundAloneWrite DEF Write
<1>5. CASE MarkPaidAt(h)
  <2> DEFINE row == [r EXCEPT !.status = "PAID", !.paidAt = TRUE]
  <2>1. Write(h, "mark-paid", row, "book") /\ row.status = "PAID" /\ row.paidAt
    BY <1>1, <1>5 DEF MarkPaidAt, Write, Refunds
  <2> HIDE DEF row
  <2>2. Goto(h, "book", Holding(n, row)) /\ Holding(n, row).no = n
    BY <1>1, <2>1 DEF Write, Holding
  <2> QED BY <1>1, <2>1, <2>2, RefundAloneWrite DEF Write
<1>6. CASE Rejects(h)
  <2> DEFINE row == [r EXCEPT !.status = "REJECTED"]
  <2>1. Write(h, "rejects", row, "free")
    BY <1>1, <1>6 DEF Rejects, Write
  <2> HIDE DEF row
  <2> QED BY <1>1, <2>1, RefundAloneWrite DEF Write, Answer
<1> QED BY <1>2, <1>3, <1>4, <1>5, <1>6

\* While requests do not overlap, whatever fails half-way, cash leaves at most
\* once for a refund, and never for one that is not PAID and dated (markPaid is
\* reached once: no approval finds the row in its state again).
THEOREM CashIsBookedOnce == RefundSpec => []CashLeavesOnce
<1>1. RefundInit => RefundAlone
  BY DEF RefundInit, RequestsInit, RefundAlone, OneRequest, CashOnce, RefundStage, Deciding
<1>2. RefundInv /\ RefundAlone /\ [RefundNext]_refundVars => RefundAlone'
  <2>1. RefundAlone /\ UNCHANGED refundVars => RefundAlone'
    BY DEF RefundAlone, OneRequest, CashOnce, RefundStage, refundVars, refundRows, requestVars
  <2> QED BY <2>1, RefundAloneReads, RefundAloneWrites DEF RefundNext, RefundStep
<1>3. RefundAlone => CashLeavesOnce
  BY DEF RefundAlone, CashOnce, CashLeavesOnce
<1> QED BY <1>1, <1>2, <1>3, RefundInvariance, PTL DEF RefundSpec

-----------------------------------------------------------------------------
(* Quizzes.                                                                *)

\* The score is a percentage.
LEMMA Percentage ==
    ASSUME NEW c \in Nat, NEW t \in Nat, c <= t, t > 0
    PROVE  (200 * c + t) \div (2 * t) \in 0..100
<1>1. PICK n \in Nat, d \in Nat : n = 200 * c + t /\ d = 2 * t /\ n < 101 * d /\ d > 0
  OBVIOUS
<1>2. PICK q \in Int : q = n \div d
  BY <1>1
<1>3. d * q <= n /\ n < d * q + d
  BY <1>1, <1>2
<1>4. q < 101
  <2> SUFFICES ASSUME q >= 101 PROVE FALSE
    BY <1>2
  <2>1. PICK k \in Nat : q = 101 + k
    <3>1. q - 101 \in Nat /\ q = 101 + (q - 101)
      BY <1>2
    <3> QED BY <3>1
  <2>2. d * q = d * 101 + d * k /\ d * k >= 0
    BY <1>1, <2>1
  <2> QED BY <1>1, <1>3, <2>2
<1>5. q >= 0
  <2> SUFFICES ASSUME q < 0 PROVE FALSE
    BY <1>2
  <2>1. PICK k \in Nat : q = 0 - 1 - k
    <3>1. 0 - 1 - q \in Nat /\ q = 0 - 1 - (0 - 1 - q)
      BY <1>2
    <3> QED BY <3>1
  <2>2. d * q + d = 0 - d * k /\ d * k >= 0
    BY <1>1, <2>1
  <2> QED BY <1>1, <1>3, <2>2
<1> QED BY <1>1, <1>2, <1>4, <1>5

LEMMA ScoreType ==
    ASSUME NEW map \in AnswerMaps
    PROVE  ScoreOf(map) \in Scores /\ ScoreOf(map) # None
<1> DEFINE right == {q \in DOMAIN map : map[q] = Correct[q]}
<1>1. right \subseteq Questions /\ IsFiniteSet(Questions)
  BY QuizAssumption DEF AnswerMaps
<1>2. /\ Cardinality(right) \in Nat /\ Cardinality(Questions) \in Nat
      /\ Cardinality(right) <= Cardinality(Questions)
  BY <1>1, FS_Subset, FS_CardinalityType
<1> HIDE DEF right
<1>3. ScoreOf(map) = IF Cardinality(Questions) = 0 THEN 0
                     ELSE (200 * Cardinality(right) + Cardinality(Questions))
                             \div (2 * Cardinality(Questions))
  BY DEF ScoreOf, right
<1>4. ScoreOf(map) \in Scores
  <2>1. CASE Cardinality(Questions) = 0
    BY <1>3, <2>1 DEF Scores
  <2>2. CASE Cardinality(Questions) # 0
    <3>1. PICK c \in Nat, t \in Nat :
              c = Cardinality(right) /\ t = Cardinality(Questions) /\ c <= t /\ t > 0
      BY <1>2, <2>2
    <3>2. (200 * c + t) \div (2 * t) \in 0..100
      BY <3>1, Percentage
    <3> QED BY <1>3, <2>2, <3>1, <3>2 DEF Scores
  <2> QED BY <2>1, <2>2
<1> QED BY <1>4, QuizRowAssumption

Finished == {"SUBMITTED", "AUTO_SUBMITTED"}

LEMMA NewAttempt ==
    [status |-> "IN_PROGRESS", answers |-> NoAnswers, score |-> None] \in AttemptRows
<1>1. NoAnswers \in AnswerMaps
  BY DEF NoAnswers, AnswerMaps
<1> QED BY <1>1 DEF AttemptRows

\* A map with one more answer is a map.
LEMMA AnswerStays ==
    ASSUME NEW map \in AnswerMaps, NEW q \in Questions, NEW reply \in Replies
    PROVE  [p \in DOMAIN map \cup {q} |-> IF p = q THEN reply ELSE map[p]] \in AnswerMaps
<1>1. PICK Q \in SUBSET Questions : map \in [Q -> Replies]
  BY DEF AnswerMaps
<1>2. [p \in DOMAIN map \cup {q} |-> IF p = q THEN reply ELSE map[p]]
          \in [Q \cup {q} -> Replies]
  BY <1>1
<1>3. Q \cup {q} \in SUBSET Questions
  OBVIOUS
<1> QED BY <1>2, <1>3 DEF AnswerMaps

QuizCallNames == {"free", "save", "submit", "sweep", "finish-page"}

\* Attempts as they were read.
RowMaps == UNION {[I -> AttemptRows] : I \in SUBSET Sittings}

\* An attempt is never removed: what a request has read is still there.
QuizCallType(call, x) ==
    /\ call # "free" => x.rows \in RowMaps /\ \A i \in DOMAIN x.rows : attempts[i] # None
    /\ call = "save" => /\ \E i \in Sittings : DOMAIN x.rows = {i}
                        /\ x.with.q \in Questions /\ x.with.reply \in Replies
    /\ call \in {"submit", "sweep", "finish-page"} => x.with \in Finished

QuizCalls == /\ at \in [Handlers -> QuizCallNames]
             /\ DOMAIN held = Handlers
             /\ \A h \in Handlers : QuizCallType(at[h], held[h])

QuizInv == QuizTypeOK /\ QuizCalls /\ GradeIsScore

LEMMA QuizInit0 == QuizInit => QuizInv
<1> SUFFICES ASSUME QuizInit PROVE QuizInv
  OBVIOUS
<1>1. NoAnswers \in AnswerMaps
  BY DEF NoAnswers, AnswerMaps
<1>2. QuizTypeOK
  BY <1>1 DEF QuizInit, QuizTypeOK
<1> QED BY <1>2 DEF QuizInit, RequestsInit, QuizInv, QuizCalls, QuizCallNames, QuizCallType,
                    GradeIsScore, Open

\* Reading some attempts.
LEMMA RowsType ==
    ASSUME QuizInv, NEW I, I \subseteq Sittings, \A i \in I : attempts[i] # None
    PROVE  Rows(I) \in RowMaps /\ DOMAIN Rows(I) = I /\ \A i \in I : Rows(I)[i] = attempts[i]
BY DEF Rows, RowMaps, QuizInv, QuizTypeOK

\* A step of one request that leaves the tables alone.
LEMMA QuizMove ==
    ASSUME QuizInv, NEW h \in Handlers, NEW call \in QuizCallNames, NEW x, Goto(h, call, x),
           UNCHANGED quizRows, QuizCallType(call, x)
    PROVE  QuizInv'
<1>1. QuizCallType(call, x)' /\ \A g \in Handlers \ {h} : QuizCallType(at[g], held[g])'
  BY DEF QuizInv, QuizCalls, QuizCallType, Goto, quizRows
<1>2. QuizCalls'
  BY <1>1 DEF QuizInv, QuizCalls, Goto
<1> QED BY <1>2 DEF QuizInv, QuizTypeOK, GradeIsScore, Open, quizRows

\* A step that writes attempts and removes none.
LEMMA QuizWrite ==
    ASSUME QuizInv, NEW h \in Handlers, NEW call \in QuizCallNames, NEW x, Goto(h, call, x),
           QuizTypeOK', GradeIsScore',
           \A i \in Sittings : attempts[i] # None => attempts'[i] # None,
           QuizCallType(call, x)'
    PROVE  QuizInv'
<1>1. \A g \in Handlers \ {h} : QuizCallType(at[g], held[g])'
  BY DEF QuizInv, QuizCalls, QuizCallType, Goto, RowMaps
<1>2. QuizCalls'
  BY <1>1 DEF QuizInv, QuizCalls, Goto
<1> QED BY <1>2 DEF QuizInv

\* The requests that only read.
LEMMA QuizReads ==
    ASSUME QuizInv, NEW h \in Handlers,
           \/ \E i \in Sittings : SaveRead(h, i) \/ SubmitRead(h, i)
           \/ SweepStarts(h) \/ SweepPage(h) \/ QuizFails(h)
    PROVE  QuizInv'
<1>0. Rows({}) \in RowMaps /\ DOMAIN Rows({}) = {}
  BY RowsType
<1>1. CASE \E i \in Sittings : SaveRead(h, i) \/ SubmitRead(h, i)
  <2>1. PICK i \in Sittings : SaveRead(h, i) \/ SubmitRead(h, i)
    BY <1>1
  <2>2. attempts[i] # None /\ UNCHANGED quizRows
    BY <2>1 DEF SaveRead, SubmitRead, Saveable, Open
  <2>3. Rows({i}) \in RowMaps /\ DOMAIN Rows({i}) = {i}
    BY <2>2, RowsType
  <2>4. CASE SaveRead(h, i)
    <3>1. PICK q \in Questions, r \in Replies :
              Goto(h, "save", Reading(Rows({i}), [q |-> q, reply |-> r], 0))
      BY <2>4 DEF SaveRead
    <3>2. QuizCallType("save", Reading(Rows({i}), [q |-> q, reply |-> r], 0))
      BY <2>2, <2>3 DEF QuizCallType, Reading
    <3> QED BY <2>2, <3>1, <3>2, QuizMove DEF QuizCallNames
  <2>5. CASE SubmitRead(h, i)
    <3>1. PICK s \in Finished : Goto(h, "submit", Reading(Rows({i}), s, 0))
      BY <2>5 DEF SubmitRead, Finished
    <3>2. QuizCallType("submit", Reading(Rows({i}), s, 0))
      BY <2>2, <2>3 DEF QuizCallType, Reading
    <3> QED BY <2>2, <3>1, <3>2, QuizMove DEF QuizCallNames
  <2> QED BY <2>1, <2>4, <2>5
<1>2. CASE SweepStarts(h) \/ QuizFails(h)
  BY <1>0, <1>2, QuizMove
     DEF SweepStarts, QuizFails, Answer, QuizCallType, QuizCallNames, Reading, Finished
<1>3. CASE SweepPage(h)
  <2>1. held[h].with \in Finished
    BY <1>3 DEF SweepPage, QuizInv, QuizCalls, QuizCallType
  <2>2. PICK expired, cursor :
            /\ expired \subseteq Open
            /\ \/ Goto(h, "finish-page", Reading(Rows(expired), held[h].with, cursor))
               \/ Goto(h, "sweep", Reading(Rows({}), held[h].with, cursor))
               \/ Answer(h)
    <3> DEFINE page == PageFrom(held[h].cursor)
               cursor == held[h].cursor + Cardinality(page)
               expired == Expired(page)
    <3>1. expired \subseteq Open
      BY DEF Expired, PageFrom
    <3>2. \/ Goto(h, "finish-page", Reading(Rows(expired), held[h].with, cursor))
          \/ Goto(h, "sweep", Reading(Rows({}), held[h].with, cursor))
          \/ Answer(h)
      BY <1>3 DEF SweepPage
    <3> HIDE DEF expired, cursor
    <3> QED BY <3>1, <3>2
  <2>3. expired \subseteq Sittings /\ \A i \in expired : attempts[i] # None
    BY <2>2 DEF Open
  <2>4. /\ QuizCallType("finish-page", Reading(Rows(expired), held[h].with, cursor))
        /\ QuizCallType("sweep", Reading(Rows({}), held[h].with, cursor))
        /\ QuizCallType("free", None)
    <3>1. Rows(expired) \in RowMaps /\ DOMAIN Rows(expired) = expired
      BY <2>3, RowsType
    <3> QED BY <1>0, <2>1, <2>3, <3>1 DEF QuizCallType, Reading
  <2>5. UNCHANGED quizRows
    BY <1>3 DEF SweepPage
  <2> QED BY <2>2, <2>4, <2>5, QuizMove DEF Answer, QuizCallNames
<1> QED BY <1>1, <1>2, <1>3

\* An answer changes neither the status nor the score of its attempt.
LEMMA QuizSaves ==
    ASSUME QuizInv, NEW h \in Handlers, SaveWrite(h)
    PROVE  QuizInv'
<1>1. PICK i \in Sittings : DOMAIN held[h].rows = {i} /\ held[h].rows[i] \in AttemptRows
                            /\ attempts[i] # None
  BY DEF SaveWrite, QuizInv, QuizCalls, QuizCallType, RowMaps
<1>2. (CHOOSE j \in DOMAIN held[h].rows : TRUE) = i
  BY <1>1
<1> DEFINE Put(map) == [p \in DOMAIN map \cup {held[h].with.q} |->
                            IF p = held[h].with.q THEN held[h].with.reply ELSE map[p]]
<1>3. \A map \in AnswerMaps : Put(map) \in AnswerMaps
  BY AnswerStays DEF SaveWrite, QuizInv, QuizCalls, QuizCallType
<1>4. /\ attempts' = [attempts EXCEPT ![i].answers = Put(held[h].rows[i].answers)]
      /\ acked' = [acked EXCEPT ![i] = Put(@)] /\ UNCHANGED <<grades, overdue>>
  <2> DEFINE j == CHOOSE k \in DOMAIN held[h].rows : TRUE
  <2>1. /\ attempts' = [attempts EXCEPT ![j].answers = Put(held[h].rows[j].answers)]
        /\ acked' = [acked EXCEPT ![j] = Put(acked[j])] /\ UNCHANGED <<grades, overdue>>
    BY Zenon DEF SaveWrite
  <2>2. j = i
    BY <1>1
  <2> HIDE DEF j
  <2> QED BY <2>1, <2>2, Zenon
<1> HIDE DEF Put
<1>5. PICK map \in AnswerMaps : map = Put(held[h].rows[i].answers)
  BY <1>1, <1>3 DEF AttemptRows
<1>6. attempts[i] \in AttemptRows
  BY <1>1 DEF QuizInv, QuizTypeOK
<1>7. PICK row \in AttemptRows :
          /\ attempts' = [attempts EXCEPT ![i] = row]
          /\ row.status = attempts[i].status /\ row.score = attempts[i].score
  <2>1. attempts' = [attempts EXCEPT ![i] = [attempts[i] EXCEPT !.answers = map]]
    BY <1>4, <1>5
  <2>2. /\ [attempts[i] EXCEPT !.answers = map] \in AttemptRows
        /\ [attempts[i] EXCEPT !.answers = map].status = attempts[i].status
        /\ [attempts[i] EXCEPT !.answers = map].score = attempts[i].score
    BY <1>6 DEF AttemptRows
  <2> QED BY <2>1, <2>2
<1>8. row # None /\ attempts' \in [Sittings -> AttemptRows \cup {None}]
  BY <1>7, QuizRowAssumption DEF QuizInv, QuizTypeOK
<1>9. /\ attempts'[i] = row /\ \A j \in Sittings \ {i} : attempts'[j] = attempts[j]
  BY <1>7 DEF QuizInv, QuizTypeOK
<1>10. QuizTypeOK'
  <2>1. acked' \in [Sittings -> AnswerMaps]
    BY <1>3, <1>4 DEF QuizInv, QuizTypeOK
  <2> QED BY <1>4, <1>8, <2>1 DEF QuizInv, QuizTypeOK
<1>11. GradeIsScore'
  BY <1>1, <1>4, <1>7, <1>8, <1>9 DEF QuizInv, GradeIsScore, Open
<1>12. QuizCallType("free", None)' /\ Goto(h, "free", None)
  BY DEF QuizCallType, SaveWrite, Answer
<1> QED BY <1>1, <1>8, <1>9, <1>10, <1>11, <1>12, QuizWrite DEF QuizCallNames

\* The attempts finished get their score and their grade in one transaction.
LEMMA QuizFinishes ==
    ASSUME QuizInv, NEW h \in Handlers, SubmitWrite(h) \/ FinishPage(h)
    PROVE  QuizInv'
<1>1. PICK rows \in RowMaps, s \in Finished :
          /\ held[h].rows = rows /\ Finalize(DOMAIN rows, rows, s)
          /\ \A i \in DOMAIN rows : attempts[i] # None
          /\ held[h].with = s
  BY DEF SubmitWrite, FinishPage, QuizInv, QuizCalls, QuizCallType
<1> DEFINE I == DOMAIN rows
           Score(i) == ScoreOf(rows[i].answers)
<1>2. I \subseteq Sittings /\ \A i \in I : rows[i] \in AttemptRows
  BY DEF RowMaps
<1>3. \A i \in I : Score(i) \in Scores /\ Score(i) # None
  BY <1>2, ScoreType DEF AttemptRows
<1>4. /\ attempts' = [i \in Sittings |->
             IF i \in I THEN [attempts[i] EXCEPT !.status = s, !.score = Score(i)]
             ELSE attempts[i]]
      /\ grades' = [i \in Sittings |-> IF i \in I THEN Score(i) ELSE grades[i]]
      /\ UNCHANGED <<acked, overdue>>
  BY <1>1 DEF Finalize, GradeUpsert
<1> HIDE DEF I, Score
<1>5. \A i \in I : /\ attempts'[i] \in AttemptRows /\ attempts'[i] # None
                   /\ attempts'[i].status = s /\ attempts'[i].score = Score(i)
                   /\ grades'[i] = Score(i)
  <2> TAKE i \in I
  <2>1. attempts[i] \in AttemptRows /\ Score(i) \in Scores /\ i \in Sittings
    BY <1>1, <1>2, <1>3 DEF QuizInv, QuizTypeOK, I
  <2>2. /\ attempts'[i] = [attempts[i] EXCEPT !.status = s, !.score = Score(i)]
        /\ grades'[i] = Score(i)
    BY <1>4, <2>1
  <2>3. /\ [attempts[i] EXCEPT !.status = s, !.score = Score(i)] \in AttemptRows
        /\ [attempts[i] EXCEPT !.status = s, !.score = Score(i)].status = s
        /\ [attempts[i] EXCEPT !.status = s, !.score = Score(i)].score = Score(i)
    BY <2>1 DEF AttemptRows, Finished
  <2> QED BY <2>2, <2>3, QuizRowAssumption
<1>6. \A i \in Sittings \ I : attempts'[i] = attempts[i] /\ grades'[i] = grades[i]
  BY <1>4
<1>7. QuizTypeOK'
  <2>1. \A i \in Sittings : attempts'[i] \in AttemptRows \cup {None}
                            /\ grades'[i] \in Scores \cup {None}
    BY <1>3, <1>5, <1>6 DEF QuizInv, QuizTypeOK
  <2>2. DOMAIN attempts' = Sittings /\ DOMAIN grades' = Sittings
    BY <1>4
  <2>3. /\ attempts' \in [Sittings -> AttemptRows \cup {None}]
        /\ grades' \in [Sittings -> Scores \cup {None}]
    BY <1>4, <2>1, <2>2
  <2> QED BY <1>4, <2>3 DEF QuizInv, QuizTypeOK
<1>8. GradeIsScore'
  <2>1. \A i \in I : i \notin Open' /\ grades'[i] # None
    BY <1>3, <1>5 DEF Open, Finished
  <2>2. \A i \in Sittings \ I : i \in Open' <=> i \in Open
    BY <1>6 DEF Open
  <2> QED BY <1>2, <1>5, <1>6, <2>1, <2>2 DEF QuizInv, GradeIsScore
<1>9. \A i \in Sittings : attempts[i] # None => attempts'[i] # None
  BY <1>5, <1>6
<1>10. PICK call \in {"free", "sweep"}, x \in {None, Reading(Rows({}), s, held[h].cursor)} :
           /\ Goto(h, call, x)
           /\ call = "sweep" => x = Reading(Rows({}), s, held[h].cursor)
  BY <1>1 DEF SubmitWrite, FinishPage, Answer
<1>11. QuizCallType(call, x)'
  <2>1. Rows({}) \in RowMaps /\ DOMAIN Rows({}) = {}
    BY RowsType
  <2>2. RowMaps' = RowMaps
    BY DEF RowMaps
  <2> QED BY <1>10, <2>1, <2>2 DEF QuizCallType, Reading
<1> QED BY <1>7, <1>8, <1>9, <1>10, <1>11, QuizWrite DEF QuizCallNames

LEMMA QuizWorld ==
    ASSUME QuizInv, NEW i \in Sittings, StartQuiz(i) \/ TimeUp(i)
    PROVE  QuizInv'
<1>1. CASE StartQuiz(i)
  <2>1. PICK row \in AttemptRows : /\ row.status = "IN_PROGRESS" /\ row # None
                                   /\ attempts' = [attempts EXCEPT ![i] = row]
    BY <1>1, NewAttempt, QuizRowAssumption DEF StartQuiz
  <2>2. /\ attempts'[i] = row /\ \A j \in Sittings \ {i} : attempts'[j] = attempts[j]
        /\ attempts' \in [Sittings -> AttemptRows \cup {None}]
        /\ UNCHANGED <<requestVars, grades, acked, overdue>>
    BY <1>1, <2>1 DEF StartQuiz, QuizInv, QuizTypeOK
  <2>3. QuizTypeOK'
    BY <2>2 DEF QuizInv, QuizTypeOK
  <2>4. GradeIsScore'
    <3>1. grades[i] = None
      BY <1>1 DEF StartQuiz, QuizInv, GradeIsScore
    <3> QED BY <2>1, <2>2, <3>1 DEF QuizInv, GradeIsScore, Open
  <2>5. QuizCalls'
    <3>1. \A j \in Sittings : attempts[j] # None => attempts'[j] # None
      BY <2>1, <2>2
    <3> QED BY <2>2, <3>1 DEF QuizInv, QuizCalls, QuizCallType, RowMaps, requestVars
  <2> QED BY <2>3, <2>4, <2>5 DEF QuizInv
<1>2. CASE TimeUp(i)
  BY <1>2 DEF TimeUp, QuizInv, QuizTypeOK, QuizCalls, QuizCallType, GradeIsScore, Open,
              requestVars
<1> QED BY <1>1, <1>2

LEMMA QuizInvariance == QuizSpec => []QuizInv
<1>1. QuizInv /\ [QuizNext]_quizVars => QuizInv'
  <2>1. QuizInv /\ UNCHANGED quizVars => QuizInv'
    BY DEF QuizInv, QuizTypeOK, QuizCalls, QuizCallType, GradeIsScore, Open, quizVars,
           quizRows, requestVars
  <2> QED BY <2>1, QuizReads, QuizSaves, QuizFinishes, QuizWorld DEF QuizNext, QuizStep
<1> QED BY <1>1, QuizInit0, PTL DEF QuizSpec

\* However submissions, late answers and sweeps overlap, an attempt has a grade
\* exactly when it is finished, and the grade is the score the attempt shows
\* (finalizeWithinTx writes both in one transaction).
THEOREM GradesAreScores == QuizSpec => []GradeIsScore
BY QuizInvariance, PTL DEF QuizInv

\* While requests do not overlap: the answers a request has read are those of
\* the attempt still, and an attempt that takes an answer is open.
QuizStage(call, x) == call # "free" =>
    \A i \in DOMAIN x.rows : /\ x.rows[i].answers = attempts[i].answers
                             /\ call = "save" => i \in Open

AckedCount ==
    \A i \in Sittings :
        /\ attempts[i] = None => acked[i] = NoAnswers
        /\ attempts[i] # None =>
              /\ attempts[i].answers = acked[i]
              /\ i \notin Open => attempts[i].score = ScoreOf(acked[i])

QuizAlone == alone =>
    OneRequest /\ AckedCount /\ \A h \in Handlers : QuizStage(at[h], held[h])

LEMMA QuizAloneStep ==
    ASSUME QuizInv, QuizAlone, NEW h \in Handlers, NEW call, NEW x, Goto(h, call, x),
           at[h] # "free" \/ MayStart(h),
           alone => AckedCount' /\ QuizStage(call, x)'
    PROVE  QuizAlone'
<1>1. /\ at' = [at EXCEPT ![h] = call] /\ held' = [held EXCEPT ![h] = x] /\ alone' = alone
      /\ at \in [Handlers -> QuizCallNames] /\ DOMAIN held = Handlers
  BY DEF Goto, QuizInv, QuizCalls
<1>2. CASE alone
  <2>1. \A g \in Handlers \ {h} : at'[g] = "free"
    BY <1>1, <1>2 DEF QuizAlone, OneRequest, MayStart
  <2>2. OneRequest' /\ \A g \in Handlers \ {h} : QuizStage(at[g], held[g])'
    BY <2>1 DEF OneRequest, QuizStage
  <2>3. at'[h] = call /\ held'[h] = x
    BY <1>1
  <2>4. QuizStage(at[h], held[h])'
    BY <1>2, <2>3 DEF QuizStage
  <2> QED BY <1>2, <2>2, <2>4 DEF QuizAlone
<1> QED BY <1>1, <1>2 DEF QuizAlone

\* Reading open attempts.
LEMMA QuizAloneRead ==
    ASSUME QuizInv, QuizAlone, NEW h \in Handlers, UNCHANGED quizRows,
           at[h] # "free" \/ MayStart(h),
           NEW I, I \subseteq Open, NEW call, NEW with, NEW cursor,
           Goto(h, call, Reading(Rows(I), with, cursor))
    PROVE  QuizAlone'
<1>1. PICK x : x = Reading(Rows(I), with, cursor) /\ x.rows = Rows(I)
  BY DEF Reading
<1>2. DOMAIN x.rows = I /\ \A i \in I : x.rows[i] = attempts[i]
  BY <1>1 DEF Rows
<1>3. QuizStage(call, x)'
  BY <1>2 DEF QuizStage, Open, quizRows
<1>4. alone => AckedCount'
  BY DEF QuizAlone, AckedCount, Open, quizRows
<1> QED BY <1>1, <1>3, <1>4, QuizAloneStep

LEMMA QuizAloneReads ==
    ASSUME QuizInv, QuizAlone, NEW h \in Handlers,
           \/ \E i \in Sittings : SaveRead(h, i) \/ SubmitRead(h, i)
           \/ SweepStarts(h) \/ SweepPage(h) \/ QuizFails(h)
    PROVE  QuizAlone'
<1>1. UNCHANGED quizRows /\ (at[h] # "free" \/ MayStart(h))
  BY DEF SaveRead, SubmitRead, SweepStarts, SweepPage, QuizFails
<1>2. CASE Answer(h)
  <2>1. alone => AckedCount'
    BY <1>1 DEF QuizAlone, AckedCount, Open, quizRows
  <2> QED BY <1>1, <1>2, <2>1, QuizAloneStep DEF Answer, QuizStage
<1>3. CASE \E i \in Sittings : SaveRead(h, i) \/ SubmitRead(h, i)
  <2>1. PICK i \in Sittings : SaveRead(h, i) \/ SubmitRead(h, i)
    BY <1>3
  <2>2. {i} \subseteq Open
    BY <2>1 DEF SaveRead, SubmitRead, Saveable
  <2> QED BY <1>1, <2>1, <2>2, QuizAloneRead DEF SaveRead, SubmitRead
<1>4. CASE SweepStarts(h)
  BY <1>1, <1>4, QuizAloneRead DEF SweepStarts
<1>5. CASE SweepPage(h)
  <2> DEFINE page == PageFrom(held[h].cursor)
             cursor == held[h].cursor + Cardinality(page)
             expired == Expired(page)
  <2>1. expired \subseteq Open
    BY DEF Expired, PageFrom
  <2>2. \/ Goto(h, "finish-page", Reading(Rows(expired), held[h].with, cursor))
        \/ Goto(h, "sweep", Reading(Rows({}), held[h].with, cursor))
        \/ Answer(h)
    BY <1>5 DEF SweepPage
  <2> HIDE DEF expired, cursor
  <2> QED BY <1>1, <1>2, <2>1, <2>2, QuizAloneRead
<1> QED BY <1>3, <1>4, <1>5, <1>2 DEF QuizFails

LEMMA QuizAloneSaves ==
    ASSUME QuizInv, QuizAlone, NEW h \in Handlers, SaveWrite(h)
    PROVE  QuizAlone'
<1>1. PICK i \in Sittings : DOMAIN held[h].rows = {i} /\ attempts[i] \in AttemptRows
  BY DEF SaveWrite, QuizInv, QuizCalls, QuizCallType, QuizTypeOK
<1> DEFINE Put(map) == [p \in DOMAIN map \cup {held[h].with.q} |->
                            IF p = held[h].with.q THEN held[h].with.reply ELSE map[p]]
<1>2. /\ attempts' = [attempts EXCEPT ![i].answers = Put(held[h].rows[i].answers)]
      /\ acked' = [acked EXCEPT ![i] = Put(acked[i])]
  <2> DEFINE j == CHOOSE k \in DOMAIN held[h].rows : TRUE
  <2>1. /\ attempts' = [attempts EXCEPT ![j].answers = Put(held[h].rows[j].answers)]
        /\ acked' = [acked EXCEPT ![j] = Put(acked[j])]
    BY Zenon DEF SaveWrite
  <2>2. j = i
    BY <1>1
  <2> HIDE DEF j
  <2> QED BY <2>1, <2>2, Zenon
<1> HIDE DEF Put
<1>3. ASSUME alone PROVE AckedCount'
  <2>1. held[h].rows[i].answers = attempts[i].answers /\ i \in Open
    BY <1>1, <1>3 DEF SaveWrite, QuizAlone, QuizStage
  <2>2. attempts[i].answers = acked[i] /\ attempts[i] # None
    BY <1>1, <1>3, <2>1 DEF QuizAlone, AckedCount, Open
  <2>3. PICK y : y = Put(acked[i])
    OBVIOUS
  <2>4. attempts' = [attempts EXCEPT ![i].answers = y] /\ acked' = [acked EXCEPT ![i] = y]
    BY <1>2, <2>1, <2>2, <2>3
  <2>5. /\ attempts'[i].answers = y /\ attempts'[i].status = "IN_PROGRESS" /\ acked'[i] = y
        /\ \A k \in Sittings \ {i} : attempts'[k] = attempts[k] /\ acked'[k] = acked[k]
    <3>1. attempts' = [attempts EXCEPT ![i] = [attempts[i] EXCEPT !.answers = y]]
      BY <2>4
    <3>2. attempts'[i] = [attempts[i] EXCEPT !.answers = y]
      BY <3>1 DEF QuizInv, QuizTypeOK
    <3>3. \A k \in Sittings \ {i} : attempts'[k] = attempts[k] /\ acked'[k] = acked[k]
      BY <2>4, <3>1 DEF QuizInv, QuizTypeOK
    <3>4. acked'[i] = y
      BY <2>4 DEF QuizInv, QuizTypeOK
    <3>5. attempts[i].status = "IN_PROGRESS"
      BY <2>1 DEF Open
    <3>6. /\ [attempts[i] EXCEPT !.answers = y].answers = y
          /\ [attempts[i] EXCEPT !.answers = y].status = attempts[i].status
      BY <1>1 DEF AttemptRows
    <3> QED BY <3>2, <3>3, <3>4, <3>5, <3>6
  <2>6. attempts'[i] # None
    <3>1. y \in AnswerMaps
      <4>1. acked[i] \in AnswerMaps /\ held[h].with.q \in Questions
            /\ held[h].with.reply \in Replies
        BY DEF SaveWrite, QuizInv, QuizTypeOK, QuizCalls, QuizCallType
      <4> QED BY <2>3, <4>1, AnswerStays DEF Put
    <3>2. [attempts[i] EXCEPT !.answers = y] \in AttemptRows
      BY <1>1, <3>1 DEF AttemptRows
    <3>3. attempts'[i] = [attempts[i] EXCEPT !.answers = y]
      BY <2>4 DEF QuizInv, QuizTypeOK
    <3> QED BY <3>2, <3>3, QuizRowAssumption
  <2>7. AckedCount'
    <3>1. i \in Open' /\ \A k \in Sittings \ {i} : k \in Open' <=> k \in Open
      BY <2>5, <2>6 DEF Open
    <3>2. AckedCount
      BY <1>3 DEF QuizAlone
    <3>3. ASSUME NEW k \in Sittings \ {i}
          PROVE  /\ attempts'[k] = None => acked'[k] = NoAnswers
                 /\ attempts'[k] # None =>
                       /\ attempts'[k].answers = acked'[k]
                       /\ k \notin Open' => attempts'[k].score = ScoreOf(acked'[k])
      BY <2>5, <3>1, <3>2, <3>3 DEF AckedCount
    <3> QED BY <2>5, <2>6, <3>1, <3>3 DEF AckedCount
  <2> QED BY <2>7
<1> QED BY <1>3, QuizAloneStep DEF SaveWrite, Answer, QuizStage

LEMMA QuizAloneFinishes ==
    ASSUME QuizInv, QuizAlone, NEW h \in Handlers, SubmitWrite(h) \/ FinishPage(h)
    PROVE  QuizAlone'
<1>1. PICK rows \in RowMaps, s \in Finished :
          /\ held[h].rows = rows /\ Finalize(DOMAIN rows, rows, s)
          /\ \A i \in DOMAIN rows : attempts[i] # None
          /\ held[h].with = s
          /\ at[h] \in {"submit", "finish-page"}
  BY DEF SubmitWrite, FinishPage, QuizInv, QuizCalls, QuizCallType
<1> DEFINE I == DOMAIN rows
<1>2. I \subseteq Sittings
  BY DEF RowMaps
<1>3. /\ attempts' = [i \in Sittings |->
             IF i \in I THEN [attempts[i] EXCEPT !.status = s,
                                                 !.score = ScoreOf(rows[i].answers)]
             ELSE attempts[i]]
      /\ acked' = acked
  BY <1>1 DEF Finalize
<1>4. ASSUME alone, NEW i \in I
      PROVE  /\ attempts'[i] # None /\ i \notin Open'
             /\ attempts'[i].answers = acked[i] /\ attempts'[i].score = ScoreOf(acked[i])
  <2>1. /\ attempts[i] \in AttemptRows /\ i \in Sittings /\ rows[i] \in AttemptRows
        /\ rows[i].answers = attempts[i].answers /\ attempts[i].answers = acked[i]
    BY <1>1, <1>2, <1>4
       DEF QuizInv, QuizTypeOK, QuizAlone, QuizStage, AckedCount, RowMaps
  <2>2. PICK score \in Scores : score = ScoreOf(acked[i])
    BY <2>1, ScoreType DEF AttemptRows
  <2>3. attempts'[i] = [attempts[i] EXCEPT !.status = s, !.score = score]
    BY <1>3, <2>1, <2>2
  <2>4. /\ [attempts[i] EXCEPT !.status = s, !.score = score] \in AttemptRows
        /\ [attempts[i] EXCEPT !.status = s, !.score = score].status = s
        /\ [attempts[i] EXCEPT !.status = s, !.score = score].score = score
        /\ [attempts[i] EXCEPT !.status = s, !.score = score].answers = attempts[i].answers
    BY <2>1 DEF AttemptRows, Finished
  <2> QED BY <2>1, <2>2, <2>3, <2>4, QuizRowAssumption DEF Open, Finished
<1>5. \A i \in Sittings \ I : attempts'[i] = attempts[i] /\ (i \in Open' <=> i \in Open)
  BY <1>3 DEF Open
<1>6. alone => AckedCount'
  <2> HIDE DEF I
  <2> QED BY <1>3, <1>4, <1>5 DEF QuizAlone, AckedCount
<1>7. PICK call \in {"free", "sweep"}, x \in {None, Reading(Rows({}), s, held[h].cursor)} :
           /\ Goto(h, call, x)
           /\ call = "sweep" => x = Reading(Rows({}), s, held[h].cursor)
  BY <1>1 DEF SubmitWrite, FinishPage, Answer
<1>8. QuizStage(call, x)'
  <2>1. DOMAIN Reading(Rows({}), s, held[h].cursor).rows = {}
    BY DEF Reading, Rows
  <2> QED BY <1>7, <2>1 DEF QuizStage
<1> QED BY <1>1, <1>6, <1>7, <1>8, QuizAloneStep

LEMMA QuizAloneWorld ==
    ASSUME QuizInv, QuizAlone, NEW i \in Sittings, StartQuiz(i) \/ TimeUp(i)
    PROVE  QuizAlone'
<1>1. CASE StartQuiz(i)
  <2>1. PICK row \in AttemptRows : /\ row.status = "IN_PROGRESS" /\ row # None
                                   /\ row.answers = NoAnswers
                                   /\ attempts' = [attempts EXCEPT ![i] = row]
    BY <1>1, NewAttempt, QuizRowAssumption DEF StartQuiz
  <2>2. /\ attempts'[i] = row /\ \A j \in Sittings \ {i} : attempts'[j] = attempts[j]
        /\ UNCHANGED <<requestVars, acked>> /\ attempts[i] = None
    BY <1>1, <2>1 DEF StartQuiz, QuizInv, QuizTypeOK
  <2>3. i \in Open' /\ \A j \in Sittings \ {i} : j \in Open' <=> j \in Open
    BY <2>1, <2>2 DEF Open
  <2>4. AckedCount => AckedCount'
    BY <2>1, <2>2, <2>3 DEF AckedCount
  <2>5. \A h \in Handlers : QuizStage(at[h], held[h]) => QuizStage(at[h], held[h])'
    <3> SUFFICES ASSUME NEW h \in Handlers, QuizStage(at[h], held[h])
                 PROVE  QuizStage(at[h], held[h])'
      OBVIOUS
    <3>1. at[h] # "free" => \A j \in DOMAIN held[h].rows : j \in Sittings \ {i}
      BY <2>2 DEF QuizInv, QuizCalls, QuizCallType, RowMaps
    <3> QED BY <2>2, <2>3, <3>1 DEF QuizStage, requestVars
  <2> QED BY <2>2, <2>4, <2>5 DEF QuizAlone, OneRequest, requestVars
<1>2. CASE TimeUp(i)
  BY <1>2 DEF TimeUp, QuizAlone, OneRequest, AckedCount, QuizStage, Open, requestVars
<1> QED BY <1>1, <1>2

\* While requests do not overlap, every answer the server acknowledged is in
\* its attempt, and a finished attempt was graded on exactly those
\* (quiz-attempt.service.ts: saveAnswer, submit and the sweep).
THEOREM NoAnswerIsLost == QuizSpec => []AcknowledgedAnswersCount
<1>1. QuizInit => QuizAlone
  BY DEF QuizInit, RequestsInit, QuizAlone, OneRequest, AckedCount, QuizStage
<1>2. QuizInv /\ QuizAlone /\ [QuizNext]_quizVars => QuizAlone'
  <2>1. QuizAlone /\ UNCHANGED quizVars => QuizAlone'
    BY DEF QuizAlone, OneRequest, AckedCount, QuizStage, Open, quizVars, quizRows, requestVars
  <2> QED BY <2>1, QuizAloneReads, QuizAloneSaves, QuizAloneFinishes, QuizAloneWorld
          DEF QuizNext, QuizStep
<1>3. QuizAlone => AcknowledgedAnswersCount
  BY DEF QuizAlone, AckedCount, AcknowledgedAnswersCount
<1> QED BY <1>1, <1>2, <1>3, QuizInvariance, PTL DEF QuizSpec

-----------------------------------------------------------------------------
(* Permits.                                                                *)

\* A row whose note is a permit has the status that permit gives it.
Follows(mark) ==
    mark.note # None => mark.status = IF mark.note.state = "REJECTED"
                                      THEN "ALPA" ELSE mark.note.kind

PermitCalls ==
    /\ at \in [Handlers -> {"free", "create", "update"}]
    /\ DOMAIN held = Handlers
    /\ \A h \in Handlers : at[h] # "free" =>
          /\ held[h].row \in Marks /\ Follows(held[h].row)
          /\ at[h] = "update" => held[h].id \in Stored

\* While requests do not overlap, a row looked for in vain is still missing.
PermitAlone == alone =>
    OneRequest /\ \A h \in Handlers : at[h] = "create" => RowsOf(held[h].row.of) = {}

PermitInv == /\ PermitTypeOK /\ PermitCalls /\ PermitAlone
             /\ StatusFollowsPermit /\ OneRowEach

LEMMA PermitInit0 == PermitInit => PermitInv
BY DEF PermitInit, RequestsInit, PermitInv, PermitTypeOK, PermitCalls, PermitAlone, OneRequest,
       StatusFollowsPermit, OneRowEach, RowsOf, Stored

\* There is an id for one more row.
LEMMA FreshMark ==
    ASSUME PermitTypeOK, RoomLeft
    PROVE  \E r \in MarkIds : r \notin Stored
<1>1. IsFiniteSet(MarkIds) /\ Cardinality(MarkIds) = MaxMarks /\ Stored \subseteq MarkIds
  BY FS_Interval, PermitAssumption DEF MarkIds, Stored
<1>2. MarkIds \subseteq Stored => Stored = MarkIds
  BY <1>1
<1>3. Stored # MarkIds
  BY <1>1, PermitAssumption DEF RoomLeft
<1> QED BY <1>2, <1>3

\* A new row: no other is touched.
LEMMA MarkInserted ==
    ASSUME PermitTypeOK, RoomLeft, NEW row \in Marks, marks' = Inserted(row)
    PROVE  \E r \in MarkIds \ Stored :
              /\ marks' = [marks EXCEPT ![r] = row] /\ marks'[r] = row
              /\ \A s \in MarkIds \ {r} : marks'[s] = marks[s]
              /\ Stored' = Stored \cup {r} /\ PermitTypeOK'
              /\ \A e \in Entries : RowsOf(e)' = RowsOf(e) \cup (IF row.of = e THEN {r} ELSE {})
<1>1. PICK r \in MarkIds \ Stored : r = CHOOSE s \in MarkIds : s \notin Stored
  BY FreshMark
<1>2. marks' = [marks EXCEPT ![r] = row] /\ row # None
  BY <1>1, PermitRowAssumption DEF Inserted
<1>3. /\ marks'[r] = row /\ \A s \in MarkIds \ {r} : marks'[s] = marks[s]
      /\ PermitTypeOK'
  BY <1>2 DEF PermitTypeOK
<1>4. Stored' = Stored \cup {r}
  BY <1>1, <1>2, <1>3 DEF Stored
<1>5. \A e \in Entries : RowsOf(e)' = RowsOf(e) \cup (IF row.of = e THEN {r} ELSE {})
  BY <1>1, <1>2, <1>3, <1>4 DEF RowsOf, Stored
<1> QED BY <1>2, <1>3, <1>4, <1>5

\* A row rewritten: it stays the row of the same student, day or lesson.
LEMMA MarkUpdated ==
    ASSUME PermitTypeOK, NEW id \in Stored, NEW row \in Marks, marks' = Updated(id, row)
    PROVE  /\ marks'[id].status = row.status /\ marks'[id].note = row.note
           /\ \A s \in MarkIds \ {id} : marks'[s] = marks[s]
           /\ Stored' = Stored /\ PermitTypeOK'
           /\ \A e \in Entries : RowsOf(e)' = RowsOf(e)
<1>1. marks[id] \in Marks /\ id \in MarkIds
  BY PermitRowAssumption DEF Stored, PermitTypeOK
<1>2. PICK new \in Marks : /\ marks' = [marks EXCEPT ![id] = new]
                           /\ new.status = row.status /\ new.note = row.note
                           /\ new.of = marks[id].of
  <2> DEFINE new == [of |-> marks[id].of, status |-> row.status, note |-> row.note]
  <2>1. new \in Marks
    BY <1>1 DEF Marks
  <2>2. [[marks[id] EXCEPT !.status = row.status] EXCEPT !.note = row.note] = new
    <3>1. [marks[id] EXCEPT !.status = row.status]
              = [of |-> marks[id].of, status |-> row.status, note |-> marks[id].note]
      BY <1>1 DEF Marks
    <3>2. [[of |-> marks[id].of, status |-> row.status, note |-> marks[id].note]
              EXCEPT !.note = row.note] = new
      OBVIOUS
    <3> HIDE DEF new
    <3> QED BY <3>1, <3>2
  <2>3. marks' = [marks EXCEPT ![id] = [[marks[id] EXCEPT !.status = row.status]
                                            EXCEPT !.note = row.note]]
    BY <1>1 DEF Updated, PermitTypeOK
  <2> QED BY <2>1, <2>2, <2>3
<1>3. /\ marks'[id] = new /\ new # None
      /\ \A s \in MarkIds \ {id} : marks'[s] = marks[s]
      /\ PermitTypeOK'
  <2>1. new # None
    BY <1>2, PermitRowAssumption
  <2> QED BY <1>1, <1>2, <2>1 DEF PermitTypeOK
<1>4. Stored' = Stored
  BY <1>3 DEF Stored
<1>5. \A e \in Entries : RowsOf(e)' = RowsOf(e)
  BY <1>2, <1>3, <1>4 DEF RowsOf, Stored
<1> QED BY <1>2, <1>3, <1>4, <1>5

\* A request that finds out what to write.
LEMMA PermitMove ==
    ASSUME PermitInv, NEW h \in Handlers, NEW call \in {"free", "create", "update"}, NEW x,
           Goto(h, call, x), UNCHANGED marks, at[h] # "free" \/ MayStart(h),
           call # "free" => x.row \in Marks /\ Follows(x.row),
           call = "update" => x.id \in Stored,
           call = "create" => RowsOf(x.row.of) = {}
    PROVE  PermitInv'
<1>1. /\ at' = [at EXCEPT ![h] = call] /\ held' = [held EXCEPT ![h] = x] /\ alone' = alone
      /\ marks' = marks
  BY DEF Goto
<1>2. PermitCalls'
  BY <1>1 DEF PermitInv, PermitCalls, Stored
<1>3. PermitAlone'
  <2>1. alone => \A g \in Handlers \ {h} : at'[g] = "free"
    BY <1>1 DEF PermitInv, PermitAlone, PermitCalls, OneRequest, MayStart
  <2> QED BY <1>1, <2>1 DEF PermitInv, PermitCalls, PermitAlone, OneRequest, RowsOf, Stored
<1>4. PermitTypeOK' /\ StatusFollowsPermit' /\ OneRowEach'
  BY <1>1 DEF PermitInv, PermitTypeOK, StatusFollowsPermit, OneRowEach, RowsOf, Stored
<1> QED BY <1>2, <1>3, <1>4 DEF PermitInv

\* A permit decided sets the status of its row.
LEMMA DecidedFollows ==
    ASSUME NEW mark \in Marks, NEW approved \in BOOLEAN,
           mark.note \in [kind : Kinds, state : {"PENDING", "APPROVED", "REJECTED"}]
    PROVE  Decided(mark, approved) \in Marks /\ Follows(Decided(mark, approved))
<1>1. PICK state \in {"APPROVED", "REJECTED"}, status \in Kinds \cup {"ALPA"} :
          /\ state = IF approved THEN "APPROVED" ELSE "REJECTED"
          /\ status = IF approved THEN mark.note.kind ELSE "ALPA"
  OBVIOUS
<1>2. PICK note \in [kind : Kinds, state : {"PENDING", "APPROVED", "REJECTED"}] :
          /\ note = [mark.note EXCEPT !.state = state]
          /\ note.kind = mark.note.kind /\ note.state = state
  <2>1. /\ [mark.note EXCEPT !.state = state]
                \in [kind : Kinds, state : {"PENDING", "APPROVED", "REJECTED"}]
        /\ [mark.note EXCEPT !.state = state].kind = mark.note.kind
        /\ [mark.note EXCEPT !.state = state].state = state
    OBVIOUS
  <2> QED BY <2>1
<1>3. PICK row : row = [of |-> mark.of, status |-> status, note |-> note]
  OBVIOUS
<1>4. row \in Marks
  BY <1>3 DEF Marks, Notes
<1>5. Decided(mark, approved) = row
  <2>1. Decided(mark, approved)
            = [[mark EXCEPT !.note.state = state] EXCEPT !.status = status]
    BY <1>1 DEF Decided
  <2>2. [mark EXCEPT !.note.state = state] = [mark EXCEPT !.note = note]
    BY <1>2
  <2>3. [mark EXCEPT !.note = note] = [of |-> mark.of, status |-> mark.status, note |-> note]
    BY DEF Marks
  <2> QED BY <1>3, <2>1, <2>2, <2>3
<1>6. Follows(row)
  BY <1>1, <1>2, <1>3 DEF Follows
<1> QED BY <1>4, <1>5, <1>6

LEMMA PermitReads ==
    ASSUME PermitInv, NEW h \in Handlers,
           \/ \E e \in Entries, s \in {"HADIR", "ALPA"} : RecordDay(h, e, s)
           \/ \E e \in Entries, k \in Kinds : RequestPermit(h, e, k)
           \/ \E r \in MarkIds, approved \in BOOLEAN : VerifyPermit(h, r, approved)
           \/ PermitFails(h)
    PROVE  PermitInv'
<1>1. ASSUME NEW row \in Marks, Follows(row), NEW refused, Find(h, row, refused)
      PROVE  PermitInv'
  <2>1. CASE RowsOf(row.of) = {} /\ Goto(h, "create", Marking(None, row))
    <3>1. Marking(None, row).row = row
      BY DEF Marking
    <3> QED BY <1>1, <2>1, <3>1, PermitMove DEF Find
  <2>2. CASE \E r \in RowsOf(row.of) \ refused : Goto(h, "update", Marking(r, row))
    <3>1. PICK r \in RowsOf(row.of) : Goto(h, "update", Marking(r, row))
      BY <2>2
    <3>2. r \in Stored /\ Marking(r, row).row = row /\ Marking(r, row).id = r
      BY DEF Marking, RowsOf
    <3> QED BY <1>1, <3>1, <3>2, PermitMove DEF Find
  <2> QED BY <1>1, <2>1, <2>2 DEF Find
<1>2. CASE \E e \in Entries, s \in {"HADIR", "ALPA"} : RecordDay(h, e, s)
  <2>1. PICK e \in Entries, s \in {"HADIR", "ALPA"} :
            Find(h, [of |-> e, status |-> s, note |-> None], {})
    BY <1>2 DEF RecordDay
  <2>2. /\ [of |-> e, status |-> s, note |-> None] \in Marks
        /\ Follows([of |-> e, status |-> s, note |-> None])
    BY DEF Marks, Notes, Follows
  <2> QED BY <1>1, <2>1, <2>2
<1>3. CASE \E e \in Entries, k \in Kinds : RequestPermit(h, e, k)
  <2>1. PICK e \in Entries, k \in Kinds : RequestPermit(h, e, k)
    BY <1>3
  <2>2. PICK note \in Notes : /\ note = [kind |-> k, state |-> "PENDING"]
                              /\ note.kind = k /\ note.state = "PENDING"
    <3>1. [kind |-> k, state |-> "PENDING"] \in Notes
      BY DEF Notes
    <3> QED BY <3>1
  <2>3. PICK row \in Marks : row = [of |-> e, status |-> k, note |-> note] /\ Follows(row)
    <3>1. [of |-> e, status |-> k, note |-> note] \in Marks
      BY DEF Marks
    <3>2. Follows([of |-> e, status |-> k, note |-> note])
      BY <2>2 DEF Follows
    <3> QED BY <3>1, <3>2
  <2> QED BY <1>1, <2>1, <2>2, <2>3 DEF RequestPermit
<1>4. CASE \E r \in MarkIds, approved \in BOOLEAN : VerifyPermit(h, r, approved)
  <2>1. PICK r \in Stored, approved \in BOOLEAN :
            /\ Goto(h, "update", Marking(r, Decided(marks[r], approved)))
            /\ Pending(marks[r]) /\ MayStart(h) /\ UNCHANGED marks
    BY <1>4 DEF VerifyPermit
  <2>2. /\ marks[r] \in Marks
        /\ marks[r].note \in [kind : Kinds, state : {"PENDING", "APPROVED", "REJECTED"}]
    BY <2>1, PermitRowAssumption DEF Stored, PermitInv, PermitTypeOK, Pending, Marks, Notes
  <2>3. PICK row \in Marks : row = Decided(marks[r], approved) /\ Follows(row)
    BY <2>2, DecidedFollows
  <2>4. Marking(r, row).row = row /\ Marking(r, row).id = r
    BY DEF Marking
  <2> QED BY <2>1, <2>3, <2>4, PermitMove
<1>5. CASE PermitFails(h)
  BY <1>5, PermitMove DEF PermitFails, Answer
<1> QED BY <1>2, <1>3, <1>4, <1>5

\* A step that writes a row: the rows of one student, day or lesson are as many
\* as before, or one is added where there was none.
LEMMA PermitWrite ==
    ASSUME PermitInv, NEW h \in Handlers, NEW r \in MarkIds, PermitTypeOK',
           at' = [at EXCEPT ![h] = "free"], DOMAIN held' = Handlers, alone' = alone,
           \A g \in Handlers \ {h} : held'[g] = held[g],
           at[h] # "free" \/ MayStart(h),
           Stored \subseteq Stored', Stored' \subseteq Stored \cup {r},
           \A s \in MarkIds \ {r} : marks'[s] = marks[s],
           Follows(marks'[r]),
           \A e \in Entries : \/ RowsOf(e)' = RowsOf(e)
                              \/ /\ RowsOf(e)' \subseteq {r}
                                 /\ RowsOf(e) # {} => e \notin Lessons /\ ~alone
                              \/ e \notin Lessons /\ ~alone
    PROVE  PermitInv'
<1>1. PermitCalls'
  BY DEF PermitInv, PermitCalls
<1>2. PermitAlone'
  <2>1. alone => \A g \in Handlers : at'[g] = "free"
    BY DEF PermitInv, PermitAlone, PermitCalls, OneRequest, MayStart
  <2> QED BY <2>1 DEF PermitAlone, OneRequest
<1>3. StatusFollowsPermit'
  <2>1. \A s \in Stored' : s = r \/ (s \in Stored /\ s \in MarkIds /\ marks'[s] = marks[s])
    BY DEF Stored
  <2> QED BY <2>1 DEF PermitInv, StatusFollowsPermit, Follows
<1>4. OneRowEach'
  BY DEF PermitInv, OneRowEach
<1> QED BY <1>1, <1>2, <1>3, <1>4 DEF PermitInv

LEMMA PermitWrites ==
    ASSUME PermitInv, NEW h \in Handlers,
           \/ CreateMark(h) \/ UpdateMark(h)
           \/ \E e \in Entries, s \in {"HADIR", "ALPA"} : RecordLesson(h, e, s)
    PROVE  PermitInv'
<1>1. at[h] # "free" \/ MayStart(h)
  BY DEF CreateMark, UpdateMark, RecordLesson
<1>2. ASSUME NEW row \in Marks, Follows(row), RoomLeft, marks' = Inserted(row),
             row.of \in Lessons \/ alone => RowsOf(row.of) = {},
             at' = [at EXCEPT ![h] = "free"], DOMAIN held' = Handlers, alone' = alone,
             \A g \in Handlers \ {h} : held'[g] = held[g]
      PROVE  PermitInv'
  <2>1. PICK r \in MarkIds \ Stored :
              /\ marks'[r] = row /\ \A s \in MarkIds \ {r} : marks'[s] = marks[s]
              /\ Stored' = Stored \cup {r} /\ PermitTypeOK'
              /\ \A e \in Entries : RowsOf(e)' = RowsOf(e) \cup (IF row.of = e THEN {r} ELSE {})
    BY <1>2, MarkInserted DEF PermitInv
  <2>2. \A e \in Entries :
            \/ RowsOf(e)' = RowsOf(e)
            \/ RowsOf(e)' \subseteq {r} /\ (RowsOf(e) # {} => e \notin Lessons /\ ~alone)
            \/ e \notin Lessons /\ ~alone
    BY <1>2, <2>1
  <2>3. Follows(marks'[r]) /\ Stored \subseteq Stored' /\ Stored' \subseteq Stored \cup {r}
    BY <1>2, <2>1
  <2> QED BY <1>1, <1>2, <2>1, <2>2, <2>3, PermitWrite
<1>3. ASSUME NEW id \in Stored, NEW row \in Marks, Follows(row), marks' = Updated(id, row),
             at' = [at EXCEPT ![h] = "free"], DOMAIN held' = Handlers, alone' = alone,
             \A g \in Handlers \ {h} : held'[g] = held[g]
      PROVE  PermitInv'
  <2>1. /\ marks'[id].status = row.status /\ marks'[id].note = row.note
        /\ \A s \in MarkIds \ {id} : marks'[s] = marks[s]
        /\ Stored' = Stored /\ PermitTypeOK'
        /\ \A e \in Entries : RowsOf(e)' = RowsOf(e)
    BY <1>3, MarkUpdated DEF PermitInv
  <2>2. Follows(marks'[id]) /\ id \in MarkIds
    BY <1>3, <2>1 DEF Follows, Stored
  <2> QED BY <1>1, <1>3, <2>1, <2>2, PermitWrite
<1>4. CASE CreateMark(h)
  <2>1. /\ held[h].row \in Marks /\ Follows(held[h].row) /\ RoomLeft
        /\ alone => RowsOf(held[h].row.of) = {}
    BY <1>4 DEF CreateMark, PermitInv, PermitCalls, PermitAlone
  <2>2. CASE held[h].row.of \in Lessons /\ RowsOf(held[h].row.of) # {}
    BY <1>1, <1>4, <2>2, PermitMove DEF CreateMark, Answer
  <2>3. CASE ~(held[h].row.of \in Lessons /\ RowsOf(held[h].row.of) # {})
    <3>1. marks' = Inserted(held[h].row)
      BY <1>4, <2>3 DEF CreateMark
    <3> QED BY <1>2, <1>4, <2>1, <2>3, <3>1
            DEF CreateMark, Answer, Goto, PermitInv, PermitCalls
  <2> QED BY <2>2, <2>3
<1>5. CASE UpdateMark(h)
  <2>1. held[h].row \in Marks /\ Follows(held[h].row) /\ held[h].id \in Stored
    BY <1>5 DEF UpdateMark, PermitInv, PermitCalls
  <2> QED BY <1>3, <1>5, <2>1 DEF UpdateMark, Answer, Goto, PermitInv, PermitCalls
<1>6. CASE \E e \in Entries, s \in {"HADIR", "ALPA"} : RecordLesson(h, e, s)
  <2>1. PICK e \in Lessons, s \in {"HADIR", "ALPA"} : RecordLesson(h, e, s)
    BY <1>6 DEF RecordLesson
  <2>2. PICK row \in Marks : /\ row = [of |-> e, status |-> s, note |-> None]
                             /\ Follows(row) /\ row.of = e
    <3>1. [of |-> e, status |-> s, note |-> None] \in Marks
      BY DEF Marks, Notes, Entries
    <3> QED BY <3>1 DEF Follows
  <2>3. marks' = Upsert(row) /\ RoomLeft /\ MayStart(h) /\ UNCHANGED requestVars
    BY <2>1, <2>2 DEF RecordLesson
  <2>4. /\ at' = [at EXCEPT ![h] = "free"] /\ DOMAIN held' = Handlers /\ alone' = alone
        /\ \A g \in Handlers \ {h} : held'[g] = held[g]
    BY <2>3 DEF MayStart, requestVars, PermitInv, PermitCalls
  <2>5. CASE RowsOf(row.of) = {}
    BY <1>2, <2>2, <2>3, <2>4, <2>5 DEF Upsert
  <2>6. CASE RowsOf(row.of) # {}
    <3>1. PICK id \in RowsOf(row.of) : marks' = Updated(id, row)
      BY <2>3, <2>6 DEF Upsert
    <3>2. id \in Stored
      BY DEF RowsOf
    <3> QED BY <1>3, <2>2, <2>4, <3>1, <3>2
  <2> QED BY <2>5, <2>6
<1> QED BY <1>4, <1>5, <1>6

LEMMA PermitInvariance == PermitSpec => []PermitInv
<1>1. PermitInv /\ [PermitNext]_permitVars => PermitInv'
  <2>1. PermitInv /\ UNCHANGED permitVars => PermitInv'
    BY DEF PermitInv, PermitTypeOK, PermitCalls, PermitAlone, OneRequest, StatusFollowsPermit,
           OneRowEach, RowsOf, Stored, permitVars, requestVars
  <2> QED BY <2>1, PermitReads, PermitWrites DEF PermitNext, PermitStep
<1> QED BY <1>1, PermitInit0, PTL DEF PermitSpec

\* However teachers, students and verifiers overlap, a row whose note is a
\* permit has the status that permit gives it (attendance.service.ts: every
\* write sets the status and the note together).
THEOREM PermitsAreFollowed == PermitSpec => []StatusFollowsPermit
BY PermitInvariance, PTL DEF PermitInv

\* A student has one row for a lesson, by the unique key of the upsert, and one
\* for the day as long as requests do not overlap.
THEOREM OneRowForEach == PermitSpec => []OneRowEach
BY PermitInvariance, PTL DEF PermitInv

-----------------------------------------------------------------------------
(* The import of students.                                                 *)

Working == {"enqueue", "accounts", "insert-all", "report", "close", "audit"}

Held == [batch : Batches, rows : SUBSET Nisns, errors : SUBSET Nisns]

Enrolment(b, n) == [batch |-> b, class |-> file[b][n]]

\* A batch that is worked on is stored, and its file stays: what has been
\* inserted, and what has been reported, accounts for its rows for good.
ImportStage(call, x) == LET b == x.batch IN
    /\ call # "free" => x \in Held /\ batch[b] # "none"
    /\ call = "accounts" => x.rows = DOMAIN file[b]
    /\ call = "insert-all" => x.rows \cup x.errors = DOMAIN file[b]
    /\ call \in {"report", "close"} =>
          \A n \in DOMAIN file[b] : n \in x.errors \/ enrolled[n] = Enrolment(b, n)
    /\ call = "close" => x.errors \subseteq wrong[b]

ImportCalls == /\ at \in [Handlers -> {"free"} \cup Working]
               /\ DOMAIN held = Handlers
               /\ \A h \in Handlers : ImportStage(at[h], held[h])

\* A batch that is not stored has no job.
JobsAreStored == \A b \in Batches : batch[b] = "none" => importJob[b].state = "absent"

ImportInv == ImportTypeOK /\ ImportCalls /\ JobsAreStored /\ ClosedBatchAccounts

LEMMA ImportInit0 == ImportInit => ImportInv
<1> SUFFICES ASSUME ImportInit PROVE ImportInv
  OBVIOUS
<1>1. [n \in {} |-> None] \in Files
  BY DEF Files
<1>2. ImportTypeOK
  BY <1>1, NoJobType DEF ImportInit, ImportTypeOK
<1> QED BY <1>2 DEF ImportInit, RequestsInit, ImportInv, ImportCalls, ImportStage, JobsAreStored,
                    ClosedBatchAccounts, NoJob

LEMMA FileFacts ==
    ASSUME ImportTypeOK, NEW b \in Batches
    PROVE  /\ DOMAIN file[b] \subseteq Nisns /\ \A n \in DOMAIN file[b] : file[b][n] \in Rooms
           /\ \A n \in DOMAIN file[b] :
                 Enrolment(b, n) \in Accounts /\ Enrolment(b, n) # None
<1>1. PICK N \in SUBSET Nisns : file[b] \in [N -> Rooms]
  BY DEF ImportTypeOK, Files
<1>2. \A n \in DOMAIN file[b] : Enrolment(b, n) \in Accounts
  BY <1>1 DEF Enrolment, Accounts
<1> QED BY <1>1, <1>2, ImportRowAssumption

\* Of a stored batch the file stays, accounts stay, and errors stay: so does
\* what the other requests know.
LEMMA StageStays ==
    ASSUME ImportTypeOK, NEW call, NEW x, ImportStage(call, x),
           \A b \in Batches : batch[b] # "none" => batch'[b] # "none" /\ file'[b] = file[b],
           \A n \in Nisns : enrolled[n] # None => enrolled'[n] = enrolled[n],
           \A b \in Batches : wrong[b] \subseteq wrong'[b]
    PROVE  ImportStage(call, x)'
<1>1. CASE call = "free"
  BY <1>1 DEF ImportStage
<1>2. CASE call # "free"
  <2>1. PICK b \in Batches : x.batch = b /\ batch[b] # "none" /\ x \in Held
    BY <1>2 DEF ImportStage, Held
  <2>2. file'[b] = file[b] /\ batch'[b] # "none" /\ wrong[b] \subseteq wrong'[b] /\ Held' = Held
    BY <2>1 DEF Held
  <2>3. \A n \in DOMAIN file[b] :
            Enrolment(b, n)' = Enrolment(b, n)
            /\ (enrolled[n] = Enrolment(b, n) => enrolled'[n] = enrolled[n])
    BY <2>1, <2>2, FileFacts DEF Enrolment
  <2>4. call \in {"report", "close"} =>
            \A n \in DOMAIN file'[b] : n \in x.errors \/ enrolled'[n] = Enrolment(b, n)'
    BY <2>1, <2>2, <2>3 DEF ImportStage
  <2> QED BY <2>1, <2>2, <2>4 DEF ImportStage
<1> QED BY <1>1, <1>2

\* The shape of every step of a request.
LEMMA ImportMove ==
    ASSUME ImportInv, NEW h \in Handlers, NEW call \in {"free"} \cup Working, NEW x,
           Goto(h, call, x), ImportTypeOK', JobsAreStored', ClosedBatchAccounts',
           \A b \in Batches : batch[b] # "none" => batch'[b] # "none" /\ file'[b] = file[b],
           \A n \in Nisns : enrolled[n] # None => enrolled'[n] = enrolled[n],
           \A b \in Batches : wrong[b] \subseteq wrong'[b],
           ImportStage(call, x)'
    PROVE  ImportInv'
<1>1. /\ at' = [at EXCEPT ![h] = call] /\ held' = [held EXCEPT ![h] = x]
      /\ at \in [Handlers -> {"free"} \cup Working] /\ DOMAIN held = Handlers
  BY DEF Goto, ImportInv, ImportCalls
<1>2. \A g \in Handlers \ {h} : ImportStage(at[g], held[g])'
  <2> TAKE g \in Handlers \ {h}
  <2>1. PICK c, y : c = at[g] /\ y = held[g] /\ at'[g] = c /\ held'[g] = y
    BY <1>1
  <2>2. ImportStage(c, y)'
    BY <2>1, StageStays DEF ImportInv, ImportCalls
  <2> QED BY <2>1, <2>2 DEF ImportStage
<1>3. ImportStage(at[h], held[h])'
  BY <1>1 DEF ImportStage
<1>4. ImportCalls'
  BY <1>1, <1>2, <1>3 DEF ImportCalls
<1> QED BY <1>4 DEF ImportInv

\* Storing, enqueueing and taking the job.
LEMMA ImportStarts ==
    ASSUME ImportInv, NEW h \in Handlers,
           EnqueueImport(h) \/ (\E b \in Batches : StoreBatch(h, b) \/ TakeImportJob(h, b))
    PROVE  ImportInv'
<1>1. CASE EnqueueImport(h)
  <2>1. PICK b \in Batches : held[h].batch = b /\ batch[b] # "none"
    BY <1>1 DEF EnqueueImport, ImportInv, ImportCalls, ImportStage, Held
  <2>2. importJob' = [importJob EXCEPT ![b] = Add(importJob[b])] /\ Goto(h, "free", None)
        /\ UNCHANGED <<file, batch, enrolled, wrong>>
    BY <1>1, <2>1 DEF EnqueueImport, Answer
  <2>3. Add(importJob[b]) \in JobType
    BY <2>1, JobsStayJobs DEF ImportInv, ImportTypeOK
  <2>4. ImportTypeOK' /\ JobsAreStored' /\ ClosedBatchAccounts'
    BY <2>1, <2>2, <2>3
       DEF ImportInv, ImportTypeOK, JobsAreStored, ClosedBatchAccounts, Enrolment
  <2>5. ImportStage("free", None)'
    BY DEF ImportStage
  <2> QED BY <2>2, <2>4, <2>5, ImportMove
<1>2. CASE \E b \in Batches : StoreBatch(h, b)
  <2>1. PICK b \in Batches, f \in Files :
            /\ batch[b] = "none" /\ batch' = [batch EXCEPT ![b] = "PROCESSING"]
            /\ file' = [file EXCEPT ![b] = f]
            /\ Goto(h, "enqueue", Committing(b, {}, {}))
            /\ UNCHANGED <<importJob, enrolled, wrong>>
    BY <1>2 DEF StoreBatch
  <2>2. ImportTypeOK' /\ JobsAreStored'
    BY <2>1 DEF ImportInv, ImportTypeOK, JobsAreStored
  <2>3. ClosedBatchAccounts'
    <3>1. \A c \in Batches : batch'[c] \in {"COMPLETED", "FAILED"} =>
              c # b /\ batch'[c] = batch[c] /\ file'[c] = file[c]
      BY <2>1 DEF ImportInv, ImportTypeOK
    <3> QED BY <2>1, <3>1 DEF ImportInv, ClosedBatchAccounts
  <2>4. \A c \in Batches : batch[c] # "none" => batch'[c] # "none" /\ file'[c] = file[c]
    BY <2>1 DEF ImportInv, ImportTypeOK
  <2>5. ImportStage("enqueue", Committing(b, {}, {}))'
    <3>1. batch'[b] = "PROCESSING"
      BY <2>1 DEF ImportInv, ImportTypeOK
    <3> QED BY <3>1 DEF ImportStage, Committing, Held
  <2> QED BY <2>1, <2>2, <2>3, <2>4, <2>5, ImportMove DEF Working
<1>3. CASE \E b \in Batches : TakeImportJob(h, b)
  <2>1. PICK b \in Batches :
            /\ importJob[b].state = "waiting"
            /\ importJob' = [importJob EXCEPT ![b] = Take(importJob[b])]
            /\ Goto(h, "accounts", Committing(b, DOMAIN file[b], {}))
            /\ UNCHANGED <<file, batch, enrolled, wrong>>
    BY <1>3 DEF TakeImportJob
  <2>2. Take(importJob[b]) \in JobType /\ batch[b] # "none"
    BY <2>1, JobsStayJobs DEF ImportInv, ImportTypeOK, JobsAreStored
  <2>3. ImportTypeOK' /\ JobsAreStored' /\ ClosedBatchAccounts'
    BY <2>1, <2>2 DEF ImportInv, ImportTypeOK, JobsAreStored, ClosedBatchAccounts
  <2>4. ImportStage("accounts", Committing(b, DOMAIN file[b], {}))'
    <3>1. DOMAIN file[b] \subseteq Nisns
      BY FileFacts DEF ImportInv
    <3> QED BY <2>1, <2>2, <3>1 DEF ImportStage, Committing, Held
  <2> QED BY <2>1, <2>3, <2>4, ImportMove DEF Working
<1> QED BY <1>1, <1>2, <1>3

\* The work on the batch.
LEMMA ImportChecks ==
    ASSUME ImportInv, NEW h \in Handlers, CheckAccounts(h)
    PROVE  ImportInv'
<1>1. PICK b \in Batches : /\ held[h].batch = b /\ batch[b] # "none" /\ held[h] \in Held
                           /\ held[h].rows = DOMAIN file[b]
  BY DEF CheckAccounts, ImportInv, ImportCalls, ImportStage, Held
<1>2. PICK rest \in SUBSET Nisns, errors \in SUBSET Nisns, call \in {"report", "insert-all"} :
          /\ Goto(h, call, Committing(b, rest, errors))
          /\ rest \cup errors = DOMAIN file[b]
          /\ call = "report" => rest = {}
  <2> DEFINE known == {n \in held[h].rows : enrolled[n] # None}
             homeless == {n \in held[h].rows \ known : file[b][n] \notin Offered}
             rest == held[h].rows \ (known \cup homeless)
             errors == known \cup homeless
  <2>1. Goto(h, IF rest = {} THEN "report" ELSE "insert-all", Committing(b, rest, errors))
    BY <1>1 DEF CheckAccounts
  <2>2. rest \in SUBSET Nisns /\ errors \in SUBSET Nisns /\ rest \cup errors = DOMAIN file[b]
    BY <1>1 DEF Held
  <2> HIDE DEF rest, errors
  <2> QED BY <2>1, <2>2
<1>3. UNCHANGED importRows
  BY DEF CheckAccounts
<1>4. ImportStage(call, Committing(b, rest, errors))'
  <2>1. PICK x : x = Committing(b, rest, errors) /\ x \in Held
                 /\ x.batch = b /\ x.rows = rest /\ x.errors = errors
    <3>1. Committing(b, rest, errors) \in Held
      BY DEF Committing, Held
    <3> QED BY <3>1 DEF Committing
  <2>2. ImportStage(call, x)'
    BY <1>1, <1>2, <1>3, <2>1 DEF ImportStage, importRows, Held
  <2> QED BY <2>1, <2>2
<1>5. ImportTypeOK' /\ JobsAreStored' /\ ClosedBatchAccounts'
  BY <1>3 DEF ImportInv, ImportTypeOK, JobsAreStored, ClosedBatchAccounts, importRows
<1> QED BY <1>2, <1>3, <1>4, <1>5, ImportMove DEF Working, importRows

LEMMA ImportInserts ==
    ASSUME ImportInv, NEW h \in Handlers, InsertAll(h)
    PROVE  ImportInv'
<1>1. PICK b \in Batches, x \in Held :
          /\ held[h] = x /\ x.batch = b /\ batch[b] # "none"
          /\ x.rows \cup x.errors = DOMAIN file[b]
          /\ importJob[b] \in JobType
  BY DEF InsertAll, ImportInv, ImportCalls, ImportStage, Held, ImportTypeOK
<1>2. UNCHANGED <<file, batch, wrong>>
  BY DEF InsertAll
<1>3. CASE ForeignKeysHold(x.rows)
  <2>1. /\ enrolled' = [n \in Nisns |->
                IF n \in x.rows /\ enrolled[n] = None THEN Enrolment(b, n) ELSE enrolled[n]]
        /\ Goto(h, "report", x) /\ importJob' = importJob
    BY <1>1, <1>3 DEF InsertAll, Enrolment
  <2>2. ImportTypeOK'
    <3>1. \A n \in Nisns : enrolled'[n] \in Accounts \cup {None}
      <4>1. \A n \in x.rows : Enrolment(b, n) \in Accounts
        BY <1>1, FileFacts DEF ImportInv
      <4> QED BY <2>1, <4>1 DEF ImportInv, ImportTypeOK
    <3> QED BY <1>2, <2>1, <3>1 DEF ImportInv, ImportTypeOK
  <2>3. \A n \in Nisns : enrolled[n] # None => enrolled'[n] = enrolled[n]
    BY <2>1
  <2>4. JobsAreStored' /\ ClosedBatchAccounts'
    BY <1>2, <2>1, <2>3, FileFacts DEF ImportInv, JobsAreStored, ClosedBatchAccounts, Enrolment
  <2>5. ImportStage("report", x)'
    BY <1>1, <1>2, <1>3, <2>1 DEF ImportStage, ForeignKeysHold, Held, Enrolment
  <2> QED BY <1>2, <2>1, <2>2, <2>3, <2>4, <2>5, ImportMove DEF Working
<1>4. CASE ~ForeignKeysHold(x.rows)
  <2>1. /\ importJob' = [importJob EXCEPT ![b] = Thrown(importJob[b])]
        /\ Goto(h, "free", None) /\ enrolled' = enrolled
    BY <1>1, <1>4 DEF InsertAll, Answer
  <2>2. ImportTypeOK' /\ JobsAreStored' /\ ClosedBatchAccounts'
    BY <1>1, <1>2, <2>1, JobsStayJobs
       DEF ImportInv, ImportTypeOK, JobsAreStored, ClosedBatchAccounts
  <2> QED BY <1>2, <2>1, <2>2, ImportMove DEF ImportStage
<1> QED BY <1>3, <1>4

LEMMA ImportCloses ==
    ASSUME ImportInv, NEW h \in Handlers,
           ReportErrors(h) \/ CloseBatch(h) \/ EndImport(h) \/ ImportFails(h)
    PROVE  ImportInv'
<1>1. PICK b \in Batches, x \in Held :
          /\ held[h] = x /\ x.batch = b /\ batch[b] # "none"
          /\ importJob[b] \in JobType
  BY DEF ReportErrors, CloseBatch, EndImport, ImportFails, ImportInv, ImportCalls, ImportStage,
         Held, ImportTypeOK
<1>2. UNCHANGED <<file, enrolled>>
  BY DEF ReportErrors, CloseBatch, EndImport, ImportFails
<1>3. CASE ReportErrors(h)
  <2>1. /\ wrong' = [wrong EXCEPT ![b] = wrong[b] \cup x.errors]
        /\ Goto(h, "close", x) /\ UNCHANGED <<batch, importJob>>
    BY <1>1, <1>3 DEF ReportErrors
  <2>2. \A c \in Batches : wrong[c] \subseteq wrong'[c]
    BY <2>1 DEF ImportInv, ImportTypeOK
  <2>3. ImportTypeOK' /\ JobsAreStored' /\ ClosedBatchAccounts'
    BY <1>1, <1>2, <2>1, <2>2
       DEF ImportInv, ImportTypeOK, JobsAreStored, ClosedBatchAccounts, Held
  <2>4. ImportStage("close", x)'
    <3>1. ImportStage("report", x) /\ x.errors \subseteq wrong'[b]
      BY <1>1, <1>3, <2>1 DEF ReportErrors, ImportInv, ImportCalls, ImportTypeOK
    <3> QED BY <1>1, <1>2, <2>1, <3>1 DEF ImportStage, Enrolment, Held
  <2> QED BY <1>2, <2>1, <2>2, <2>3, <2>4, ImportMove DEF Working
<1>4. CASE CloseBatch(h)
  <2>1. PICK s \in {"COMPLETED", "FAILED"} :
            /\ s = IF x.errors = {} THEN "COMPLETED" ELSE "FAILED"
            /\ batch' = [batch EXCEPT ![b] = s]
            /\ Goto(h, "audit", x) /\ UNCHANGED <<importJob, wrong>>
    BY <1>1, <1>4 DEF CloseBatch
  <2>2. ImportTypeOK' /\ JobsAreStored'
    BY <1>1, <1>2, <2>1 DEF ImportInv, ImportTypeOK, JobsAreStored
  <2>3. /\ x.errors \subseteq wrong[b]
        /\ \A n \in DOMAIN file[b] : n \in x.errors \/ enrolled[n] = Enrolment(b, n)
    BY <1>1, <1>4 DEF CloseBatch, ImportInv, ImportCalls, ImportStage
  <2>4. batch'[b] = s /\ \A c \in Batches \ {b} : batch'[c] = batch[c]
    BY <2>1 DEF ImportInv, ImportTypeOK
  <2>5. ClosedBatchAccounts'
    BY <1>2, <2>1, <2>3, <2>4 DEF ImportInv, ClosedBatchAccounts, Enrolment
  <2>6. ImportStage("audit", x)'
    BY <1>1, <2>1, <2>4 DEF ImportStage, Held
  <2> QED BY <1>2, <2>1, <2>2, <2>4, <2>5, <2>6, ImportMove DEF Working
<1>5. CASE EndImport(h) \/ ImportFails(h)
  <2>1. PICK j \in JobType : importJob' = [importJob EXCEPT ![b] = j]
    BY <1>1, <1>5, JobsStayJobs DEF EndImport, ImportFails, ImportInv, ImportTypeOK
  <2>2. Goto(h, "free", None) /\ UNCHANGED <<batch, wrong>>
    BY <1>5 DEF EndImport, ImportFails, Answer
  <2>3. ImportTypeOK' /\ JobsAreStored' /\ ClosedBatchAccounts'
    BY <1>1, <1>2, <2>1, <2>2
       DEF ImportInv, ImportTypeOK, JobsAreStored, ClosedBatchAccounts
  <2> QED BY <1>2, <2>2, <2>3, ImportMove DEF ImportStage
<1> QED BY <1>3, <1>4, <1>5

LEMMA ImportInvariance == ImportSpec => []ImportInv
<1>1. ImportInv /\ [ImportNext]_importVars => ImportInv'
  <2>1. ImportInv /\ UNCHANGED importVars => ImportInv'
    BY DEF ImportInv, ImportTypeOK, ImportCalls, ImportStage, Enrolment, JobsAreStored,
           ClosedBatchAccounts, importVars, importRows, requestVars
  <2> QED BY <2>1, ImportStarts, ImportChecks, ImportInserts, ImportCloses
          DEF ImportNext, ImportStep
<1> QED BY <1>1, ImportInit0, PTL DEF ImportSpec

\* However imports of overlapping files overlap, and whatever breaks off and is
\* repeated: a batch that is closed accounts for each of its rows, and one that
\* closed without errors made every account itself (import.service.ts: one
\* transaction inserts, the foreign keys of the roles refuse a part of it).
THEOREM ImportsAccountForRows == ImportSpec => []ClosedBatchAccounts
BY ImportInvariance, PTL DEF ImportInv
-----------------------------------------------------------------------------
(* Submissions.                                                            *)

HandingCalls == {"create", "replace", "remember"}

GradingCalls == {"grade", "enter"}

SubmissionCallNames == {"free", "look", "withdraw", "change"} \cup HandingCalls \cup GradingCalls

LookLocals == [by : Learners, work : Works, task : Tasks]

HandingLocals == [by : Learners, work : Works, when : Hours, late : BOOLEAN]

WithdrawLocals == [by : Learners]

GradingLocals == [by : Learners, points : Points]

ChangeLocals == [field : {"status"}, value : {"DRAFT", "PUBLISHED", "CLOSED"}]
                \cup [field : {"due"}, value : Hours]
                \cup [field : {"allowLate"}, value : BOOLEAN]

SubmissionLocals == LookLocals \cup HandingLocals \cup WithdrawLocals \cup GradingLocals
                    \cup ChangeLocals \cup {None}

\* The locals are those of the call the handler makes next ...
Fitting(call, x) == /\ call = "look" => x \in LookLocals
                    /\ call \in HandingCalls => x \in HandingLocals
                    /\ call = "withdraw" => x \in WithdrawLocals
                    /\ call \in GradingCalls => x \in GradingLocals
                    /\ call = "change" => x \in ChangeLocals

\* ... and what it read is true still: that there is a row, for ever; that it is
\* not graded and the key is new, while requests do not overlap.
Backed(call, x) ==
    /\ call \in {"replace", "withdraw", "grade", "enter"} => sheet[x.by] # None
    /\ call = "enter" => sheet[x.by].graded
    /\ alone /\ call \in {"replace", "withdraw"} => ~sheet[x.by].graded
    /\ alone /\ call = "replace" => <<x.by, x.work>> \notin remembered

SubmissionCalls == /\ at \in [Handlers -> SubmissionCallNames]
                   /\ held \in [Handlers -> SubmissionLocals]
                   /\ \A h \in Handlers : Fitting(at[h], held[h])
                   /\ \A h \in Handlers : Backed(at[h], held[h])

OneAtOnce == alone => \A g, h \in Handlers : at[g] # "free" /\ at[h] # "free" => g = h

\* What was written is remembered, or the handler that wrote it is about to.
WrittenIsRemembered == alone =>
    \A s \in Learners, w \in Works : <<s, w>> \in written =>
        /\ sheet[s] # None
        /\ \/ <<s, w>> \in remembered
           \/ \E h \in Handlers : at[h] = "remember" /\ held[h].by = s /\ held[h].work = w

SubmissionInv == /\ SubmissionTypeOK /\ SubmissionCalls /\ OneAtOnce /\ WrittenIsRemembered
                 /\ GradedWorkStands /\ SubmittedOnce

LEMMA SubmissionInit0 == SubmissionInit => SubmissionInv
<1> SUFFICES ASSUME SubmissionInit PROVE SubmissionInv
  OBVIOUS
<1>1. SubmissionTypeOK
  BY SubmissionAssumption DEF SubmissionInit, SubmissionTypeOK, Tasks, Hours
<1>2. SubmissionCalls
  BY DEF SubmissionInit, RequestsInit, SubmissionCalls, SubmissionCallNames, SubmissionLocals,
         Fitting, Backed, HandingCalls, GradingCalls
<1>3. OneAtOnce /\ WrittenIsRemembered /\ GradedWorkStands /\ SubmittedOnce
  BY DEF SubmissionInit, RequestsInit, OneAtOnce, WrittenIsRemembered, GradedWorkStands,
         SubmittedOnce
<1> QED BY <1>1, <1>2, <1>3 DEF SubmissionInv

\* One handler goes on; rows stay, and what is graded stays graded.
LEMMA SubmissionMove ==
    ASSUME SubmissionInv, NEW h \in Handlers, NEW call \in SubmissionCallNames,
           NEW x \in SubmissionLocals, Goto(h, call, x), MayStart(h) \/ at[h] # "free",
           SubmissionTypeOK', GradedWorkStands', SubmittedOnce',
           \A s \in Learners : sheet[s] # None =>
               sheet'[s] # None /\ (sheet[s].graded => sheet'[s].graded),
           Fitting(call, x), Backed(call, x)',
           alone => \A s \in Learners, w \in Works : <<s, w>> \in written' =>
               /\ sheet'[s] # None
               /\ <<s, w>> \in remembered' \/ (call = "remember" /\ x.by = s /\ x.work = w)
    PROVE  SubmissionInv'
<1>1. /\ at' = [at EXCEPT ![h] = call] /\ held' = [held EXCEPT ![h] = x] /\ alone' = alone
      /\ at \in [Handlers -> SubmissionCallNames] /\ held \in [Handlers -> SubmissionLocals]
  BY DEF Goto, SubmissionInv, SubmissionCalls
<1>2. /\ at'[h] = call /\ held'[h] = x
      /\ \A g \in Handlers \ {h} : at'[g] = at[g] /\ held'[g] = held[g]
  BY <1>1
<1>3. alone => \A g \in Handlers \ {h} : at[g] = "free"
  BY DEF MayStart, SubmissionInv, OneAtOnce
<1>4. OneAtOnce'
  BY <1>1, <1>2, <1>3 DEF OneAtOnce
<1>5. WrittenIsRemembered'
  BY <1>1, <1>2 DEF WrittenIsRemembered
<1>6. ASSUME NEW g \in Handlers PROVE Fitting(at'[g], held'[g]) /\ Backed(at[g], held[g])'
  <2>1. CASE g = h
    BY <1>2, <2>1 DEF Backed
  <2>2. CASE g # h /\ at[g] = "free"
    BY <1>2, <2>2 DEF Fitting, Backed, HandingCalls, GradingCalls
  <2>3. CASE g # h /\ at[g] # "free"
    <3>1. ~alone /\ ~alone'
      BY <1>1, <1>3, <2>3
    <3>2. at'[g] = at[g] /\ held'[g] = held[g]
      BY <1>2, <2>3
    <3>3. Fitting(at[g], held[g]) /\ Backed(at[g], held[g])
      BY DEF SubmissionInv, SubmissionCalls
    <3>4. at[g] \in {"replace", "withdraw", "grade", "enter"} => held[g].by \in Learners
      BY <3>3 DEF Fitting, HandingCalls, GradingCalls, HandingLocals, WithdrawLocals,
                  GradingLocals
    <3> QED BY <3>1, <3>2, <3>3, <3>4 DEF Backed
  <2> QED BY <2>1, <2>2, <2>3
<1>7. SubmissionCalls'
  BY <1>1, <1>6 DEF SubmissionCalls
<1> QED BY <1>4, <1>5, <1>7 DEF SubmissionInv

\* What the properties say of the rows does not depend on who stands where.
LEMMA SubmissionRowsStay ==
    ASSUME SubmissionInv, NEW h \in Handlers, NEW call \in SubmissionCallNames \ {"remember"},
           NEW x \in SubmissionLocals, Goto(h, call, x), MayStart(h) \/ at[h] # "free",
           at[h] # "remember", UNCHANGED submissionRows,
           Fitting(call, x), Backed(call, x)
    PROVE  SubmissionInv'
<1>1. SubmissionTypeOK' /\ GradedWorkStands' /\ SubmittedOnce' /\ Backed(call, x)'
  BY DEF Goto, SubmissionInv, SubmissionTypeOK, GradedWorkStands, SubmittedOnce, Backed,
         submissionRows
<1>2. alone => \A g \in Handlers : at[g] # "remember"
  BY DEF MayStart, SubmissionInv, OneAtOnce
<1> QED BY <1>1, <1>2, SubmissionMove
        DEF SubmissionInv, WrittenIsRemembered, submissionRows

LEMMA SubmissionReads ==
    ASSUME SubmissionInv, NEW h \in Handlers,
           \/ \E s \in Learners : ReadTask(h, s) \/ WithdrawRead(h, s) \/ GradeSheetRead(h, s)
           \/ LookForSheet(h) \/ TaskRead(h) \/ SubmissionFails(h)
    PROVE  SubmissionInv'
<1>0. SubmissionTypeOK /\ SubmissionCalls /\ Fitting(at[h], held[h]) /\ Backed(at[h], held[h])
  BY DEF SubmissionInv, SubmissionCalls
<1>1. ASSUME NEW s \in Learners, ReadTask(h, s) PROVE SubmissionInv'
  <2>1. PICK w \in Works : Goto(h, "look", [by |-> s, work |-> w, task |-> task])
    BY <1>1 DEF ReadTask
  <2>2. PICK x \in LookLocals : x = [by |-> s, work |-> w, task |-> task]
    BY <1>0 DEF LookLocals, SubmissionTypeOK
  <2>3. Goto(h, "look", x) /\ at[h] = "free" /\ MayStart(h) /\ UNCHANGED submissionRows
    BY <1>1, <2>1, <2>2 DEF ReadTask, MayStart
  <2> QED BY <2>3, SubmissionRowsStay
          DEF SubmissionCallNames, SubmissionLocals, Fitting, Backed, HandingCalls, GradingCalls
<1>2. ASSUME NEW s \in Learners, WithdrawRead(h, s) PROVE SubmissionInv'
  <2>1. PICK x \in WithdrawLocals : x = [by |-> s] /\ x.by = s
    <3>1. [by |-> s] \in WithdrawLocals /\ [by |-> s].by = s
      BY DEF WithdrawLocals
    <3> QED BY <3>1
  <2>2. /\ Goto(h, "withdraw", x) /\ at[h] = "free" /\ MayStart(h) /\ UNCHANGED submissionRows
        /\ sheet[s] # None /\ ~sheet[s].graded
    BY <1>2, <2>1 DEF WithdrawRead, MayStart, Withdrawable
  <2> QED BY <2>1, <2>2, SubmissionRowsStay
          DEF SubmissionCallNames, SubmissionLocals, Fitting, Backed, HandingCalls, GradingCalls
<1>3. ASSUME NEW s \in Learners, GradeSheetRead(h, s) PROVE SubmissionInv'
  <2>1. PICK p \in Points : Goto(h, "grade", [by |-> s, points |-> p])
    BY <1>3 DEF GradeSheetRead
  <2>2. PICK x \in GradingLocals : x = [by |-> s, points |-> p] /\ x.by = s
    <3>1. [by |-> s, points |-> p] \in GradingLocals /\ [by |-> s, points |-> p].by = s
      BY DEF GradingLocals
    <3> QED BY <3>1
  <2>3. /\ Goto(h, "grade", x) /\ at[h] = "free" /\ MayStart(h) /\ UNCHANGED submissionRows
        /\ sheet[s] # None
    BY <1>3, <2>1, <2>2 DEF GradeSheetRead, MayStart
  <2> QED BY <2>2, <2>3, SubmissionRowsStay
          DEF SubmissionCallNames, SubmissionLocals, Fitting, Backed, HandingCalls, GradingCalls
<1>4. CASE LookForSheet(h)
  <2>1. held[h] \in LookLocals /\ at[h] = "look"
    BY <1>0, <1>4 DEF LookForSheet, Fitting
  <2>2. PICK x \in HandingLocals :
            /\ x = [by |-> held[h].by, work |-> held[h].work, when |-> hour,
                    late |-> hour > held[h].task.due]
            /\ x.by = held[h].by /\ x.work = held[h].work
    <3> DEFINE now == [by |-> held[h].by, work |-> held[h].work, when |-> hour,
                       late |-> hour > held[h].task.due]
    <3>1. (hour > held[h].task.due) \in BOOLEAN
      OBVIOUS
    <3>2. held[h].by \in Learners /\ held[h].work \in Works /\ hour \in Hours
      BY <1>0, <2>1 DEF LookLocals, SubmissionTypeOK
    <3>3. now \in HandingLocals /\ now.by = held[h].by /\ now.work = held[h].work
      BY <3>1, <3>2 DEF HandingLocals
    <3> QED BY <3>3
  <2>3. UNCHANGED submissionRows /\ x.by \in Learners /\ sheet[x.by] \in Sheets \cup {None}
    BY <1>0, <1>4 DEF LookForSheet, HandingLocals, SubmissionTypeOK
  <2>4. CASE Goto(h, "free", None)
    BY <2>1, <2>3, <2>4, SubmissionRowsStay
       DEF SubmissionCallNames, SubmissionLocals, Fitting, Backed, HandingCalls, GradingCalls
  <2>5. CASE Goto(h, "create", x)
    BY <2>1, <2>3, <2>5, SubmissionRowsStay
       DEF SubmissionCallNames, SubmissionLocals, Fitting, Backed, HandingCalls, GradingCalls
  <2>6. CASE /\ Goto(h, "replace", x) /\ sheet[x.by] # None /\ ~sheet[x.by].graded
             /\ <<x.by, x.work>> \notin remembered
    BY <2>1, <2>3, <2>6, SubmissionRowsStay
       DEF SubmissionCallNames, SubmissionLocals, Fitting, Backed, HandingCalls, GradingCalls
  <2> QED BY <1>4, <2>2, <2>4, <2>5, <2>6 DEF LookForSheet, Answer, Replay
<1>5. CASE TaskRead(h)
  <2>1. PICK c \in Changes : Goto(h, "change", c)
    BY <1>5 DEF TaskRead
  <2>2. c \in ChangeLocals
    BY DEF Changes, ChangeLocals, Reachable
  <2>3. at[h] = "free" /\ MayStart(h) /\ UNCHANGED submissionRows
    BY <1>5 DEF TaskRead, MayStart
  <2> QED BY <2>1, <2>2, <2>3, SubmissionRowsStay
          DEF SubmissionCallNames, SubmissionLocals, Fitting, Backed, HandingCalls, GradingCalls
<1>6. CASE SubmissionFails(h)
  <2>1. Goto(h, "free", None) /\ at[h] \notin {"free", "remember"} /\ UNCHANGED submissionRows
    BY <1>6 DEF SubmissionFails, Answer
  <2> QED BY <2>1, SubmissionRowsStay
          DEF SubmissionCallNames, SubmissionLocals, Fitting, Backed, HandingCalls, GradingCalls
<1> QED BY <1>1, <1>2, <1>3, <1>4, <1>5, <1>6

\* A row is written: the work of a student is handed in, withdrawn or graded.
LEMMA SubmissionWrite ==
    ASSUME SubmissionInv, NEW h \in Handlers, at[h] \notin {"free", "remember"},
           NEW s \in Learners, NEW row \in Sheets, NEW stood \in Works \cup {None},
           NEW call \in {"free", "remember", "enter"}, NEW x \in SubmissionLocals,
           Goto(h, call, x), Fitting(call, x),
           call # "free" => x.by = s, call = "enter" => row.graded,
           sheet' = [sheet EXCEPT ![s] = row], judged' = [judged EXCEPT ![s] = stood],
           UNCHANGED <<task, entry, remembered, hour>>,
           call = "remember" => CountWrite(s, x.work),
           call # "remember" => UNCHANGED <<written, rewritten>>,
           call = "remember" /\ alone => <<s, x.work>> \notin written,
           sheet[s] # None /\ sheet[s].graded => row.graded,
           alone /\ row.graded => row.status = "GRADED" /\ row.work = stood
    PROVE  SubmissionInv'
<1>0. SubmissionTypeOK /\ GradedWorkStands /\ SubmittedOnce /\ alone' = alone
  BY DEF SubmissionInv, Goto
<1>1. /\ sheet'[s] = row /\ judged'[s] = stood /\ row # None
      /\ \A t \in Learners \ {s} : sheet'[t] = sheet[t] /\ judged'[t] = judged[t]
      /\ sheet' \in [Learners -> Sheets \cup {None}]
      /\ judged' \in [Learners -> Works \cup {None}]
  BY <1>0, SubmissionRowAssumption DEF SubmissionTypeOK
<1>2. \A t \in Learners : sheet[t] # None =>
          sheet'[t] # None /\ (sheet[t].graded => sheet'[t].graded)
  BY <1>1
<1>3. GradedWorkStands'
  BY <1>0, <1>1, <1>2 DEF GradedWorkStands
<1>4. call = "remember" => x.work \in Works
  BY DEF Fitting, HandingCalls, HandingLocals
<1>5. SubmissionTypeOK' /\ SubmittedOnce'
  <2>1. CASE call = "remember"
    BY <1>0, <1>1, <1>4, <2>1 DEF SubmissionTypeOK, SubmittedOnce, CountWrite
  <2>2. CASE call # "remember"
    BY <1>0, <1>1, <2>2 DEF SubmissionTypeOK, SubmittedOnce
  <2> QED BY <2>1, <2>2
<1>6. Backed(call, x)'
  BY <1>1 DEF Backed
<1>7. ASSUME alone, NEW t \in Learners, NEW w \in Works, <<t, w>> \in written'
      PROVE  /\ sheet'[t] # None
             /\ <<t, w>> \in remembered' \/ (call = "remember" /\ x.by = t /\ x.work = w)
  <2>1. CASE <<t, w>> \in written
    <3>1. \A g \in Handlers : at[g] # "remember"
      BY <1>7 DEF SubmissionInv, OneAtOnce
    <3> QED BY <1>2, <1>7, <2>1, <3>1 DEF SubmissionInv, WrittenIsRemembered
  <2>2. CASE <<t, w>> \notin written
    BY <1>1, <1>7, <2>2 DEF CountWrite
  <2> QED BY <2>1, <2>2
<1> QED BY <1>2, <1>3, <1>5, <1>6, <1>7, SubmissionMove DEF SubmissionCallNames, HandingCalls,
           GradingCalls

LEMMA SubmissionWrites ==
    ASSUME SubmissionInv, NEW h \in Handlers,
           CreateSheet(h) \/ ReplaceSheet(h) \/ Withdraw(h) \/ GradeSheet(h)
    PROVE  SubmissionInv'
<1>0. SubmissionTypeOK /\ GradedWorkStands /\ Fitting(at[h], held[h]) /\ Backed(at[h], held[h])
  BY DEF SubmissionInv, SubmissionCalls
<1>1. PICK s \in Learners : s = held[h].by
  BY <1>0 DEF Fitting, HandingCalls, GradingCalls, HandingLocals, WithdrawLocals,
              GradingLocals, CreateSheet, ReplaceSheet, Withdraw, GradeSheet
<1>2. at[h] \notin {"free", "remember"}
  BY DEF CreateSheet, ReplaceSheet, Withdraw, GradeSheet
\* What was handed in under a key is remembered when nobody is about to.
<1>3. alone => \A w \in Works : <<s, w>> \in written =>
          sheet[s] # None /\ <<s, w>> \in remembered
  BY <1>2 DEF SubmissionInv, OneAtOnce, WrittenIsRemembered
<1>4. CASE CreateSheet(h) /\ sheet[s] # None
  <2>1. Goto(h, "free", None) /\ UNCHANGED submissionRows
    BY <1>1, <1>4 DEF CreateSheet, Answer, submissionRows
  <2> QED BY <1>2, <2>1, SubmissionRowsStay
          DEF SubmissionCallNames, SubmissionLocals, Fitting, Backed, HandingCalls, GradingCalls
<1>5. CASE CreateSheet(h) /\ sheet[s] = None
  <2>1. PICK x \in HandingLocals : x = held[h] /\ x.by = s
    BY <1>0, <1>1, <1>5 DEF CreateSheet, Fitting, HandingCalls
  <2>2. PICK row \in Sheets : row = [status |-> HandedStatus(x), work |-> x.work,
                                     handed |-> x.when, score |-> None, graded |-> FALSE]
                              /\ ~row.graded
    <3> DEFINE new == [status |-> HandedStatus(x), work |-> x.work, handed |-> x.when,
                       score |-> None, graded |-> FALSE]
    <3>1. new \in Sheets /\ ~new.graded
      BY DEF Sheets, HandingLocals, HandedStatus
    <3> QED BY <3>1
  <2>3. /\ sheet' = [sheet EXCEPT ![s] = row] /\ CountWrite(s, x.work)
        /\ Goto(h, "remember", x) /\ UNCHANGED <<task, entry, remembered, hour, judged>>
    BY <1>1, <1>5, <2>1, <2>2 DEF CreateSheet
  <2>4. PICK stood \in Works \cup {None} : judged' = [judged EXCEPT ![s] = stood]
                                          /\ stood = judged[s]
    BY <1>0, <2>3 DEF SubmissionTypeOK
  <2>5. x \in SubmissionLocals /\ x.work \in Works /\ Fitting("remember", x)
    BY <2>1 DEF SubmissionLocals, HandingLocals, Fitting, HandingCalls, GradingCalls
  <2>6. alone => <<s, x.work>> \notin written
    BY <1>3, <1>5, <2>5
  <2>7. alone /\ row.graded => row.status = "GRADED" /\ row.work = stood
    BY <2>2
  <2>8. UNCHANGED <<task, entry, remembered, hour>>
    BY <2>3
  <2>9. x.by = s
    BY <2>1
  <2> QED BY <1>2, <1>5, <2>3, <2>4, <2>5, <2>6, <2>7, <2>8, <2>9, SubmissionWrite
<1>6. CASE ReplaceSheet(h)
  <2>1. PICK x \in HandingLocals : x = held[h] /\ x.by = s
    BY <1>0, <1>1, <1>6 DEF ReplaceSheet, Fitting, HandingCalls
  <2>2. PICK old \in Sheets : old = sheet[s]
    BY <1>0, <1>1, <1>6 DEF ReplaceSheet, Backed, SubmissionTypeOK
  <2>3. alone => ~old.graded /\ <<s, x.work>> \notin remembered
    BY <1>0, <1>6, <2>1, <2>2 DEF ReplaceSheet, Backed
  <2>4. PICK row \in Sheets : row = [old EXCEPT !.status = HandedStatus(x), !.work = x.work,
                                                !.handed = x.when]
                              /\ row.graded = old.graded
    <3> DEFINE new == [old EXCEPT !.status = HandedStatus(x), !.work = x.work,
                                  !.handed = x.when]
    <3>1. new \in Sheets /\ new.graded = old.graded
      BY DEF Sheets, HandingLocals, HandedStatus
    <3> QED BY <3>1
  <2>5. /\ sheet' = [sheet EXCEPT ![s] = row] /\ CountWrite(s, x.work)
        /\ Goto(h, "remember", x) /\ UNCHANGED <<task, entry, remembered, hour, judged>>
    BY <1>0, <1>1, <1>6, <2>1, <2>2, <2>4 DEF ReplaceSheet, SubmissionTypeOK
  <2>6. PICK stood \in Works \cup {None} : judged' = [judged EXCEPT ![s] = stood]
                                          /\ stood = judged[s]
    BY <1>0, <2>5 DEF SubmissionTypeOK
  <2>7. x \in SubmissionLocals /\ x.work \in Works /\ Fitting("remember", x)
    BY <2>1 DEF SubmissionLocals, HandingLocals, Fitting, HandingCalls, GradingCalls
  <2>8. alone => <<s, x.work>> \notin written
    BY <1>3, <2>3, <2>7
  <2>9. alone /\ row.graded => row.status = "GRADED" /\ row.work = stood
    BY <2>3, <2>4
  <2>10. UNCHANGED <<task, entry, remembered, hour>> /\ (sheet[s].graded => row.graded)
    BY <2>2, <2>4, <2>5
  <2>11. x.by = s
    BY <2>1
  <2> QED BY <1>2, <2>5, <2>6, <2>7, <2>8, <2>9, <2>10, <2>11, SubmissionWrite
<1>7. CASE Withdraw(h)
  <2>1. PICK old \in Sheets : old = sheet[s]
    BY <1>0, <1>1, <1>7 DEF Withdraw, Backed, SubmissionTypeOK
  <2>2. alone => ~old.graded
    BY <1>0, <1>1, <1>7, <2>1 DEF Withdraw, Backed
  <2>3. PICK row \in Sheets : row = [old EXCEPT !.status = "DRAFT", !.handed = None]
                              /\ row.graded = old.graded
    <3> DEFINE new == [old EXCEPT !.status = "DRAFT", !.handed = None]
    <3>1. new \in Sheets /\ new.graded = old.graded
      BY DEF Sheets
    <3> QED BY <3>1
  <2>4. /\ sheet' = [sheet EXCEPT ![s] = row] /\ Goto(h, "free", None)
        /\ UNCHANGED <<task, entry, remembered, hour, judged, written, rewritten>>
    BY <1>0, <1>1, <1>7, <2>1, <2>3 DEF Withdraw, Answer, SubmissionTypeOK
  <2>5. PICK stood \in Works \cup {None} : judged' = [judged EXCEPT ![s] = stood]
                                          /\ stood = judged[s]
    BY <1>0, <2>4 DEF SubmissionTypeOK
  <2>6. None \in SubmissionLocals /\ Fitting("free", None)
    BY DEF SubmissionLocals, Fitting, HandingCalls, GradingCalls
  <2>7. alone /\ row.graded => row.status = "GRADED" /\ row.work = stood
    BY <2>2, <2>3
  <2>8. UNCHANGED <<task, entry, remembered, hour, written, rewritten>>
        /\ (sheet[s].graded => row.graded)
    BY <2>1, <2>3, <2>4
  <2> QED BY <1>2, <2>4, <2>5, <2>6, <2>7, <2>8, SubmissionWrite
<1>8. CASE GradeSheet(h)
  <2>1. PICK x \in GradingLocals : x = held[h] /\ x.by = s
    BY <1>0, <1>1, <1>8 DEF GradeSheet, Fitting, GradingCalls
  <2>2. PICK old \in Sheets : old = sheet[s]
    BY <1>0, <1>1, <1>8 DEF GradeSheet, Backed, SubmissionTypeOK
  <2>3. PICK row \in Sheets : row = [old EXCEPT !.status = "GRADED", !.score = x.points,
                                                !.graded = TRUE]
                              /\ row.graded /\ row.status = "GRADED" /\ row.work = old.work
    <3> DEFINE new == [old EXCEPT !.status = "GRADED", !.score = x.points, !.graded = TRUE]
    <3>1. new \in Sheets /\ new.graded /\ new.status = "GRADED" /\ new.work = old.work
      BY DEF Sheets, GradingLocals
    <3> QED BY <3>1
  <2>4. PICK stood \in Works \cup {None} :
            stood = (IF alone THEN old.work ELSE None) /\ (alone => stood = row.work)
    BY <2>3 DEF Sheets
  <2>5. /\ sheet' = [sheet EXCEPT ![s] = row] /\ judged' = [judged EXCEPT ![s] = stood]
        /\ Goto(h, "enter", x) /\ UNCHANGED <<task, entry, remembered, hour, written, rewritten>>
    <3>1. /\ sheet' = [sheet EXCEPT ![s].status = "GRADED", ![s].score = x.points,
                                    ![s].graded = TRUE]
          /\ judged' = [judged EXCEPT ![s] = IF alone THEN sheet[s].work ELSE None]
          /\ Goto(h, "enter", x) /\ UNCHANGED <<task, entry, remembered, hour, written, rewritten>>
      BY <1>1, <1>8, <2>1 DEF GradeSheet
    <3>2. sheet' = [sheet EXCEPT ![s] = row]
      BY <1>0, <2>2, <2>3, <3>1 DEF SubmissionTypeOK
    <3>3. judged' = [judged EXCEPT ![s] = stood]
      BY <2>2, <2>4, <3>1
    <3> QED BY <3>1, <3>2, <3>3
  <2>6. x \in SubmissionLocals /\ Fitting("enter", x)
    BY <2>1 DEF SubmissionLocals, GradingLocals, Fitting, HandingCalls, GradingCalls
  <2>7. UNCHANGED <<task, entry, remembered, hour>> /\ UNCHANGED <<written, rewritten>>
        /\ (alone /\ row.graded => row.status = "GRADED" /\ row.work = stood)
    BY <2>3, <2>4, <2>5
  <2>8. row.graded /\ x.by = s
    BY <2>1, <2>3
  <2> QED BY <1>2, <2>5, <2>6, <2>7, <2>8, SubmissionWrite
<1> QED BY <1>1, <1>4, <1>5, <1>6, <1>7, <1>8

LEMMA SubmissionOthers ==
    ASSUME SubmissionInv,
           \/ \E h \in Handlers : Remember(h) \/ EnterGrade(h) \/ TaskWrite(h)
           \/ HourPasses \/ ServerRestarts
    PROVE  SubmissionInv'
<1>0. SubmissionTypeOK /\ GradedWorkStands /\ SubmittedOnce
  BY DEF SubmissionInv
<1>1. ASSUME NEW h \in Handlers, Remember(h) \/ EnterGrade(h) \/ TaskWrite(h)
      PROVE  SubmissionInv'
  <2>0. Fitting(at[h], held[h]) /\ Backed(at[h], held[h])
    BY DEF SubmissionInv, SubmissionCalls
  <2>1. /\ Goto(h, "free", None) /\ at[h] # "free" /\ alone' = alone
        /\ UNCHANGED <<sheet, hour, judged, written, rewritten>>
    BY <1>1 DEF Remember, EnterGrade, TaskWrite, Answer, Goto
  <2>2. SubmissionTypeOK'
    <3>1. CASE Remember(h)
      <4>1. held[h].by \in Learners /\ held[h].work \in Works
        BY <2>0, <3>1 DEF Remember, Fitting, HandingCalls, HandingLocals
      <4> QED BY <1>0, <2>1, <3>1, <4>1 DEF Remember, SubmissionTypeOK
    <3>2. CASE EnterGrade(h)
      <4>1. held[h].by \in Learners /\ held[h].points \in Points
        BY <2>0, <3>2 DEF EnterGrade, Fitting, GradingCalls, GradingLocals
      <4> QED BY <1>0, <2>1, <3>2, <4>1 DEF EnterGrade, SubmissionTypeOK
    <3>3. CASE TaskWrite(h)
      <4>1. PICK x \in ChangeLocals : x = held[h]
        BY <2>0, <3>3 DEF TaskWrite, Fitting
      <4>2. [task EXCEPT ![x.field] = x.value] \in Tasks
        BY <1>0, <4>1 DEF SubmissionTypeOK, Tasks, ChangeLocals
      <4> QED BY <1>0, <2>1, <3>3, <4>1, <4>2 DEF TaskWrite, SubmissionTypeOK
    <3> QED BY <1>1, <3>1, <3>2, <3>3
  <2>3. GradedWorkStands'
    <3>1. CASE EnterGrade(h)
      <4>1. sheet[held[h].by] # None /\ sheet[held[h].by].graded
        BY <2>0, <3>1 DEF EnterGrade, Backed
      <4> QED BY <1>0, <2>1, <3>1, <4>1 DEF EnterGrade, GradedWorkStands, SubmissionTypeOK
    <3>2. CASE ~EnterGrade(h)
      BY <1>0, <1>1, <2>1, <3>2 DEF Remember, TaskWrite, GradedWorkStands
    <3> QED BY <3>1, <3>2
  <2>4. SubmittedOnce'
    BY <1>0, <2>1 DEF SubmittedOnce
  <2>5. ASSUME alone, NEW s \in Learners, NEW w \in Works, <<s, w>> \in written'
        PROVE  sheet'[s] # None /\ <<s, w>> \in remembered'
    <3>1. remembered' = (IF at[h] = "remember"
                         THEN remembered \cup {<<held[h].by, held[h].work>>} ELSE remembered)
      BY <1>1 DEF Remember, EnterGrade, TaskWrite
    <3>2. \A g \in Handlers : at[g] = "remember" => g = h
      BY <2>1, <2>5 DEF SubmissionInv, OneAtOnce
    <3> QED BY <2>1, <2>5, <3>1, <3>2 DEF SubmissionInv, WrittenIsRemembered
  <2> QED BY <2>1, <2>2, <2>3, <2>4, <2>5, SubmissionMove
          DEF SubmissionCallNames, SubmissionLocals, Fitting, Backed, HandingCalls, GradingCalls
<1>2. CASE HourPasses
  BY <1>2, SubmissionAssumption
     DEF HourPasses, SubmissionInv, SubmissionTypeOK, Hours, SubmissionCalls, Backed, OneAtOnce,
         WrittenIsRemembered, GradedWorkStands, SubmittedOnce, requestVars
<1>3. CASE ServerRestarts
  <2>1. SubmissionTypeOK' /\ GradedWorkStands' /\ SubmittedOnce' /\ OneAtOnce'
        /\ WrittenIsRemembered'
    BY <1>0, <1>3 DEF ServerRestarts, SubmissionTypeOK, GradedWorkStands, SubmittedOnce,
                      OneAtOnce, WrittenIsRemembered
  <2>2. SubmissionCalls'
    BY <1>3 DEF ServerRestarts, SubmissionCalls, SubmissionCallNames, SubmissionLocals,
                Fitting, Backed, HandingCalls, GradingCalls
  <2> QED BY <2>1, <2>2 DEF SubmissionInv
<1> QED BY <1>1, <1>2, <1>3

LEMMA SubmissionInvariance == SubmissionSpec => []SubmissionInv
<1>1. SubmissionInv /\ [SubmissionNext]_submissionVars => SubmissionInv'
  <2>1. SubmissionInv /\ UNCHANGED submissionVars => SubmissionInv'
    BY DEF SubmissionInv, SubmissionTypeOK, SubmissionCalls, Backed, OneAtOnce,
           WrittenIsRemembered, GradedWorkStands, SubmittedOnce, submissionVars,
           submissionRows, requestVars
  <2> QED BY <2>1, SubmissionReads, SubmissionWrites, SubmissionOthers
          DEF SubmissionNext, SubmissionStep
<1> QED BY <1>1, SubmissionInit0, PTL DEF SubmissionSpec

\* A recorded grade is of graded work however requests overlap, and graded work
\* is left alone while they do not (submissions.service.ts: submit and cancel
\* look at graded_by, grade writes the submission before the grade).
THEOREM GradedStays == SubmissionSpec => []GradedWorkStands
BY SubmissionInvariance, PTL DEF SubmissionInv

\* While requests do not overlap, a submit repeated under its key writes once
\* in the life of the process, whatever happened to the row in between
\* (submissions.service.ts: the key is looked up before the row is judged).
THEOREM SubmitsOnce == SubmissionSpec => []SubmittedOnce
BY SubmissionInvariance, PTL DEF SubmissionInv
-----------------------------------------------------------------------------
(* Admissions.                                                             *)

Enrolling == {"role", "make-role", "place", "consent", "enrolled"}

AdmissionCallNames == {"free", "apply", "decide"} \cup Enrolling

ApplyLocals == [a : Applicants]

DecideLocals == [a : Applicants, to : PpdbStatus \ {"ENROLLED"}]

EnrolLocals == [a : Applicants, class : Classes]

AdmissionLocals == ApplyLocals \cup DecideLocals \cup EnrolLocals \cup {None}

AdmissionFits(call, x) == /\ call = "apply" => x \in ApplyLocals
                          /\ call = "decide" => x \in DecideLocals
                          /\ call \in Enrolling => x \in EnrolLocals

\* An enrolment under way relies on what nobody takes back; that the applicant
\* is selected still, and that a decision finds nobody placed, needs requests
\* that do not overlap.
AdmissionBacked(call, x) ==
    /\ call = "apply" => applicant[x.a] = None /\ consent[x.a] # None
    /\ call = "decide" => applicant[x.a] # None
    /\ alone /\ call = "decide" => x.to = "SELECTED" \/ places[x.a] = {}
    /\ call \in Enrolling => applicant[x.a] # None /\ x.a \in chosen
    /\ alone /\ call \in Enrolling => In(x.a, "SELECTED")
    /\ call \in {"place", "consent", "enrolled"} => x.a \in student
    /\ call \in {"consent", "enrolled"} => places[x.a] # {}
    /\ call = "enrolled" => consent[x.a] = "linked"

AdmissionCalls == /\ at \in [Handlers -> AdmissionCallNames]
                  /\ held \in [Handlers -> AdmissionLocals]
                  /\ \A h \in Handlers : AdmissionFits(at[h], held[h])
                  /\ \A h \in Handlers : AdmissionBacked(at[h], held[h])

\* No two requests register the same applicant.
ApplyingOnce == \A g, h \in Handlers :
    at[g] = "apply" /\ at[h] = "apply" /\ held[g].a = held[h].a => g = h

\* The consent of the parents comes first.
AppliedWithConsent == \A a \in Applicants : applicant[a] # None => consent[a] # None

SelectedIsChosen == \A a \in Applicants : In(a, "SELECTED") => a \in chosen

AdmissionInv == /\ AdmissionTypeOK /\ AdmissionCalls /\ OneAtOnce /\ ApplyingOnce
                /\ AppliedWithConsent /\ SelectedIsChosen /\ PlacedAsSelected

LEMMA AdmissionInit0 == AdmissionInit => AdmissionInv
<1> SUFFICES ASSUME AdmissionInit PROVE AdmissionInv
  OBVIOUS
<1>1. AdmissionTypeOK /\ AppliedWithConsent /\ SelectedIsChosen /\ PlacedAsSelected
  BY DEF AdmissionInit, AdmissionTypeOK, AppliedWithConsent, SelectedIsChosen, PlacedAsSelected,
         In, Applied
<1>2. AdmissionCalls
  BY DEF AdmissionInit, RequestsInit, AdmissionCalls, AdmissionCallNames, AdmissionLocals,
         AdmissionFits, AdmissionBacked, Enrolling
<1>3. OneAtOnce /\ ApplyingOnce
  BY DEF AdmissionInit, RequestsInit, OneAtOnce, ApplyingOnce
<1> QED BY <1>1, <1>2, <1>3 DEF AdmissionInv

\* One handler goes on; nobody unregisters, loses a place, the role or the consent.
LEMMA AdmissionMove ==
    ASSUME AdmissionInv, NEW h \in Handlers, NEW call \in AdmissionCallNames,
           NEW x \in AdmissionLocals, Goto(h, call, x), MayStart(h) \/ at[h] # "free",
           AdmissionTypeOK', SelectedIsChosen', PlacedAsSelected',
           student \subseteq student', chosen \subseteq chosen',
           \A a \in Applicants : /\ places[a] \subseteq places'[a]
                                 /\ consent[a] # None => consent'[a] # None
                                 /\ consent[a] = "linked" => consent'[a] = "linked"
                                 /\ applicant[a] # None => applicant'[a] # None
                                 /\ applicant[a] = None /\ applicant'[a] # None =>
                                       at[h] = "apply" /\ held[h].a = a,
           AdmissionFits(call, x), AdmissionBacked(call, x)',
           call = "apply" => consent[x.a] = None
    PROVE  AdmissionInv'
<1>1. /\ at' = [at EXCEPT ![h] = call] /\ held' = [held EXCEPT ![h] = x] /\ alone' = alone
      /\ at \in [Handlers -> AdmissionCallNames] /\ held \in [Handlers -> AdmissionLocals]
  BY DEF Goto, AdmissionInv, AdmissionCalls
<1>2. /\ at'[h] = call /\ held'[h] = x
      /\ \A g \in Handlers \ {h} : at'[g] = at[g] /\ held'[g] = held[g]
  BY <1>1
<1>3. alone => \A g \in Handlers \ {h} : at[g] = "free"
  BY DEF MayStart, AdmissionInv, OneAtOnce
<1>4. OneAtOnce'
  BY <1>1, <1>2, <1>3 DEF OneAtOnce
<1>5. \A g \in Handlers : AdmissionFits(at[g], held[g]) /\ AdmissionBacked(at[g], held[g])
  BY DEF AdmissionInv, AdmissionCalls
<1>6. ApplyingOnce'
  <2>1. \A g \in Handlers \ {h} : call = "apply" /\ at[g] = "apply" => held[g].a # x.a
    BY <1>5 DEF AdmissionBacked
  <2> QED BY <1>2, <2>1 DEF AdmissionInv, ApplyingOnce
<1>7. ASSUME NEW g \in Handlers
      PROVE  AdmissionFits(at'[g], held'[g]) /\ AdmissionBacked(at[g], held[g])'
  <2>1. CASE g = h
    BY <1>2, <2>1 DEF AdmissionBacked, In, Applied
  <2>2. CASE g # h /\ at[g] = "free"
    BY <1>2, <2>2 DEF AdmissionFits, AdmissionBacked, Enrolling
  <2>3. CASE g # h /\ at[g] # "free"
    <3>1. ~alone /\ ~alone'
      BY <1>1, <1>3, <2>3
    <3>2. at'[g] = at[g] /\ held'[g] = held[g]
      BY <1>2, <2>3
    <3>3. at[g] \in AdmissionCallNames \ {"free"} /\ held[g].a \in Applicants
      BY <1>1, <1>5, <2>3 DEF AdmissionFits, AdmissionCallNames, Enrolling, ApplyLocals,
                              DecideLocals, EnrolLocals
    <3>4. at[g] = "apply" => ~(at[h] = "apply" /\ held[h].a = held[g].a)
      BY <2>3 DEF AdmissionInv, ApplyingOnce
    <3> QED BY <1>5, <3>1, <3>2, <3>3, <3>4 DEF AdmissionBacked
  <2> QED BY <2>1, <2>2, <2>3
<1>8. AdmissionCalls'
  BY <1>1, <1>7 DEF AdmissionCalls
<1>9. AppliedWithConsent'
  BY <1>5 DEF AppliedWithConsent, AdmissionInv, AdmissionBacked
<1> QED BY <1>4, <1>6, <1>8, <1>9 DEF AdmissionInv

LEMMA AdmissionRowsStay ==
    ASSUME AdmissionInv, NEW h \in Handlers, NEW call \in AdmissionCallNames \ {"apply"},
           NEW x \in AdmissionLocals, Goto(h, call, x), MayStart(h) \/ at[h] # "free",
           UNCHANGED admissionRows, AdmissionFits(call, x), AdmissionBacked(call, x)
    PROVE  AdmissionInv'
<1>1. /\ AdmissionTypeOK' /\ SelectedIsChosen' /\ PlacedAsSelected'
      /\ AdmissionBacked(call, x)' /\ call # "apply"
  BY DEF Goto, AdmissionInv, AdmissionTypeOK, SelectedIsChosen, PlacedAsSelected, In, Applied,
         AdmissionBacked, admissionRows
<1> QED BY <1>1, AdmissionMove DEF admissionRows

LEMMA AdmissionReads ==
    ASSUME AdmissionInv, NEW h \in Handlers,
           \/ \E a \in Applicants : DecideRead(h, a) \/ EnrollRead(h, a)
           \/ FindRole(h) \/ AdmissionFails(h)
    PROVE  AdmissionInv'
<1>0. AdmissionFits(at[h], held[h]) /\ AdmissionBacked(at[h], held[h]) /\ PlacedAsSelected
  BY DEF AdmissionInv, AdmissionCalls
<1>1. ASSUME NEW a \in Applicants, DecideRead(h, a) PROVE AdmissionInv'
  <2>1. PICK d \in Decisions : In(a, d[1]) /\ Goto(h, "decide", [a |-> a, to |-> d[2]])
    BY <1>1 DEF DecideRead
  <2>2. PICK x \in DecideLocals : x = [a |-> a, to |-> d[2]] /\ x.a = a
    <3> DEFINE row == [a |-> a, to |-> d[2]]
    <3>1. row \in DecideLocals /\ row.a = a
      BY DEF DecideLocals, Decisions, PpdbStatus
    <3> QED BY <3>1
  <2>3. applicant[a] # None /\ (alone => places[a] = {})
    BY <1>0, <2>1 DEF Decisions, In, Applied, PlacedAsSelected
  <2>4. Goto(h, "decide", x) /\ MayStart(h) /\ UNCHANGED admissionRows
    BY <1>1, <2>1, <2>2 DEF DecideRead
  <2> QED BY <2>2, <2>3, <2>4, AdmissionRowsStay
          DEF AdmissionCallNames, AdmissionLocals, AdmissionFits, AdmissionBacked, Enrolling
<1>2. ASSUME NEW a \in Applicants, EnrollRead(h, a) PROVE AdmissionInv'
  <2>1. PICK c \in Classes : Goto(h, "role", [a |-> a, class |-> c])
    BY <1>2 DEF EnrollRead
  <2>2. PICK x \in EnrolLocals : x = [a |-> a, class |-> c] /\ x.a = a
    <3> DEFINE row == [a |-> a, class |-> c]
    <3>1. row \in EnrolLocals /\ row.a = a
      BY DEF EnrolLocals
    <3> QED BY <3>1
  <2>3. In(a, "SELECTED") /\ applicant[a] # None /\ a \in chosen
    BY <1>2 DEF EnrollRead, Enrollable, In, Applied, AdmissionInv, SelectedIsChosen
  <2>4. Goto(h, "role", x) /\ MayStart(h) /\ UNCHANGED admissionRows
    BY <1>2, <2>1, <2>2 DEF EnrollRead
  <2> QED BY <2>2, <2>3, <2>4, AdmissionRowsStay
          DEF AdmissionCallNames, AdmissionLocals, AdmissionFits, AdmissionBacked, Enrolling
<1>3. CASE FindRole(h)
  <2>1. PICK x \in EnrolLocals : x = held[h]
    BY <1>0, <1>3 DEF FindRole, AdmissionFits, Enrolling
  <2>2. PICK call \in {"place", "make-role"} :
            Goto(h, call, x) /\ (call = "place" => x.a \in student)
    BY <1>3, <2>1 DEF FindRole
  <2>3. UNCHANGED admissionRows /\ at[h] = "role" /\ AdmissionBacked("role", x)
    BY <1>0, <1>3, <2>1 DEF FindRole
  <2> QED BY <2>1, <2>2, <2>3, AdmissionRowsStay
          DEF AdmissionCallNames, AdmissionLocals, AdmissionFits, AdmissionBacked, Enrolling
<1>4. CASE AdmissionFails(h)
  <2>1. Goto(h, "free", None) /\ at[h] # "free" /\ UNCHANGED admissionRows
    BY <1>4 DEF AdmissionFails, Answer
  <2> QED BY <2>1, AdmissionRowsStay
          DEF AdmissionCallNames, AdmissionLocals, AdmissionFits, AdmissionBacked, Enrolling
<1> QED BY <1>1, <1>2, <1>3, <1>4

\* Registering, and deciding.
LEMMA AdmissionDecides ==
    ASSUME AdmissionInv, NEW h \in Handlers,
           (\E a \in Applicants : RegisterConsent(h, a)) \/ RegisterApplicant(h) \/ Decide(h)
    PROVE  AdmissionInv'
<1>0. /\ AdmissionFits(at[h], held[h]) /\ AdmissionBacked(at[h], held[h])
      /\ AdmissionTypeOK /\ SelectedIsChosen /\ AppliedWithConsent /\ PlacedAsSelected
  BY DEF AdmissionInv, AdmissionCalls
<1>1. ASSUME NEW a \in Applicants, RegisterConsent(h, a) PROVE AdmissionInv'
  <2>1. PICK x \in ApplyLocals : x = [a |-> a] /\ x.a = a
    <3>1. [a |-> a] \in ApplyLocals /\ [a |-> a].a = a
      BY DEF ApplyLocals
    <3> QED BY <3>1
  <2>2. /\ Goto(h, "apply", x) /\ MayStart(h) /\ consent[a] = None /\ alone' = alone
        /\ consent' = [consent EXCEPT ![a] = "granted"]
        /\ UNCHANGED <<applicant, student, places, chosen>>
    BY <1>1, <2>1 DEF RegisterConsent, Goto
  <2>3. consent'[a] = "granted" /\ \A b \in Applicants \ {a} : consent'[b] = consent[b]
    BY <1>0, <2>2 DEF AdmissionTypeOK
  <2>4. AdmissionTypeOK'
    BY <1>0, <2>2 DEF AdmissionTypeOK
  <2>5. SelectedIsChosen'
    BY <1>0, <2>2 DEF SelectedIsChosen, In, Applied
  <2>6. PlacedAsSelected'
    BY <1>0, <2>2, <2>3 DEF PlacedAsSelected, AppliedWithConsent, In, Applied
  <2>7. AdmissionBacked("apply", x)'
    <3>1. applicant'[x.a] = None /\ consent'[x.a] # None
      BY <1>0, <2>1, <2>2, <2>3, AdmissionAssumption DEF AppliedWithConsent
    <3> QED BY <3>1 DEF AdmissionBacked, Enrolling
  <2>8. AdmissionFits("apply", x) /\ x \in AdmissionLocals /\ "apply" \in AdmissionCallNames
    BY <2>1 DEF AdmissionFits, AdmissionLocals, AdmissionCallNames, Enrolling
  <2>9. \A b \in Applicants : /\ consent[b] # None => consent'[b] # None
                              /\ consent[b] = "linked" => consent'[b] = "linked"
    BY <2>2, <2>3, AdmissionAssumption
  <2>10. UNCHANGED <<applicant, student, places, chosen>> /\ consent[x.a] = None
    BY <2>1, <2>2
  <2> QED BY <2>2, <2>4, <2>5, <2>6, <2>7, <2>8, <2>9, <2>10, AdmissionMove
<1>2. CASE RegisterApplicant(h)
  <2>1. PICK a \in Applicants : a = held[h].a /\ applicant[a] = None
    BY <1>0, <1>2 DEF RegisterApplicant, AdmissionFits, AdmissionBacked, ApplyLocals
  <2>2. PICK row \in ApplicantRows : row = [status |-> "SUBMITTED", account |-> FALSE]
                                     /\ row.status = "SUBMITTED"
    <3> DEFINE new == [status |-> "SUBMITTED", account |-> FALSE]
    <3>1. new \in ApplicantRows /\ new.status = "SUBMITTED"
      BY DEF ApplicantRows, PpdbStatus
    <3> QED BY <3>1
  <2>3. /\ Goto(h, "free", None) /\ at[h] = "apply" /\ alone' = alone
        /\ applicant' = [applicant EXCEPT ![a] = row]
        /\ UNCHANGED <<consent, student, places, chosen>>
    BY <1>2, <2>1, <2>2 DEF RegisterApplicant, Answer, Goto
  <2>4. applicant'[a] = row /\ \A b \in Applicants \ {a} : applicant'[b] = applicant[b]
    BY <1>0, <2>3 DEF AdmissionTypeOK
  <2>5. AdmissionTypeOK'
    BY <1>0, <2>3 DEF AdmissionTypeOK
  <2>6. SelectedIsChosen'
    BY <1>0, <2>2, <2>3, <2>4 DEF SelectedIsChosen, In, Applied
  <2>7. places[a] = {} \/ ~alone
    BY <1>0, <2>1 DEF PlacedAsSelected, In, Applied
  <2>8. PlacedAsSelected'
    BY <1>0, <2>2, <2>3, <2>4, <2>7 DEF PlacedAsSelected, In, Applied
  <2>9. AdmissionBacked("free", None)' /\ AdmissionFits("free", None)
        /\ None \in AdmissionLocals /\ "free" \in AdmissionCallNames
    BY DEF AdmissionBacked, AdmissionFits, AdmissionLocals, AdmissionCallNames, Enrolling
  <2> QED BY <2>1, <2>3, <2>4, <2>5, <2>6, <2>8, <2>9, AdmissionMove
<1>3. CASE Decide(h)
  <2>1. PICK x \in DecideLocals : x = held[h]
    BY <1>0, <1>3 DEF Decide, AdmissionFits
  <2>2. PICK a \in Applicants : a = x.a
    BY DEF DecideLocals
  <2>3. applicant[a] # None /\ (alone => x.to = "SELECTED" \/ places[a] = {})
    BY <1>0, <1>3, <2>1, <2>2 DEF Decide, AdmissionBacked
  <2>4. PICK old \in ApplicantRows : old = applicant[a]
    BY <1>0, <2>3 DEF AdmissionTypeOK
  <2>5. PICK row \in ApplicantRows : row = [old EXCEPT !.status = x.to] /\ row.status = x.to
    <3> DEFINE new == [old EXCEPT !.status = x.to]
    <3>1. new \in ApplicantRows /\ new.status = x.to
      BY DEF ApplicantRows, DecideLocals
    <3> QED BY <3>1
  <2>6. /\ Goto(h, "free", None) /\ at[h] = "decide" /\ alone' = alone
        /\ applicant' = [applicant EXCEPT ![a] = row]
        /\ chosen' = (IF x.to = "SELECTED" THEN chosen \cup {a} ELSE chosen)
        /\ UNCHANGED <<consent, student, places>>
    BY <1>0, <1>3, <2>1, <2>2, <2>4, <2>5 DEF Decide, Answer, Goto, AdmissionTypeOK
  <2>7. applicant'[a] = row /\ \A b \in Applicants \ {a} : applicant'[b] = applicant[b]
    BY <1>0, <2>6 DEF AdmissionTypeOK
  <2>8. AdmissionTypeOK'
    BY <1>0, <2>6 DEF AdmissionTypeOK
  <2>9. SelectedIsChosen'
    BY <1>0, <2>5, <2>6, <2>7 DEF SelectedIsChosen, In, Applied
  <2>10. row # None /\ row.status # "ENROLLED"
    BY <2>5, AdmissionAssumption DEF DecideLocals
  <2>11. PlacedAsSelected'
    BY <1>0, <2>3, <2>5, <2>6, <2>7, <2>10 DEF PlacedAsSelected, In, Applied
  <2>12. AdmissionBacked("free", None)' /\ AdmissionFits("free", None)
         /\ None \in AdmissionLocals /\ "free" \in AdmissionCallNames
    BY DEF AdmissionBacked, AdmissionFits, AdmissionLocals, AdmissionCallNames, Enrolling
  <2> QED BY <2>3, <2>6, <2>7, <2>8, <2>9, <2>10, <2>11, <2>12, AdmissionMove
<1> QED BY <1>1, <1>2, <1>3

\* The five statements of an enrolment.
LEMMA AdmissionEnrols ==
    ASSUME AdmissionInv, NEW h \in Handlers,
           MakeRole(h) \/ Place(h) \/ LinkConsent(h) \/ MarkEnrolled(h)
    PROVE  AdmissionInv'
<1>0. /\ AdmissionFits(at[h], held[h]) /\ AdmissionBacked(at[h], held[h])
      /\ AdmissionTypeOK /\ SelectedIsChosen /\ AppliedWithConsent /\ PlacedAsSelected
  BY DEF AdmissionInv, AdmissionCalls
<1>1. PICK x \in EnrolLocals, a \in Applicants :
          /\ x = held[h] /\ a = x.a /\ at[h] \in Enrolling
          /\ applicant[a] # None /\ a \in chosen /\ (alone => In(a, "SELECTED"))
  BY <1>0 DEF MakeRole, Place, LinkConsent, MarkEnrolled, AdmissionFits, AdmissionBacked,
              Enrolling, EnrolLocals
<1>2. at[h] # "free" /\ at[h] # "apply"
  BY <1>1 DEF Enrolling
<1>3. \A call \in Enrolling \cup {"free"} :
          call \in AdmissionCallNames /\ x \in AdmissionLocals /\ None \in AdmissionLocals
  BY DEF AdmissionLocals, AdmissionCallNames
<1>4. AdmissionFits("free", None) /\ AdmissionBacked("free", None)'
      /\ \A call \in Enrolling : AdmissionFits(call, x)
  BY DEF AdmissionFits, AdmissionBacked, Enrolling
<1>5. CASE MakeRole(h)
  <2>1. /\ student' = student \cup {a} /\ alone' = alone
        /\ UNCHANGED <<applicant, consent, places, chosen>>
        /\ Goto(h, "free", None) \/ Goto(h, "place", x)
    BY <1>1, <1>5 DEF MakeRole, Answer, Goto
  <2>2. AdmissionTypeOK' /\ SelectedIsChosen' /\ PlacedAsSelected'
    BY <1>0, <2>1 DEF AdmissionTypeOK, SelectedIsChosen, PlacedAsSelected, In, Applied
  <2>3. AdmissionBacked("place", x)'
    BY <1>1, <2>1 DEF AdmissionBacked, Enrolling, In, Applied
  <2> QED BY <1>2, <1>3, <1>4, <2>1, <2>2, <2>3, AdmissionMove DEF Enrolling
<1>6. CASE Place(h)
  <2>1. /\ places' = [places EXCEPT ![a] = places[a] \cup {x.class}] /\ alone' = alone
        /\ UNCHANGED <<applicant, consent, student, chosen>>
        /\ Goto(h, "free", None) \/ Goto(h, "consent", x)
    BY <1>1, <1>6 DEF Place, Answer, Goto
  <2>2. a \in student
    BY <1>0, <1>1, <1>6 DEF Place, AdmissionBacked
  <2>3. /\ places'[a] = places[a] \cup {x.class}
        /\ \A b \in Applicants \ {a} : places'[b] = places[b]
    BY <1>0, <2>1 DEF AdmissionTypeOK
  <2>4. AdmissionTypeOK'
    BY <1>0, <2>1 DEF AdmissionTypeOK, EnrolLocals
  <2>5. SelectedIsChosen'
    BY <1>0, <2>1 DEF SelectedIsChosen, In, Applied
  <2>6. PlacedAsSelected'
    BY <1>0, <1>1, <2>1, <2>2, <2>3 DEF PlacedAsSelected, In, Applied
  <2>7. AdmissionBacked("consent", x)'
    BY <1>1, <2>1, <2>2, <2>3 DEF AdmissionBacked, Enrolling, In, Applied
  <2>8. \A b \in Applicants : places[b] \subseteq places'[b]
    BY <2>3
  <2> QED BY <1>2, <1>3, <1>4, <2>1, <2>4, <2>5, <2>6, <2>7, <2>8, AdmissionMove DEF Enrolling
<1>7. CASE LinkConsent(h)
  <2>1. /\ consent' = [consent EXCEPT ![a] = "linked"] /\ alone' = alone
        /\ UNCHANGED <<applicant, places, student, chosen>> /\ Goto(h, "enrolled", x)
    BY <1>1, <1>7 DEF LinkConsent, Goto
  <2>2. a \in student /\ places[a] # {}
    BY <1>0, <1>1, <1>7 DEF LinkConsent, AdmissionBacked
  <2>3. consent'[a] = "linked" /\ \A b \in Applicants \ {a} : consent'[b] = consent[b]
    BY <1>0, <2>1 DEF AdmissionTypeOK
  <2>4. AdmissionTypeOK'
    BY <1>0, <2>1 DEF AdmissionTypeOK
  <2>5. SelectedIsChosen'
    BY <1>0, <2>1 DEF SelectedIsChosen, In, Applied
  <2>6. PlacedAsSelected'
    BY <1>0, <2>1, <2>3 DEF PlacedAsSelected, In, Applied
  <2>7. AdmissionBacked("enrolled", x)'
    BY <1>1, <2>1, <2>2, <2>3 DEF AdmissionBacked, Enrolling, In, Applied
  <2>8. \A b \in Applicants : /\ consent[b] # None => consent'[b] # None
                              /\ consent[b] = "linked" => consent'[b] = "linked"
    BY <2>3, AdmissionAssumption
  <2> QED BY <1>2, <1>3, <1>4, <2>1, <2>4, <2>5, <2>6, <2>7, <2>8, AdmissionMove DEF Enrolling
<1>8. CASE MarkEnrolled(h)
  <2>1. PICK old \in ApplicantRows : old = applicant[a]
    BY <1>0, <1>1 DEF AdmissionTypeOK
  <2>2. PICK row \in ApplicantRows : row = [old EXCEPT !.status = "ENROLLED"]
                                     /\ row.status = "ENROLLED" /\ row # None
    <3> DEFINE new == [old EXCEPT !.status = "ENROLLED"]
    <3>1. new \in ApplicantRows /\ new.status = "ENROLLED"
      BY DEF ApplicantRows, PpdbStatus
    <3> QED BY <3>1, AdmissionAssumption
  <2>3. /\ applicant' = [applicant EXCEPT ![a] = row] /\ alone' = alone
        /\ UNCHANGED <<consent, places, student, chosen>> /\ Goto(h, "free", None)
    BY <1>0, <1>1, <1>8, <2>1, <2>2 DEF MarkEnrolled, Answer, Goto, AdmissionTypeOK
  <2>4. applicant'[a] = row /\ \A b \in Applicants \ {a} : applicant'[b] = applicant[b]
    BY <1>0, <2>3 DEF AdmissionTypeOK
  <2>5. a \in student /\ places[a] # {} /\ consent[a] = "linked"
    BY <1>0, <1>1, <1>8 DEF MarkEnrolled, AdmissionBacked
  <2>6. AdmissionTypeOK'
    BY <1>0, <2>3 DEF AdmissionTypeOK
  <2>7. SelectedIsChosen'
    BY <1>0, <2>2, <2>3, <2>4 DEF SelectedIsChosen, In, Applied
  <2>8. PlacedAsSelected'
    BY <1>0, <1>1, <2>2, <2>3, <2>4, <2>5 DEF PlacedAsSelected, In, Applied
  <2>9. \A b \in Applicants : (applicant[b] # None => applicant'[b] # None)
                              /\ (applicant[b] = None => applicant'[b] = None)
    BY <1>1, <2>2, <2>4
  <2> QED BY <1>2, <1>3, <1>4, <2>3, <2>6, <2>7, <2>8, <2>9, AdmissionMove DEF Enrolling
<1> QED BY <1>5, <1>6, <1>7, <1>8

LEMMA AccountLinked ==
    ASSUME AdmissionInv, NEW a \in Applicants, LinkAccount(a)
    PROVE  AdmissionInv'
<1>0. AdmissionTypeOK /\ SelectedIsChosen /\ AppliedWithConsent /\ PlacedAsSelected
  BY DEF AdmissionInv
<1>1. PICK old \in ApplicantRows : old = applicant[a]
  BY <1>0 DEF LinkAccount, Applied, AdmissionTypeOK
<1>2. PICK row \in ApplicantRows : row = [old EXCEPT !.account = TRUE]
                                   /\ row.status = old.status /\ row # None
  <2> DEFINE new == [old EXCEPT !.account = TRUE]
  <2>1. new \in ApplicantRows /\ new.status = old.status
    BY DEF ApplicantRows
  <2> QED BY <2>1, AdmissionAssumption
<1>3. /\ applicant' = [applicant EXCEPT ![a] = row]
      /\ UNCHANGED <<at, held, alone, consent, places, student, chosen>>
  BY <1>0, <1>1, <1>2 DEF LinkAccount, requestVars, AdmissionTypeOK
<1>4. /\ applicant'[a] = row /\ old # None
      /\ \A b \in Applicants \ {a} : applicant'[b] = applicant[b]
  BY <1>0, <1>3, AdmissionAssumption DEF AdmissionTypeOK
<1>5. \A b \in Applicants : /\ applicant'[b] = None <=> applicant[b] = None
                            /\ \A status : In(b, status)' <=> In(b, status)
  BY <1>1, <1>2, <1>4 DEF In, Applied
<1>6. AdmissionTypeOK'
  BY <1>0, <1>3 DEF AdmissionTypeOK
<1>7. SelectedIsChosen' /\ AppliedWithConsent' /\ PlacedAsSelected'
  BY <1>0, <1>3, <1>5 DEF SelectedIsChosen, AppliedWithConsent, PlacedAsSelected
<1>8. ASSUME NEW h \in Handlers PROVE AdmissionBacked(at[h], held[h])'
  <2>1. AdmissionBacked(at[h], held[h]) /\ AdmissionFits(at[h], held[h])
        /\ at[h] \in AdmissionCallNames
    BY DEF AdmissionInv, AdmissionCalls
  <2>2. at[h] # "free" => held[h].a \in Applicants
    BY <2>1 DEF AdmissionFits, AdmissionCallNames, Enrolling, ApplyLocals, DecideLocals,
                EnrolLocals
  <2> QED BY <1>3, <1>5, <2>1, <2>2 DEF AdmissionBacked, Enrolling
<1>9. AdmissionCalls' /\ OneAtOnce' /\ ApplyingOnce'
  BY <1>3, <1>8 DEF AdmissionInv, AdmissionCalls, OneAtOnce, ApplyingOnce
<1> QED BY <1>6, <1>7, <1>9 DEF AdmissionInv

LEMMA AdmissionInvariance == AdmissionSpec => []AdmissionInv
<1>1. AdmissionInv /\ [AdmissionNext]_admissionVars => AdmissionInv'
  <2>1. AdmissionInv /\ UNCHANGED admissionVars => AdmissionInv'
    BY DEF AdmissionInv, AdmissionTypeOK, AdmissionCalls, AdmissionBacked, OneAtOnce,
           ApplyingOnce, AppliedWithConsent, SelectedIsChosen, PlacedAsSelected, In, Applied,
           admissionVars, admissionRows, requestVars
  <2> QED BY <2>1, AdmissionReads, AdmissionDecides, AdmissionEnrols, AccountLinked
          DEF AdmissionNext, AdmissionStep
<1> QED BY <1>1, AdmissionInit0, PTL DEF AdmissionSpec

\* Nobody is placed who was not selected, and whoever is ENROLLED has the role,
\* a class and the consent with him, although the five statements of enroll are
\* no transaction (ppdb.service.ts); while requests do not overlap no decision
\* is taken of somebody who has a place.
THEOREM PlacesFollowSelection == AdmissionSpec => []PlacedAsSelected
BY AdmissionInvariance, PTL DEF AdmissionInv

-----------------------------------------------------------------------------
(* The slots of the requests, for the services that follow.                *)

Slots == /\ at = [h \in Handlers |-> at[h]]
         /\ held = [h \in Handlers |-> held[h]]
         /\ OneAtOnce

LEMMA SlotsInit == RequestsInit => Slots /\ \A h \in Handlers : at[h] = "free"
BY DEF RequestsInit, Slots, OneAtOnce

\* One handler goes on; while requests do not overlap nobody else is at work.
LEMMA SlotsMove ==
    ASSUME Slots, NEW h \in Handlers, NEW call, NEW x, Goto(h, call, x),
           MayStart(h) \/ at[h] # "free"
    PROVE  /\ Slots' /\ alone' = alone
           /\ at'[h] = call /\ held'[h] = x
           /\ \A g \in Handlers \ {h} : at'[g] = at[g] /\ held'[g] = held[g]
           /\ alone => \A g \in Handlers \ {h} : at[g] = "free"
<1>1. alone' = alone /\ at'[h] = call /\ held'[h] = x
  BY DEF Goto, Slots
<1>2. \A g \in Handlers \ {h} : at'[g] = at[g] /\ held'[g] = held[g]
  BY DEF Goto, Slots
<1>3. alone => \A g \in Handlers \ {h} : at[g] = "free"
  BY DEF MayStart, Slots, OneAtOnce
<1>4. at' = [g \in Handlers |-> at'[g]] /\ held' = [g \in Handlers |-> held'[g]]
  BY DEF Goto, Slots
<1>5. OneAtOnce'
  BY <1>1, <1>2, <1>3 DEF OneAtOnce
<1> QED BY <1>1, <1>2, <1>3, <1>4, <1>5 DEF Slots

-----------------------------------------------------------------------------
(* Erasures.                                                               *)

\* What the user starts is started while the account is active; what was found
\* stays there; nothing makes the account active again.
ErasureCall(call, x) ==
    /\ alone /\ call \in {"ask", "profile", "export"} => profile.active
    /\ call = "export" => x.personal \in BOOLEAN
    /\ call \in {"list", "erase", "execute", "reject"} => x.ask \in AskIds
    /\ call \in {"erase", "expire"} => x.found \subseteq PersonalExports
    /\ alone /\ call = "erase" => x.found = PersonalExports
    /\ call = "execute" => ~profile.active

ExecutedIsShut == \A i \in AskIds : asks[i] = "EXECUTED" => ~profile.active

\* Erased is erased, while requests do not overlap.
NothingTells ==
    alone /\ ~profile.active =>
        /\ ~profile.personal
        /\ \A x \in ExportIds : exports[x] # None /\ exports[x].url => ~exports[x].personal

ErasureInv == /\ ErasureTypeOK /\ Slots /\ ExecutedIsShut /\ NothingTells
              /\ \A h \in Handlers : ErasureCall(at[h], held[h])

LEMMA ErasureInit0 == ErasureInit => ErasureInv
<1> SUFFICES ASSUME ErasureInit PROVE ErasureInv
  OBVIOUS
<1>0. profile \in [personal : BOOLEAN, active : BOOLEAN] /\ profile.active
  BY DEF ErasureInit
<1>1. ErasureTypeOK /\ ExecutedIsShut /\ NothingTells
  BY <1>0, ErasureRowAssumption
     DEF ErasureInit, ErasureTypeOK, ExecutedIsShut, NothingTells, PdpRequestStatus
<1>2. Slots /\ \A h \in Handlers : at[h] = "free"
  BY SlotsInit DEF ErasureInit
<1> QED BY <1>1, <1>2 DEF ErasureInv, ErasureCall

LEMMA ErasureMove ==
    ASSUME ErasureInv, NEW h \in Handlers, NEW call, NEW x, Goto(h, call, x),
           MayStart(h) \/ at[h] # "free",
           ErasureTypeOK', ExecutedIsShut', NothingTells', ErasureCall(call, x)',
           profile'.active => profile.active, PersonalExports \subseteq PersonalExports'
    PROVE  ErasureInv'
<1>1. /\ Slots' /\ alone' = alone /\ at'[h] = call /\ held'[h] = x
      /\ \A g \in Handlers \ {h} : at'[g] = at[g] /\ held'[g] = held[g]
      /\ alone => \A g \in Handlers \ {h} : at[g] = "free"
  BY SlotsMove DEF ErasureInv
<1>2. ASSUME NEW g \in Handlers \ {h} PROVE ErasureCall(at[g], held[g])'
  <2>1. ErasureCall(at[g], held[g])
    BY DEF ErasureInv
  <2>2. at'[g] = at[g] /\ held'[g] = held[g] /\ (alone => at[g] = "free")
    BY <1>1
  <2> QED BY <1>1, <2>1, <2>2 DEF ErasureCall
<1>3. ErasureCall(at[h], held[h])'
  BY <1>1 DEF ErasureCall
<1> QED BY <1>1, <1>2, <1>3 DEF ErasureInv

LEMMA ErasureReads ==
    ASSUME ErasureInv, NEW h \in Handlers,
           \/ AskRead(h) \/ ProfileRead(h) \/ CollectData(h) \/ FindExpired(h) \/ ListExports(h)
           \/ ErasureFails(h)
           \/ \E i \in AskIds : ApproveErasure(h, i) \/ RejectErasure(h, i)
    PROVE  ErasureInv'
<1>0. ErasureTypeOK /\ ErasureCall(at[h], held[h])
  BY DEF ErasureInv
<1>1. UNCHANGED erasureRows /\ (MayStart(h) \/ at[h] # "free") /\ alone' = alone
  BY DEF AskRead, ProfileRead, CollectData, FindExpired, ListExports, ErasureFails,
         ApproveErasure, RejectErasure, UserStarts, Answer, Goto
<1>2. ASSUME NEW call, NEW x, Goto(h, call, x), ErasureCall(call, x) PROVE ErasureInv'
  <2>1. ErasureTypeOK' /\ ExecutedIsShut' /\ NothingTells' /\ ErasureCall(call, x)'
    BY <1>1, <1>2 DEF ErasureInv, ErasureTypeOK, ExecutedIsShut, NothingTells, ErasureCall,
                      PersonalExports, erasureRows
  <2>2. profile' = profile /\ PersonalExports' = PersonalExports
    BY <1>1 DEF erasureRows, PersonalExports
  <2> QED BY <1>1, <1>2, <2>1, <2>2, ErasureMove
<1>3. CASE AskRead(h) \/ ProfileRead(h)
  BY <1>2, <1>3 DEF AskRead, ProfileRead, UserStarts, ErasureCall
<1>4. CASE CollectData(h)
  <2>1. profile.personal \in BOOLEAN
    BY <1>0 DEF ErasureTypeOK
  <2>2. ErasureCall("export", [personal |-> profile.personal])
    BY <1>4, <2>1 DEF CollectData, UserStarts, ErasureCall
  <2> QED BY <1>2, <1>4, <2>2 DEF CollectData
<1>5. CASE FindExpired(h)
  <2>1. PICK X \in SUBSET PersonalExports : Goto(h, "expire", [found |-> X])
    BY <1>5 DEF FindExpired
  <2>2. ErasureCall("expire", [found |-> X])
    BY DEF ErasureCall
  <2> QED BY <1>2, <2>1, <2>2
<1>6. CASE ListExports(h)
  <2>1. ErasureCall("erase", [ask |-> held[h].ask, found |-> PersonalExports])
    BY <1>0, <1>6 DEF ListExports, ErasureCall
  <2> QED BY <1>2, <1>6, <2>1 DEF ListExports
<1>7. CASE ErasureFails(h)
  BY <1>2, <1>7 DEF ErasureFails, Answer, ErasureCall
<1>8. CASE \E i \in AskIds : ApproveErasure(h, i) \/ RejectErasure(h, i)
  <2>1. PICK i \in AskIds : Goto(h, "list", [ask |-> i]) \/ Goto(h, "reject", [ask |-> i])
    BY <1>8 DEF ApproveErasure, RejectErasure
  <2>2. ErasureCall("list", [ask |-> i]) /\ ErasureCall("reject", [ask |-> i])
    BY DEF ErasureCall
  <2> QED BY <1>2, <2>1, <2>2
<1> QED BY <1>3, <1>4, <1>5, <1>6, <1>7, <1>8

\* The rows that a set of exports leads to.
LEMMA ExportsClosed ==
    ASSUME ErasureInv, NEW X \in SUBSET PersonalExports, exports' = Closed(X)
    PROVE  /\ exports' \in [ExportIds -> ExportRows \cup {None}]
           /\ PersonalExports' = PersonalExports
           /\ \A x \in PersonalExports :
                 /\ exports'[x].personal = exports[x].personal
                 /\ exports'[x].url => exports[x].url /\ x \notin X
<1>1. \A x \in PersonalExports : x \in ExportIds /\ exports[x] \in ExportRows /\ exports[x] # None
  BY DEF ErasureInv, ErasureTypeOK, PersonalExports
<1>2. \A x \in X : [exports[x] EXCEPT !.url = FALSE] \in ExportRows
  BY <1>1 DEF ExportRows
<1>3. \A x \in ExportIds : exports'[x] = IF x \in X THEN [exports[x] EXCEPT !.url = FALSE]
                                         ELSE exports[x]
  BY DEF Closed
<1>4. ASSUME NEW x \in ExportIds PROVE exports'[x] \in ExportRows \cup {None}
  BY <1>2, <1>3 DEF ErasureInv, ErasureTypeOK
<1>5. exports' \in [ExportIds -> ExportRows \cup {None}]
  BY <1>4 DEF Closed
<1>6. PersonalExports' = PersonalExports
  BY <1>1, <1>2, <1>3, ErasureRowAssumption DEF PersonalExports
<1>7. \A x \in X : /\ [exports[x] EXCEPT !.url = FALSE].personal = exports[x].personal
                   /\ ~[exports[x] EXCEPT !.url = FALSE].url
  BY <1>1 DEF ExportRows
<1> QED BY <1>1, <1>3, <1>5, <1>6, <1>7

LEMMA ErasureWrites ==
    ASSUME ErasureInv, NEW h \in Handlers,
           \/ AskErasure(h) \/ UpdateProfile(h) \/ LogExport(h) \/ Anonymize(h)
           \/ MarkExecuted(h) \/ MarkRejected(h) \/ CloseExpired(h)
    PROVE  ErasureInv'
<1>0. /\ ErasureTypeOK /\ ExecutedIsShut /\ NothingTells /\ ErasureCall(at[h], held[h])
      /\ at[h] # "free"
  BY DEF ErasureInv, AskErasure, UpdateProfile, LogExport, Anonymize, MarkExecuted,
         MarkRejected, CloseExpired
<1>1. alone' = alone
  BY DEF AskErasure, UpdateProfile, LogExport, Anonymize, MarkExecuted, MarkRejected,
         CloseExpired, Answer, Goto
<1>2. ErasureCall("free", None)'
  BY DEF ErasureCall
<1>3. CASE AskErasure(h) \/ MarkExecuted(h) \/ MarkRejected(h)
  <2>1. UNCHANGED <<profile, exports>> /\ Goto(h, "free", None)
    BY <1>3 DEF AskErasure, MarkExecuted, MarkRejected, Answer
  <2>2. PICK i \in AskIds, status \in {"PENDING", "EXECUTED", "REJECTED"} :
            asks' = [asks EXCEPT ![i] = status] /\ (status = "EXECUTED" => ~profile.active)
    <3>1. CASE AskErasure(h)
      BY <3>1 DEF AskErasure
    <3>2. CASE MarkExecuted(h)
      BY <1>0, <3>2 DEF MarkExecuted, ErasureCall
    <3>3. CASE MarkRejected(h)
      BY <1>0, <3>3 DEF MarkRejected, ErasureCall
    <3> QED BY <1>3, <3>1, <3>2, <3>3
  <2>3. ErasureTypeOK' /\ ExecutedIsShut'
    BY <1>0, <2>1, <2>2 DEF ErasureTypeOK, ExecutedIsShut, PdpRequestStatus
  <2>4. NothingTells' /\ PersonalExports' = PersonalExports
    BY <1>0, <1>1, <2>1 DEF NothingTells, PersonalExports
  <2> QED BY <1>0, <1>2, <2>1, <2>3, <2>4, ErasureMove
<1>4. CASE UpdateProfile(h)
  <2>1. /\ UNCHANGED <<asks, exports>> /\ Goto(h, "free", None)
        /\ profile' \in [personal : BOOLEAN, active : BOOLEAN]
        /\ profile'.active = profile.active
    BY <1>0, <1>4 DEF UpdateProfile, Answer, ErasureTypeOK
  <2>2. ErasureTypeOK' /\ ExecutedIsShut' /\ PersonalExports' = PersonalExports
    BY <1>0, <2>1 DEF ErasureTypeOK, ExecutedIsShut, PersonalExports
  <2>3. alone => profile.active
    BY <1>0, <1>4 DEF UpdateProfile, ErasureCall
  <2>4. NothingTells'
    BY <1>1, <2>1, <2>3 DEF NothingTells
  <2> QED BY <1>0, <1>2, <2>1, <2>2, <2>4, ErasureMove
<1>5. CASE LogExport(h)
  <2>1. UNCHANGED <<profile, asks>> /\ Goto(h, "free", None) /\ (alone => profile.active)
    BY <1>0, <1>5 DEF LogExport, Answer, ErasureCall
  <2>2. PICK x \in ExportIds :
            /\ exports[x] = None
            /\ exports' = [exports EXCEPT ![x] = [url |-> TRUE, personal |-> held[h].personal]]
    BY <1>5 DEF LogExport
  <2>3. PICK new \in ExportRows : exports' = [exports EXCEPT ![x] = new]
    <3>1. held[h].personal \in BOOLEAN
      BY <1>0, <1>5 DEF LogExport, ErasureCall
    <3>2. [url |-> TRUE, personal |-> held[h].personal] \in ExportRows
      BY <3>1 DEF ExportRows
    <3> QED BY <2>2, <3>2
  <2>4. ErasureTypeOK' /\ PersonalExports \subseteq PersonalExports'
    BY <1>0, <2>1, <2>2, <2>3 DEF ErasureTypeOK, PersonalExports
  <2>5. ExecutedIsShut' /\ NothingTells'
    BY <1>0, <1>1, <2>1 DEF ExecutedIsShut, NothingTells
  <2> QED BY <1>0, <1>2, <2>1, <2>4, <2>5, ErasureMove
<1>6. CASE Anonymize(h)
  <2>1. /\ profile' = [personal |-> FALSE, active |-> FALSE] /\ UNCHANGED asks
        /\ Goto(h, "execute", held[h]) /\ exports' = Closed(held[h].found)
    BY <1>6 DEF Anonymize
  <2>2. /\ held[h].found \subseteq PersonalExports /\ held[h].ask \in AskIds
        /\ alone => held[h].found = PersonalExports
    BY <1>0, <1>6 DEF Anonymize, ErasureCall
  <2>3. /\ exports' \in [ExportIds -> ExportRows \cup {None}]
        /\ PersonalExports' = PersonalExports
        /\ \A x \in PersonalExports : exports'[x].url => x \notin held[h].found
    BY <2>1, <2>2, ExportsClosed
  <2>4. /\ ~profile'.active /\ ~profile'.personal
        /\ profile' \in [personal : BOOLEAN, active : BOOLEAN]
    BY <2>1
  <2>5. ErasureTypeOK' /\ ExecutedIsShut'
    BY <1>0, <2>1, <2>3, <2>4 DEF ErasureTypeOK, ExecutedIsShut
  <2>6. \A x \in ExportIds : alone /\ exports'[x] # None => ~exports'[x].url
    <3>1. \A x \in ExportIds : exports'[x] # None => x \in PersonalExports'
      BY DEF PersonalExports
    <3> QED BY <2>2, <2>3, <3>1
  <2>7. NothingTells'
    BY <1>1, <2>4, <2>6 DEF NothingTells
  <2>8. PICK x : x = held[h]
    OBVIOUS
  <2>9. Goto(h, "execute", x) /\ ErasureCall("execute", x)'
    BY <2>1, <2>2, <2>4, <2>8 DEF ErasureCall
  <2> QED BY <1>0, <2>3, <2>4, <2>5, <2>7, <2>9, ErasureMove
<1>7. CASE CloseExpired(h)
  <2>1. /\ UNCHANGED <<profile, asks>> /\ Goto(h, "free", None)
        /\ exports' = Closed(held[h].found) /\ held[h].found \subseteq PersonalExports
    BY <1>0, <1>7 DEF CloseExpired, Answer, ErasureCall
  <2>2. /\ exports' \in [ExportIds -> ExportRows \cup {None}]
        /\ PersonalExports' = PersonalExports
        /\ \A x \in PersonalExports : /\ exports'[x].personal = exports[x].personal
                                      /\ exports'[x].url => exports[x].url
    BY <2>1, ExportsClosed
  <2>3. ErasureTypeOK' /\ ExecutedIsShut'
    BY <1>0, <2>1, <2>2 DEF ErasureTypeOK, ExecutedIsShut
  <2>4. NothingTells'
    <3>1. \A x \in ExportIds : exports'[x] # None => x \in PersonalExports /\ exports[x] # None
      BY <2>2 DEF PersonalExports
    <3> QED BY <1>0, <1>1, <2>1, <2>2, <3>1 DEF NothingTells
  <2> QED BY <1>0, <1>2, <2>1, <2>2, <2>3, <2>4, ErasureMove
<1> QED BY <1>3, <1>4, <1>5, <1>6, <1>7

LEMMA ErasureInvariance == ErasureSpec => []ErasureInv
<1>1. ErasureInv /\ [ErasureNext]_erasureVars => ErasureInv'
  <2>1. ErasureInv /\ UNCHANGED erasureVars => ErasureInv'
    BY DEF ErasureInv, ErasureTypeOK, Slots, OneAtOnce, ExecutedIsShut, NothingTells,
           ErasureCall, PersonalExports, erasureVars, erasureRows, requestVars
  <2> QED BY <2>1, ErasureReads, ErasureWrites DEF ErasureNext, ErasureStep
<1> QED BY <1>1, ErasureInit0, PTL DEF ErasureSpec

\* A request for erasure that is EXECUTED has shut the account for good, and
\* while requests do not overlap nothing is left that tells who it was
\* (pdp-anonymize.service.ts), wherever an earlier approval was stopped.
THEOREM ErasureCompletes == ErasureSpec => []ErasureIsComplete
<1>1. ErasureInv => ErasureIsComplete
  BY DEF ErasureInv, ExecutedIsShut, NothingTells, ErasureIsComplete
<1> QED BY <1>1, ErasureInvariance, PTL

-----------------------------------------------------------------------------
(* The maintenance switch.                                                 *)

\* An answer of the database stays an answer from that moment or later; an
\* update that nobody disturbs finds the switch as it left it.
MaintenanceCall(call, x) ==
    /\ call \in {"query", "fill"} => x.now \in Ticks /\ x.now <= tick
    /\ call \in {"query", "fill"} => x.change \in Switch \cup {None}
    /\ call \in {"upsert", "settle"} => x.change \in Switch
    /\ call = "fill" => x.status \in Switch /\ x.known \in BOOLEAN
    /\ call = "fill" /\ x.known => WasSince(x.status, x.now)
    /\ call = "fill" /\ x.known /\ alone => x.status = switch
    /\ call = "settle" /\ ~contested => x.change = switch

Updates(h) == at[h] # "free" /\ held[h].change # None

OneUpdate == /\ ~contested => \A g, h \in Handlers : Updates(g) /\ Updates(h) => g = h
             /\ alone => ~contested

MemoIsRecent ==
    memo # None =>
        /\ memo.fetchedAt <= tick
        /\ memo.known /\ ~contested => WasSince(memo.status, memo.fetchedAt)
        /\ memo.known /\ alone /\ (\A h \in Handlers : at[h] # "settle") => memo.status = switch

MaintenanceInv == /\ MaintenanceTypeOK /\ Slots /\ OneUpdate /\ MemoIsRecent
                  /\ \A h \in Handlers : MaintenanceCall(at[h], held[h])

LEMMA MaintenanceInit0 == MaintenanceInit => MaintenanceInv
<1> SUFFICES ASSUME MaintenanceInit PROVE MaintenanceInv
  OBVIOUS
<1>1. Slots /\ \A h \in Handlers : at[h] = "free"
  BY SlotsInit DEF MaintenanceInit
<1>2. MaintenanceTypeOK
  <2>1. leftAt \in [Switch -> Ticks \cup {None}]
    BY DEF MaintenanceInit
  <2>2. tick \in Ticks
    BY MaintenanceAssumption DEF MaintenanceInit, Ticks
  <2>3. switch \in Switch /\ memo \in Memos \cup {None} /\ contested \in BOOLEAN
    BY DEF MaintenanceInit, Switch
  <2> QED BY <2>1, <2>2, <2>3 DEF MaintenanceTypeOK
<1>3. OneUpdate /\ MemoIsRecent
  BY <1>1 DEF MaintenanceInit, OneUpdate, MemoIsRecent, Updates
<1>4. \A h \in Handlers : MaintenanceCall(at[h], held[h])
  BY <1>1 DEF MaintenanceCall
<1> QED BY <1>1, <1>2, <1>3, <1>4 DEF MaintenanceInv

\* What was so since a moment is so since that moment, whatever is written now.
LEMMA StillSince ==
    ASSUME MaintenanceTypeOK, tick' \in Ticks, tick <= tick',
           \/ UNCHANGED <<switch, leftAt>>
           \/ /\ switch' \in Switch
              /\ leftAt' = IF switch' = switch THEN leftAt ELSE [leftAt EXCEPT ![switch] = tick],
           NEW s \in Switch, NEW m \in Ticks, m <= tick, WasSince(s, m)
    PROVE  WasSince(s, m)'
BY MaintenanceRowAssumption, MaintenanceAssumption DEF MaintenanceTypeOK, WasSince, Ticks

LEMMA MaintenanceMove ==
    ASSUME MaintenanceInv, NEW h \in Handlers, NEW call, NEW x, Goto(h, call, x),
           MayStart(h) \/ at[h] # "free",
           MaintenanceTypeOK', MemoIsRecent', MaintenanceCall(call, x)', tick' = tick,
           contested => contested', alone => ~contested',
           call # "free" /\ x.change # None =>
               Updates(h) \/ contested' \/ \A g \in Handlers : ~Updates(g),
           \/ UNCHANGED <<switch, leftAt>>
           \/ /\ Updates(h)
              /\ leftAt' = IF switch' = switch THEN leftAt ELSE [leftAt EXCEPT ![switch] = tick]
    PROVE  MaintenanceInv'
<1>1. /\ Slots' /\ alone' = alone /\ at'[h] = call /\ held'[h] = x
      /\ \A g \in Handlers \ {h} : at'[g] = at[g] /\ held'[g] = held[g]
      /\ alone => \A g \in Handlers \ {h} : at[g] = "free"
  BY SlotsMove DEF MaintenanceInv
<1>2. OneUpdate'
  BY <1>1 DEF MaintenanceInv, OneUpdate, Updates
<1>3. ASSUME NEW g \in Handlers \ {h} PROVE MaintenanceCall(at[g], held[g])'
  <2>1. MaintenanceCall(at[g], held[g]) /\ MaintenanceTypeOK
    BY DEF MaintenanceInv
  <2>2. at'[g] = at[g] /\ held'[g] = held[g] /\ (alone => at[g] = "free")
    BY <1>1
  <2>3. PICK y : y = held[g] /\ y = held'[g]
    BY <2>2
  <2>4. at[g] = "fill" /\ y.known => WasSince(y.status, y.now)'
    <3>1. tick' \in Ticks /\ tick <= tick' /\ switch' \in Switch
      BY MaintenanceAssumption DEF MaintenanceTypeOK, Ticks
    <3>2. at[g] = "fill" /\ y.known =>
              y.status \in Switch /\ y.now \in Ticks /\ y.now <= tick /\ WasSince(y.status, y.now)
      BY <2>1, <2>3 DEF MaintenanceCall
    <3> QED BY <2>1, <3>1, <3>2, StillSince
  <2>5. at[g] = "settle" /\ ~contested' => y.change = switch'
    <3> SUFFICES ASSUME at[g] = "settle", ~contested' PROVE y.change = switch'
      OBVIOUS
    <3>1. y.change \in Switch /\ y.change = switch
      BY <2>1, <2>3 DEF MaintenanceCall
    <3>2. Updates(g)
      BY <2>3, <3>1, MaintenanceRowAssumption DEF Updates
    <3>3. ~Updates(h)
      BY <3>2 DEF MaintenanceInv, OneUpdate
    <3> QED BY <3>1, <3>3
  <2> QED BY <1>1, <2>1, <2>2, <2>3, <2>4, <2>5 DEF MaintenanceCall
<1>4. MaintenanceCall(at[h], held[h])'
  BY <1>1 DEF MaintenanceCall
<1> QED BY <1>1, <1>2, <1>3, <1>4 DEF MaintenanceInv

LEMMA MaintenanceReads ==
    ASSUME MaintenanceInv, NEW h \in Handlers,
           \/ Ask(h) \/ Query(h) \/ UpsertSwitchFails(h)
           \/ \E s \in Switch : AskUpdate(h, s)
    PROVE  MaintenanceInv'
<1>0. /\ MaintenanceTypeOK /\ MemoIsRecent /\ OneUpdate /\ MaintenanceCall(at[h], held[h])
      /\ tick \in Ticks /\ tick <= tick
  BY MaintenanceAssumption DEF MaintenanceInv, MaintenanceTypeOK, Ticks
<1>1. /\ UNCHANGED <<switch, memo, tick, leftAt>> /\ (MayStart(h) \/ at[h] # "free")
      /\ alone' = alone
  BY DEF Ask, AskUpdate, Query, UpsertSwitchFails, Answer, Goto, maintenanceRows
<1>2. ASSUME NEW call, NEW x, Goto(h, call, x), MaintenanceCall(call, x)', call # "settle",
             contested' \in BOOLEAN, contested => contested', alone => ~contested',
             at[h] # "settle",
             call # "free" /\ x.change # None =>
                 Updates(h) \/ contested' \/ \A g \in Handlers : ~Updates(g)
      PROVE  MaintenanceInv'
  <2>1. MaintenanceTypeOK'
    BY <1>0, <1>1, <1>2 DEF MaintenanceTypeOK
  <2>2. alone => (\A g \in Handlers : at[g] # "settle")
    BY <1>1, <1>2 DEF MaintenanceInv, Slots, OneAtOnce, MayStart
  <2>3. MemoIsRecent'
    BY <1>0, <1>1, <1>2, <2>2 DEF MemoIsRecent, WasSince
  <2> QED BY <1>1, <1>2, <2>1, <2>3, MaintenanceMove
<1>3. CASE Ask(h)
  <2>1. Goto(h, "query", [now |-> tick, change |-> None]) /\ contested' = contested
        /\ MayStart(h) /\ at[h] = "free"
    BY <1>3 DEF Ask, maintenanceRows, MayStart
  <2>2. PICK x : x = [now |-> tick, change |-> None] /\ x.change = None /\ x.now = tick
    <3> DEFINE new == [now |-> tick, change |-> None]
    <3>1. new.change = None /\ new.now = tick
      OBVIOUS
    <3> QED BY <3>1
  <2>3. MaintenanceCall("query", x)'
    BY <1>0, <1>1, <2>2 DEF MaintenanceCall
  <2> QED BY <1>0, <1>2, <2>1, <2>2, <2>3 DEF OneUpdate, MaintenanceTypeOK
<1>4. ASSUME NEW s \in Switch, AskUpdate(h, s) PROVE MaintenanceInv'
  <2>1. PICK x : x = [now |-> tick, change |-> s] /\ x.change = s /\ x.now = tick
    <3> DEFINE new == [now |-> tick, change |-> s]
    <3>1. new.change = s /\ new.now = tick
      OBVIOUS
    <3> QED BY <3>1
  <2>2. Goto(h, "query", x) \/ Goto(h, "upsert", x)
    BY <1>4, <2>1 DEF AskUpdate
  <2>3. /\ contested' = (contested \/ Updating) /\ MayStart(h) /\ at[h] = "free"
        /\ Updating <=> \E g \in Handlers : Updates(g)
    BY <1>4 DEF AskUpdate, MayStart, Updating, Updates
  <2>4. contested' \in BOOLEAN /\ (alone => ~contested')
    BY <1>0, <2>3 DEF MaintenanceTypeOK, OneUpdate, Updates, MayStart
  <2>5. MaintenanceCall("query", x)' /\ MaintenanceCall("upsert", x)'
    BY <1>0, <1>1, <2>1 DEF MaintenanceCall
  <2> QED BY <1>2, <2>2, <2>3, <2>4, <2>5
<1>5. CASE Query(h)
  <2>1. /\ held[h].now \in Ticks /\ held[h].now <= tick
        /\ held[h].change \in Switch \cup {None} /\ at[h] = "query"
    BY <1>0, <1>5 DEF Query, MaintenanceCall
  <2>2. PICK x : /\ Goto(h, "fill", x) /\ x.now = held[h].now /\ x.change = held[h].change
                 /\ x.status \in Switch /\ x.known \in BOOLEAN /\ (x.known => x.status = switch)
    <3> DEFINE seen == [now |-> held[h].now, change |-> held[h].change,
                        status |-> switch, known |-> TRUE]
               unseen == [now |-> held[h].now, change |-> held[h].change,
                          status |-> "off", known |-> FALSE]
    <3>1. /\ seen.now = held[h].now /\ seen.change = held[h].change
          /\ seen.status = switch /\ seen.known = TRUE
          /\ unseen.now = held[h].now /\ unseen.change = held[h].change
          /\ unseen.status = "off" /\ unseen.known = FALSE
      OBVIOUS
    <3>2. switch \in Switch /\ "off" \in Switch
      BY <1>0 DEF MaintenanceTypeOK, Switch
    <3>3. Goto(h, "fill", seen) \/ Goto(h, "fill", unseen)
      BY <1>5 DEF Query
    <3> HIDE DEF seen, unseen
    <3> QED BY <3>1, <3>2, <3>3
  <2>3. MaintenanceCall("fill", x)'
    BY <1>0, <1>1, <2>1, <2>2 DEF MaintenanceCall, WasSince
  <2>4. contested' = contested
    BY <1>5 DEF Query, maintenanceRows
  <2> QED BY <1>0, <1>2, <2>1, <2>2, <2>3, <2>4 DEF OneUpdate, MaintenanceTypeOK, Updates
<1>6. CASE UpsertSwitchFails(h)
  <2>1. Goto(h, "free", None) /\ contested' = contested /\ at[h] # "settle"
    BY <1>6 DEF UpsertSwitchFails, Answer, maintenanceRows
  <2> QED BY <1>0, <1>2, <2>1 DEF OneUpdate, MaintenanceTypeOK, MaintenanceCall
<1> QED BY <1>3, <1>4, <1>5, <1>6

LEMMA MaintenanceWrites ==
    ASSUME MaintenanceInv, NEW h \in Handlers, Fill(h) \/ UpsertSwitch(h) \/ Settle(h)
    PROVE  MaintenanceInv'
<1>0. /\ MaintenanceTypeOK /\ MemoIsRecent /\ OneUpdate /\ MaintenanceCall(at[h], held[h])
      /\ tick \in Ticks /\ tick <= tick /\ at[h] # "free"
  BY MaintenanceAssumption
     DEF MaintenanceInv, MaintenanceTypeOK, Ticks, Fill, UpsertSwitch, Settle
<1>1. tick' = tick /\ contested' = contested /\ alone' = alone
  BY DEF Fill, UpsertSwitch, Settle, Answer, Goto
<1>2. PICK x : x = held[h]
  OBVIOUS
<1>3. MaintenanceCall("free", None)'
  BY DEF MaintenanceCall
\* What the copy becomes.
<1>4. ASSUME NEW status \in Switch, NEW when \in Ticks, NEW known \in BOOLEAN,
             memo' = [status |-> status, fetchedAt |-> when, known |-> known]
      PROVE  /\ memo' \in Memos \cup {None} /\ memo'.fetchedAt = when
             /\ memo'.status = status /\ memo'.known = known
  BY <1>4 DEF Memos
<1>5. CASE Fill(h)
  <2>1. /\ memo' = [status |-> x.status, fetchedAt |-> x.now, known |-> x.known]
        /\ UNCHANGED <<switch, leftAt>> /\ at[h] = "fill"
        /\ x.status \in Switch /\ x.now \in Ticks /\ x.known \in BOOLEAN /\ x.now <= tick
        /\ x.change \in Switch \cup {None}
        /\ x.known => WasSince(x.status, x.now) /\ (alone => x.status = switch)
    BY <1>0, <1>2, <1>5 DEF Fill, FetchedAt, MaintenanceCall
  <2>2. /\ memo' \in Memos \cup {None} /\ memo'.fetchedAt = x.now
        /\ memo'.status = x.status /\ memo'.known = x.known
    BY <1>4, <2>1
  <2>3. MaintenanceTypeOK' /\ MemoIsRecent'
    BY <1>0, <1>1, <2>1, <2>2 DEF MaintenanceTypeOK, MemoIsRecent, WasSince
  <2>4. /\ x.change = None => Goto(h, "free", None)
        /\ x.change # None => Goto(h, "upsert", x) /\ Updates(h)
    BY <1>2, <1>5, <2>1 DEF Fill, Answer, Updates
  <2>5. x.change # None => MaintenanceCall("upsert", x)'
    BY <2>1 DEF MaintenanceCall
  <2> QED BY <1>0, <1>1, <1>3, <2>1, <2>3, <2>4, <2>5, MaintenanceMove DEF OneUpdate
<1>6. CASE UpsertSwitch(h)
  <2>1. /\ switch' = x.change /\ memo' = memo /\ at[h] = "upsert" /\ x.change \in Switch
        /\ leftAt' = IF switch' = switch THEN leftAt ELSE [leftAt EXCEPT ![switch] = tick]
        /\ Goto(h, "settle", x) /\ Updates(h)
    BY <1>0, <1>2, <1>6, MaintenanceRowAssumption DEF UpsertSwitch, MaintenanceCall, Updates
  <2>2. leftAt' \in [Switch -> Ticks \cup {None}]
    BY <1>0, <2>1 DEF MaintenanceTypeOK
  <2>3. MaintenanceTypeOK'
    BY <1>0, <1>1, <2>1, <2>2 DEF MaintenanceTypeOK
  <2>4. at'[h] = "settle"
    BY <2>1, SlotsMove DEF MaintenanceInv
  <2>5. memo # None => memo.status \in Switch /\ memo.fetchedAt \in Ticks
    BY <1>0 DEF MaintenanceTypeOK, Memos
  <2>6. memo # None /\ memo.known /\ ~contested => WasSince(memo.status, memo.fetchedAt)'
    BY <1>0, <1>1, <2>1, <2>5, StillSince DEF MemoIsRecent
  <2>7. MemoIsRecent'
    BY <1>0, <1>1, <2>1, <2>4, <2>6 DEF MemoIsRecent, WasSince
  <2>8. MaintenanceCall("settle", x)'
    BY <2>1 DEF MaintenanceCall
  <2> QED BY <1>0, <1>1, <2>1, <2>3, <2>7, <2>8, MaintenanceMove DEF OneUpdate
<1>7. CASE Settle(h)
  <2>1. /\ memo' = [status |-> x.change, fetchedAt |-> tick, known |-> TRUE]
        /\ UNCHANGED <<switch, leftAt>> /\ x.change \in Switch
        /\ ~contested => x.change = switch
        /\ Goto(h, "free", None)
    BY <1>0, <1>2, <1>7 DEF Settle, Answer, MaintenanceCall
  <2>2. /\ memo' \in Memos \cup {None} /\ memo'.fetchedAt = tick
        /\ memo'.status = x.change /\ memo'.known = TRUE
    BY <1>0, <1>4, <2>1
  <2>3. MaintenanceTypeOK'
    BY <1>0, <1>1, <2>1, <2>2 DEF MaintenanceTypeOK
  <2>4. MemoIsRecent'
    BY <1>0, <1>1, <2>1, <2>2 DEF MemoIsRecent, WasSince, OneUpdate
  <2> QED BY <1>0, <1>1, <1>3, <2>1, <2>3, <2>4, MaintenanceMove DEF OneUpdate
<1> QED BY <1>5, <1>6, <1>7

LEMMA MaintenanceOthers ==
    ASSUME MaintenanceInv, TickPasses \/ ProcessRestarts
    PROVE  MaintenanceInv'
<1>0. /\ MaintenanceTypeOK /\ MemoIsRecent /\ OneUpdate /\ Slots
      /\ \A h \in Handlers : MaintenanceCall(at[h], held[h])
  BY DEF MaintenanceInv
<1>1. CASE TickPasses
  <2>1. /\ tick' \in Ticks /\ tick <= tick'
        /\ UNCHANGED <<at, held, alone, switch, memo, leftAt, contested>>
    BY <1>0, <1>1, MaintenanceAssumption DEF TickPasses, requestVars, MaintenanceTypeOK, Ticks
  <2>2. MaintenanceTypeOK' /\ Slots' /\ OneUpdate'
    BY <1>0, <2>1 DEF MaintenanceTypeOK, Slots, OneAtOnce, OneUpdate, Updates
  <2>3. memo # None => memo.fetchedAt \in Ticks
    BY <1>0 DEF MaintenanceTypeOK, Memos
  <2>4. MemoIsRecent'
    BY <1>0, <2>1, <2>3, MaintenanceAssumption
       DEF MemoIsRecent, WasSince, MaintenanceTypeOK, Ticks
  <2>5. ASSUME NEW h \in Handlers PROVE MaintenanceCall(at[h], held[h])'
    <3>1. MaintenanceCall(at[h], held[h]) /\ tick \in Ticks
      BY <1>0 DEF MaintenanceTypeOK
    <3>2. PICK y : y = held[h] /\ y = held'[h] /\ at'[h] = at[h]
      BY <2>1
    <3>3. at[h] \in {"query", "fill"} => y.now \in Ticks /\ y.now <= tick'
      BY <2>1, <3>1, <3>2, MaintenanceAssumption DEF MaintenanceCall, Ticks
    <3> QED BY <2>1, <3>1, <3>2, <3>3 DEF MaintenanceCall, WasSince
  <2> QED BY <2>2, <2>4, <2>5 DEF MaintenanceInv
<1>2. CASE ProcessRestarts
  <2>1. \A h \in Handlers : at'[h] = "free"
    BY <1>2 DEF ProcessRestarts
  <2>2. Slots'
    BY <1>2, <2>1 DEF ProcessRestarts, Slots, OneAtOnce
  <2>3. MaintenanceTypeOK'
    BY <1>0, <1>2 DEF ProcessRestarts, MaintenanceTypeOK
  <2>4. OneUpdate' /\ MemoIsRecent'
    BY <1>2, <2>1 DEF ProcessRestarts, OneUpdate, MemoIsRecent, Updates
  <2>5. \A h \in Handlers : MaintenanceCall(at[h], held[h])'
    BY <2>1 DEF MaintenanceCall
  <2> QED BY <2>2, <2>3, <2>4, <2>5 DEF MaintenanceInv
<1> QED BY <1>1, <1>2

LEMMA MaintenanceInvariance == MaintenanceSpec => []MaintenanceInv
<1>1. MaintenanceInv /\ [MaintenanceNext]_maintenanceVars => MaintenanceInv'
  <2>1. MaintenanceInv /\ UNCHANGED maintenanceVars => MaintenanceInv'
    BY DEF MaintenanceInv, MaintenanceTypeOK, Slots, OneAtOnce, OneUpdate, Updates,
           MemoIsRecent, MaintenanceCall, WasSince, maintenanceVars, maintenanceRows,
           requestVars
  <2> QED BY <2>1, MaintenanceReads, MaintenanceWrites, MaintenanceOthers
          DEF MaintenanceNext, MaintenanceStep
<1> QED BY <1>1, MaintenanceInit0, PTL DEF MaintenanceSpec

\* A request that asks the database for the switch is answered with a status that was
\* current at its arrival or later, and one the copy answers with a status that was
\* current less than CacheTtl ago, as long as no two updates overlap; while requests do
\* not overlap an update is what the next one sees (maintenance.service.ts), whatever
\* CacheTtl is.
THEOREM StatusStaysRecent == MaintenanceSpec => []StatusIsRecent
<1>1. ASSUME MaintenanceInv PROVE StatusIsRecent
  <2>1. \A h \in Handlers : at[h] = "fill" /\ held[h].known =>
            WasSince(held[h].status, held[h].now)
    BY <1>1 DEF MaintenanceInv, MaintenanceCall
  <2>2. MemoIsRecent
    BY <1>1 DEF MaintenanceInv
  <2> QED BY <2>1, <2>2 DEF MemoIsRecent, StatusIsRecent, Fresh
<1> QED BY <1>1, MaintenanceInvariance, PTL

-----------------------------------------------------------------------------
(* Sessions.                                                               *)

\* A token that was revoked stays so, and passwords only move on; that nobody
\* moved them meanwhile needs requests that do not overlap.
SessionCall(call, x) ==
    /\ call = "miss" => x.fails \in Nat /\ (alone => x.fails = account.fails)
    /\ call \in {"hit", "issue", "rotate"} =>
          x.knew \in Passwords /\ x.token \in 0..MaxTokens /\ (alone => x.knew >= settled)
    /\ call = "hit" => x.token = 0
    /\ call = "rotate" => x.token # 0 /\ sessions[x.token] # None
    /\ call = "issue" /\ x.token # 0 => sessions[x.token] # None /\ ~sessions[x.token].live
    /\ alone /\ call \in {"issue", "rotate"} /\ x.token # 0 =>
          \A t \in TokenIds : sessions[t] # None => sessions[t].from # x.token
    /\ call = "revoke" => x.knew \in Passwords /\ x.knew <= account.password

ExchangedIsDead ==
    \A s \in TokenIds : sessions[s] # None /\ sessions[s].from # 0 =>
        sessions[sessions[s].from] # None /\ ~sessions[sessions[s].from].live

\* While requests do not overlap, only new sessions go on and a token is
\* exchanged once.
OnlyNewSessions == alone =>
    \A s \in TokenIds : sessions[s] # None =>
        /\ sessions[s].live => sessions[s].born >= settled
        /\ \A t \in TokenIds \ {s} :
              sessions[t] # None /\ sessions[t].from = sessions[s].from => sessions[s].from = 0

\* The row counts what there is to count, and more when a lock has ended.
MissesAreCounted == alone =>
    /\ account.fails >= misses.count
    /\ misses.count >= LOGIN_FAIL_LIMIT => account.until = misses.last + LockHours

SessionInv == /\ SessionTypeOK /\ Slots /\ settled <= account.password
              /\ ExchangedIsDead /\ OnlyNewSessions /\ MissesAreCounted
              /\ \A h \in Handlers : SessionCall(at[h], held[h])

LEMMA SessionInit0 == SessionInit => SessionInv
<1> SUFFICES ASSUME SessionInit PROVE SessionInv
  OBVIOUS
<1>1. Slots /\ \A h \in Handlers : at[h] = "free"
  BY SlotsInit DEF SessionInit
<1>2. 0 \in Passwords /\ 0 \in Clock
  BY SessionAssumption DEF Passwords, Clock
<1>3. /\ account \in UserRows /\ misses \in [count : Nat, last : Clock]
      /\ account.password = 0 /\ account.fails = 0 /\ misses.count = 0
  BY <1>2 DEF SessionInit, UserRows
<1>4. sessions \in [TokenIds -> TokenRows \cup {None}] /\ \A t \in TokenIds : sessions[t] = None
  BY DEF SessionInit
<1>5. SessionTypeOK /\ settled <= account.password
  BY <1>2, <1>3, <1>4 DEF SessionInit, SessionTypeOK
<1>6. ExchangedIsDead /\ OnlyNewSessions /\ MissesAreCounted
  BY <1>3, <1>4, SessionAssumption DEF ExchangedIsDead, OnlyNewSessions, MissesAreCounted
<1>7. \A h \in Handlers : SessionCall(at[h], held[h])
  BY <1>1 DEF SessionCall
<1> QED BY <1>1, <1>5, <1>6, <1>7 DEF SessionInv

\* Tokens stay, revoked ones stay revoked, and passwords move on.
GoOn == /\ account.password <= account'.password
        /\ \A t \in TokenIds : sessions[t] # None =>
              sessions'[t] # None /\ (~sessions[t].live => ~sessions'[t].live)

LEMMA SessionMove ==
    ASSUME SessionInv, NEW h \in Handlers, NEW call, NEW x, Goto(h, call, x),
           MayStart(h) \/ at[h] # "free", SessionTypeOK', settled' <= account'.password,
           ExchangedIsDead', OnlyNewSessions', MissesAreCounted', SessionCall(call, x)', GoOn
    PROVE  SessionInv'
<1>1. /\ Slots' /\ alone' = alone /\ at'[h] = call /\ held'[h] = x
      /\ \A g \in Handlers \ {h} : at'[g] = at[g] /\ held'[g] = held[g]
      /\ alone => \A g \in Handlers \ {h} : at[g] = "free"
  BY SlotsMove DEF SessionInv
<1>2. ASSUME NEW g \in Handlers \ {h} PROVE SessionCall(at[g], held[g])'
  <2>1. SessionCall(at[g], held[g])
    BY DEF SessionInv
  <2>2. at'[g] = at[g] /\ held'[g] = held[g] /\ (alone => at[g] = "free")
    BY <1>1
  <2>3. PICK y : y = held[g] /\ y = held'[g]
    BY <2>2
  <2>4. CASE at[g] = "revoke"
    <3>1. y.knew \in Passwords /\ y.knew <= account.password /\ account.password \in Passwords
          /\ account'.password \in Passwords
      BY <2>1, <2>3, <2>4 DEF SessionCall, SessionInv, SessionTypeOK, UserRows
    <3>2. y.knew <= account'.password
      BY <3>1, SessionAssumption DEF GoOn, Passwords
    <3> QED BY <1>1, <2>2, <2>3, <2>4, <3>1, <3>2 DEF SessionCall
  <2>5. CASE at[g] # "revoke"
    <3>1. at[g] \in {"rotate", "issue"} /\ y.token # 0 => y.token \in TokenIds
      BY <2>1, <2>3, SessionAssumption DEF SessionCall, TokenIds
    <3> QED BY <1>1, <2>1, <2>2, <2>3, <2>5, <3>1 DEF SessionCall, GoOn
  <2> QED BY <2>4, <2>5
<1>3. SessionCall(at[h], held[h])'
  BY <1>1 DEF SessionCall
<1> QED BY <1>1, <1>2, <1>3 DEF SessionInv

LEMMA SessionReads ==
    ASSUME SessionInv, NEW h \in Handlers,
           \/ LoginRead(h) \/ PasswordRead(h) \/ SessionFails(h)
           \/ \E t \in TokenIds : RefreshRead(h, t)
    PROVE  SessionInv'
<1>0. /\ SessionTypeOK /\ settled <= account.password /\ OnlyNewSessions /\ ExchangedIsDead
      /\ account.password \in Passwords /\ account.fails \in Nat /\ settled \in Passwords
  BY DEF SessionInv, SessionTypeOK, UserRows
<1>1. UNCHANGED sessionRows /\ (MayStart(h) \/ at[h] # "free") /\ alone' = alone
  BY DEF LoginRead, PasswordRead, SessionFails, RefreshRead, Answer, Goto
<1>2. ASSUME NEW call, NEW x, Goto(h, call, x), SessionCall(call, x) PROVE SessionInv'
  <2>1. /\ SessionTypeOK' /\ settled' <= account'.password
        /\ ExchangedIsDead' /\ OnlyNewSessions' /\ MissesAreCounted'
    BY <1>0, <1>1 DEF SessionInv, SessionTypeOK, ExchangedIsDead, OnlyNewSessions,
                      MissesAreCounted, sessionRows
  <2>2. SessionCall(call, x)'
    BY <1>1, <1>2 DEF SessionCall, sessionRows
  <2>3. GoOn
    BY <1>0, <1>1, SessionAssumption DEF GoOn, sessionRows, Passwords
  <2> QED BY <1>1, <1>2, <2>1, <2>2, <2>3, SessionMove
<1>3. CASE LoginRead(h)
  <2>1. PICK x : x = [fails |-> account.fails] /\ x.fails = account.fails
    <3> DEFINE new == [fails |-> account.fails]
    <3>1. new.fails = account.fails
      OBVIOUS
    <3> QED BY <3>1
  <2>2. PICK y : /\ y = [knew |-> account.password, token |-> 0]
                 /\ y.knew = account.password /\ y.token = 0
    <3> DEFINE new == [knew |-> account.password, token |-> 0]
    <3>1. new.knew = account.password /\ new.token = 0
      OBVIOUS
    <3> QED BY <3>1
  <2>3. 0 \in 0..MaxTokens /\ account.password >= settled
    BY <1>0, SessionAssumption DEF Passwords
  <2>4. SessionCall("miss", x) /\ SessionCall("hit", y)
    BY <1>0, <2>1, <2>2, <2>3 DEF SessionCall
  <2> QED BY <1>2, <1>3, <2>1, <2>2, <2>4 DEF LoginRead
<1>4. CASE PasswordRead(h)
  BY <1>2, <1>4 DEF PasswordRead, SessionCall
<1>5. CASE SessionFails(h)
  BY <1>2, <1>5 DEF SessionFails, Answer, SessionCall
<1>6. ASSUME NEW t \in TokenIds, RefreshRead(h, t) PROVE SessionInv'
  <2>1. /\ Goto(h, "rotate", [knew |-> sessions[t].born, token |-> t])
        /\ sessions[t] # None /\ sessions[t].live
    BY <1>6 DEF RefreshRead, Good
  <2>2. PICK y : /\ y = [knew |-> sessions[t].born, token |-> t]
                 /\ y.knew = sessions[t].born /\ y.token = t
    <3> DEFINE new == [knew |-> sessions[t].born, token |-> t]
    <3>1. new.knew = sessions[t].born /\ new.token = t
      OBVIOUS
    <3> QED BY <3>1
  <2>3. sessions[t].born \in Passwords /\ t \in 0..MaxTokens /\ t # 0
    BY <1>0, <2>1, SessionAssumption DEF SessionTypeOK, TokenRows, TokenIds
  <2>4. alone => sessions[t].born >= settled
    BY <1>0, <2>1 DEF OnlyNewSessions
  <2>5. \A s \in TokenIds : sessions[s] # None => sessions[s].from # t
    BY <1>0, <2>1, <2>3 DEF ExchangedIsDead
  <2>6. SessionCall("rotate", y)
    BY <2>1, <2>2, <2>3, <2>4, <2>5 DEF SessionCall
  <2> QED BY <1>2, <2>1, <2>2, <2>6
<1> QED BY <1>3, <1>4, <1>5, <1>6

LEMMA RevokedIsDead ==
    ASSUME SessionTypeOK, NEW t \in TokenIds
    PROVE  /\ Revoked(t) \in TokenRows \cup {None}
           /\ Revoked(t) = None <=> sessions[t] = None
           /\ sessions[t] # None => /\ ~Revoked(t).live
                                    /\ Revoked(t).born = sessions[t].born
                                    /\ Revoked(t).from = sessions[t].from
<1>1. CASE sessions[t] = None
  BY <1>1 DEF Revoked
<1>2. CASE sessions[t] # None
  <2>1. PICK row \in TokenRows : row = sessions[t]
    BY <1>2 DEF SessionTypeOK
  <2>2. PICK new \in TokenRows : /\ new = [row EXCEPT !.live = FALSE] /\ ~new.live
                                 /\ new.born = row.born /\ new.from = row.from
    <3> DEFINE n == [row EXCEPT !.live = FALSE]
    <3>1. n \in TokenRows /\ ~n.live /\ n.born = row.born /\ n.from = row.from
      BY DEF TokenRows
    <3> QED BY <3>1
  <2>3. Revoked(t) = new
    BY <1>2, <2>1, <2>2 DEF Revoked
  <2> QED BY <1>2, <2>1, <2>2, <2>3, SessionRowAssumption
<1> QED BY <1>1, <1>2

\* Some tokens are revoked.
LEMMA SomeRevoked ==
    ASSUME SessionInv, NEW T \in SUBSET TokenIds, alone' = alone,
           sessions' = [t \in TokenIds |-> IF t \in T THEN Revoked(t) ELSE sessions[t]]
    PROVE  /\ sessions' \in [TokenIds -> TokenRows \cup {None}]
           /\ ExchangedIsDead'
           /\ settled' = settled \/ T = TokenIds => OnlyNewSessions'
           /\ \A t \in TokenIds : /\ sessions'[t] = None <=> sessions[t] = None
                                  /\ sessions[t] # None =>
                                        /\ sessions'[t].live => sessions[t].live /\ t \notin T
                                        /\ sessions'[t].from = sessions[t].from
<1>1. SessionTypeOK /\ ExchangedIsDead /\ OnlyNewSessions
  BY DEF SessionInv
<1>2. sessions' \in [TokenIds -> TokenRows \cup {None}]
  BY <1>1, RevokedIsDead DEF SessionTypeOK
<1>3. \A t \in TokenIds : sessions'[t] = IF t \in T THEN Revoked(t) ELSE sessions[t]
  OBVIOUS
<1>4. \A t \in TokenIds : /\ sessions'[t] = None <=> sessions[t] = None
                          /\ sessions[t] # None =>
                                /\ sessions'[t].live => sessions[t].live /\ t \notin T
                                /\ sessions'[t].from = sessions[t].from
                                /\ sessions'[t].born = sessions[t].born
  BY <1>1, <1>3, RevokedIsDead
<1>5. ExchangedIsDead'
  <2>1. \A t \in TokenIds : sessions[t] # None /\ sessions[t].from # 0 =>
            sessions[t].from \in TokenIds
    BY <1>1, SessionAssumption DEF SessionTypeOK, TokenRows, TokenIds
  <2> QED BY <1>1, <1>4, <2>1 DEF ExchangedIsDead
<1>6. settled' = settled \/ T = TokenIds => OnlyNewSessions'
  BY <1>1, <1>4 DEF OnlyNewSessions
<1> QED BY <1>2, <1>4, <1>5, <1>6

\* A login: it fails, or it has found the password right.
LEMMA SessionLogins ==
    ASSUME SessionInv, NEW h \in Handlers, Miss(h) \/ Hit(h)
    PROVE  SessionInv'
<1>0. /\ SessionTypeOK /\ settled <= account.password /\ ExchangedIsDead /\ OnlyNewSessions
      /\ MissesAreCounted /\ SessionCall(at[h], held[h]) /\ at[h] # "free"
      /\ account \in UserRows /\ account.password \in Passwords /\ account.fails \in Nat
      /\ settled \in Passwords /\ misses.count \in Nat /\ misses.last \in Clock
  BY DEF SessionInv, SessionTypeOK, UserRows, Miss, Hit
<1>1. UNCHANGED <<sessions, clock, settled>> /\ alone' = alone
  BY DEF Miss, Hit, Answer, Goto
<1>2. ExchangedIsDead' /\ OnlyNewSessions'
  BY <1>0, <1>1 DEF ExchangedIsDead, OnlyNewSessions
<1>3. CASE Miss(h)
  <2>1. PICK fails \in Nat : fails = held[h].fails + 1 /\ (alone => fails = account.fails + 1)
    BY <1>0, <1>3 DEF Miss, SessionCall
  <2>2. Counted(fails) \in Nat \cup {None}
    BY <1>0, SessionAssumption DEF Counted, SessionTypeOK, UserRows, Clock
  <2>3. /\ account' = [account EXCEPT !.fails = fails, !.until = Counted(fails)]
        /\ misses' = IF alone
                     THEN [count |-> IF LockIsOver THEN 1 ELSE misses.count + 1, last |-> clock]
                     ELSE misses
        /\ Goto(h, "free", None)
    BY <1>3, <2>1 DEF Miss, Answer
  <2>4. /\ account' \in UserRows /\ account'.password = account.password
        /\ account'.fails = fails /\ account'.until = Counted(fails)
    BY <1>0, <2>2, <2>3 DEF UserRows
  <2>5. /\ misses' \in [count : Nat, last : Clock] /\ misses'.count \in Nat
        /\ alone => misses'.count <= misses.count + 1 /\ misses'.last = clock
    BY <1>0, <2>3 DEF SessionTypeOK
  <2>6. SessionTypeOK' /\ settled' <= account'.password
    BY <1>0, <1>1, <2>4, <2>5 DEF SessionTypeOK, Clock
  <2>7. MissesAreCounted'
    <3>1. CASE alone
      <4>1. fails >= misses'.count /\ misses'.last = clock
        BY <1>0, <2>1, <2>5, <3>1 DEF MissesAreCounted
      <4>2. misses'.count >= LOGIN_FAIL_LIMIT => fails >= LOGIN_FAIL_LIMIT
        BY <2>5, <4>1, SessionAssumption
      <4> QED BY <1>1, <2>4, <4>1, <4>2 DEF MissesAreCounted, Counted
    <3>2. CASE ~alone
      BY <1>1, <3>2 DEF MissesAreCounted
    <3> QED BY <3>1, <3>2
  <2>8. GoOn
    BY <1>0, <1>1, <2>4, SessionAssumption DEF GoOn, Passwords
  <2>9. SessionCall("free", None)'
    BY DEF SessionCall
  <2> QED BY <1>0, <1>2, <2>3, <2>6, <2>7, <2>8, <2>9, SessionMove
<1>4. CASE Hit(h)
  <2>1. PICK x : x = held[h]
    OBVIOUS
  <2>2. /\ account' = [account EXCEPT !.fails = 0, !.until = None]
        /\ misses' = [misses EXCEPT !.count = 0]
        /\ Goto(h, "issue", x) /\ at[h] = "hit"
    BY <1>4, <2>1 DEF Hit
  <2>3. /\ account' \in UserRows /\ account'.password = account.password /\ account'.fails = 0
    BY <1>0, <2>2 DEF UserRows
  <2>4. misses' \in [count : Nat, last : Clock] /\ misses'.count = 0
    BY <1>0, <2>2 DEF SessionTypeOK
  <2>5. SessionTypeOK' /\ settled' <= account'.password
    BY <1>0, <1>1, <2>3, <2>4 DEF SessionTypeOK, Clock
  <2>6. MissesAreCounted'
    BY <2>3, <2>4, SessionAssumption DEF MissesAreCounted
  <2>7. GoOn
    BY <1>0, <1>1, <2>3, SessionAssumption DEF GoOn, Passwords
  <2>8. SessionCall("issue", x)'
    BY <1>0, <1>1, <2>1, <2>2 DEF SessionCall
  <2> QED BY <1>0, <1>2, <2>2, <2>5, <2>6, <2>7, <2>8, SessionMove
<1> QED BY <1>3, <1>4

LEMMA SessionOpens ==
    ASSUME SessionInv, NEW h \in Handlers, Issue(h)
    PROVE  SessionInv'
<1>0. /\ SessionTypeOK /\ settled <= account.password /\ ExchangedIsDead /\ OnlyNewSessions
      /\ MissesAreCounted /\ SessionCall(at[h], held[h]) /\ at[h] = "issue"
      /\ account.password \in Passwords
  BY DEF SessionInv, SessionTypeOK, UserRows, Issue
<1>1. PICK x : x = held[h]
  OBVIOUS
<1>2. /\ x.knew \in Passwords /\ x.token \in 0..MaxTokens /\ (alone => x.knew >= settled)
      /\ x.token # 0 => sessions[x.token] # None /\ ~sessions[x.token].live
      /\ alone /\ x.token # 0 => \A t \in TokenIds : sessions[t] # None =>
                                    sessions[t].from # x.token
  BY <1>0, <1>1 DEF SessionCall
<1>3. PICK t \in TokenIds :
          /\ sessions[t] = None
          /\ sessions' = [sessions EXCEPT ![t] =
                [live |-> TRUE, born |-> x.knew, from |-> x.token]]
  BY <1>1 DEF Issue
<1>4. PICK new \in TokenRows : /\ sessions' = [sessions EXCEPT ![t] = new]
                               /\ new.live /\ new.born = x.knew /\ new.from = x.token
  <2> DEFINE n == [live |-> TRUE, born |-> x.knew, from |-> x.token]
  <2>1. n \in TokenRows /\ n.live /\ n.born = x.knew /\ n.from = x.token
    BY <1>2 DEF TokenRows
  <2> QED BY <1>3, <2>1
<1>5. /\ UNCHANGED <<account, clock, settled, misses>> /\ alone' = alone
      /\ Goto(h, "free", None)
  BY DEF Issue, Answer, Goto
<1>6. /\ sessions'[t] = new /\ new # None
      /\ \A s \in TokenIds \ {t} : sessions'[s] = sessions[s]
      /\ sessions' \in [TokenIds -> TokenRows \cup {None}]
  BY <1>0, <1>4, SessionRowAssumption DEF SessionTypeOK
<1>7. SessionTypeOK' /\ settled' <= account'.password /\ MissesAreCounted'
  BY <1>0, <1>5, <1>6 DEF SessionTypeOK, MissesAreCounted, Clock
<1>8. ExchangedIsDead'
  <2>1. \A s \in TokenIds : sessions[s] # None /\ sessions[s].from # 0 =>
            sessions[s].from \in TokenIds \ {t}
    BY <1>0, <1>3, SessionAssumption DEF SessionTypeOK, TokenRows, TokenIds, ExchangedIsDead
  <2>2. x.token # 0 => x.token \in TokenIds \ {t}
    BY <1>2, <1>3, SessionAssumption DEF TokenIds
  <2>3. new.from # 0 => sessions'[new.from] # None /\ ~sessions'[new.from].live
    BY <1>2, <1>4, <1>6, <2>2
  <2> QED BY <1>0, <1>6, <2>1, <2>3 DEF ExchangedIsDead
<1>9. OnlyNewSessions'
  <2>1. CASE alone
    <3>1. new.born >= settled
      BY <1>2, <1>4, <2>1
    <3>2. \A s \in TokenIds : sessions[s] # None /\ new.from # 0 => sessions[s].from # new.from
      BY <1>2, <1>4, <2>1
    <3> QED BY <1>0, <1>5, <1>6, <2>1, <3>1, <3>2 DEF OnlyNewSessions
  <2>2. CASE ~alone
    BY <1>5, <2>2 DEF OnlyNewSessions
  <2> QED BY <2>1, <2>2
<1>10. GoOn
  BY <1>0, <1>3, <1>5, <1>6, SessionAssumption DEF GoOn, Passwords
<1>11. SessionCall("free", None)'
  BY DEF SessionCall
<1> QED BY <1>0, <1>5, <1>7, <1>8, <1>9, <1>10, <1>11, SessionMove

LEMMA SessionCloses ==
    ASSUME SessionInv, NEW h \in Handlers,
           Rotate(h) \/ RevokeAll(h) \/ \E t \in TokenIds : Logout(h, t)
    PROVE  SessionInv'
<1>0. /\ SessionTypeOK /\ settled <= account.password /\ MissesAreCounted
      /\ \A g \in Handlers : SessionCall(at[g], held[g])
      /\ account.password \in Passwords /\ settled \in Passwords
      /\ sessions = [t \in TokenIds |-> sessions[t]]
  BY DEF SessionInv, SessionTypeOK, UserRows
<1>1. UNCHANGED <<account, clock, misses>> /\ alone' = alone
  BY DEF Rotate, RevokeAll, Logout, Answer, Goto, requestVars
<1>2. MissesAreCounted'
  BY <1>0, <1>1 DEF MissesAreCounted
<1>3. CASE Rotate(h)
  <2>1. PICK x : x = held[h]
    OBVIOUS
  <2>2. /\ at[h] = "rotate" /\ Goto(h, "issue", x) /\ settled' = settled
        /\ sessions' = [sessions EXCEPT ![x.token] = Revoked(x.token)]
    BY <1>3, <2>1 DEF Rotate
  <2>3. /\ SessionCall("rotate", x) /\ x.token \in TokenIds
    BY <1>0, <2>1, <2>2, SessionAssumption DEF SessionCall, TokenIds
  <2>4. PICK T \in SUBSET TokenIds : T = {x.token}
    BY <2>3
  <2>5. sessions' = [t \in TokenIds |-> IF t \in T THEN Revoked(t) ELSE sessions[t]]
    BY <1>0, <2>2, <2>3, <2>4
  <2>6. /\ sessions' \in [TokenIds -> TokenRows \cup {None}]
        /\ ExchangedIsDead' /\ OnlyNewSessions'
        /\ \A t \in TokenIds : /\ sessions'[t] = None <=> sessions[t] = None
                               /\ sessions[t] # None =>
                                     /\ sessions'[t].live => sessions[t].live /\ t \notin T
                                     /\ sessions'[t].from = sessions[t].from
    BY <1>1, <2>2, <2>5, SomeRevoked
  <2>7. SessionTypeOK' /\ settled' <= account'.password
    BY <1>0, <1>1, <2>2, <2>6 DEF SessionTypeOK, Clock
  <2>8. GoOn
    BY <1>0, <1>1, <2>6, SessionAssumption DEF GoOn, Passwords
  <2>9. SessionCall("issue", x)'
    BY <1>1, <2>2, <2>3, <2>4, <2>6 DEF SessionCall
  <2> QED BY <1>2, <2>2, <2>6, <2>7, <2>8, <2>9, SessionMove
<1>4. CASE RevokeAll(h)
  <2>1. PICK x : x = held[h]
    OBVIOUS
  <2>2. /\ at[h] = "revoke" /\ Goto(h, "free", None)
        /\ sessions' = [t \in TokenIds |-> Revoked(t)]
        /\ settled' = IF x.knew > settled THEN x.knew ELSE settled
    BY <1>4, <2>1 DEF RevokeAll, Answer
  <2>3. x.knew \in Passwords /\ x.knew <= account.password
    BY <1>0, <2>1, <2>2 DEF SessionCall
  <2>4. PICK T \in SUBSET TokenIds : T = TokenIds
    OBVIOUS
  <2>5. sessions' = [t \in TokenIds |-> IF t \in T THEN Revoked(t) ELSE sessions[t]]
    BY <2>2, <2>4
  <2>6. /\ sessions' \in [TokenIds -> TokenRows \cup {None}]
        /\ ExchangedIsDead' /\ OnlyNewSessions'
        /\ \A t \in TokenIds : /\ sessions'[t] = None <=> sessions[t] = None
                               /\ sessions[t] # None =>
                                     (sessions'[t].live => sessions[t].live /\ t \notin T)
    BY <1>1, <2>4, <2>5, SomeRevoked
  <2>7. SessionTypeOK' /\ settled' <= account'.password
    BY <1>0, <1>1, <2>2, <2>3, <2>6 DEF SessionTypeOK, Clock
  <2>8. GoOn
    BY <1>0, <1>1, <2>6, SessionAssumption DEF GoOn, Passwords
  <2>9. SessionCall("free", None)'
    BY DEF SessionCall
  <2> QED BY <1>2, <2>2, <2>6, <2>7, <2>8, <2>9, SessionMove
<1>5. ASSUME NEW u \in TokenIds, Logout(h, u) PROVE SessionInv'
  <2>1. /\ UNCHANGED <<at, held, alone, settled>> /\ MayStart(h)
        /\ sessions' = [sessions EXCEPT ![u] = Revoked(u)]
    BY <1>5 DEF Logout, requestVars
  <2>2. PICK T \in SUBSET TokenIds : T = {u}
    OBVIOUS
  <2>3. sessions' = [t \in TokenIds |-> IF t \in T THEN Revoked(t) ELSE sessions[t]]
    BY <1>0, <2>1, <2>2
  <2>4. /\ sessions' \in [TokenIds -> TokenRows \cup {None}]
        /\ ExchangedIsDead' /\ OnlyNewSessions'
        /\ \A t \in TokenIds : /\ sessions'[t] = None <=> sessions[t] = None
                               /\ sessions[t] # None =>
                                     /\ sessions'[t].live => sessions[t].live /\ t \notin T
                                     /\ sessions'[t].from = sessions[t].from
    BY <2>1, <2>3, SomeRevoked
  <2>5. SessionTypeOK' /\ settled' <= account'.password /\ Slots'
    BY <1>0, <1>1, <2>1, <2>4 DEF SessionInv, SessionTypeOK, Clock, Slots, OneAtOnce
  <2>6. ASSUME NEW g \in Handlers PROVE SessionCall(at[g], held[g])'
    <3>1. PICK y : y = held[g] /\ y = held'[g] /\ at'[g] = at[g] /\ SessionCall(at[g], y)
      BY <1>0, <2>1
    <3>2. at[g] \in {"rotate", "issue"} /\ y.token # 0 => y.token \in TokenIds
      BY <3>1, SessionAssumption DEF SessionCall, TokenIds
    <3> QED BY <1>1, <2>1, <2>4, <3>1, <3>2 DEF SessionCall
  <2> QED BY <1>2, <2>4, <2>5, <2>6 DEF SessionInv
<1> QED BY <1>3, <1>4, <1>5

LEMMA SessionOthers ==
    ASSUME SessionInv, ClockAdvances \/ \E h \in Handlers : SetPassword(h)
    PROVE  SessionInv'
<1>0. /\ SessionTypeOK /\ settled <= account.password /\ ExchangedIsDead /\ OnlyNewSessions
      /\ MissesAreCounted /\ account.password \in Passwords /\ settled \in Passwords
  BY DEF SessionInv, SessionTypeOK, UserRows
<1>1. CASE ClockAdvances
  <2>1. clock' \in Clock /\ UNCHANGED <<at, held, alone, account, sessions, settled, misses>>
    BY <1>0, <1>1, SessionAssumption DEF ClockAdvances, requestVars, SessionTypeOK, Clock
  <2>2. SessionTypeOK' /\ Slots'
    BY <1>0, <2>1 DEF SessionInv, SessionTypeOK, Clock, Slots, OneAtOnce
  <2>3. ExchangedIsDead' /\ OnlyNewSessions' /\ MissesAreCounted' /\ settled' <= account'.password
    BY <1>0, <2>1 DEF ExchangedIsDead, OnlyNewSessions, MissesAreCounted
  <2>4. \A h \in Handlers : SessionCall(at[h], held[h])'
    BY <2>1 DEF SessionInv, SessionCall
  <2> QED BY <2>2, <2>3, <2>4 DEF SessionInv
<1>2. ASSUME NEW h \in Handlers, SetPassword(h) PROVE SessionInv'
  <2>1. PICK next \in Passwords : next = account.password + 1
    BY <1>0, <1>2, SessionAssumption DEF SetPassword, Passwords
  <2>2. /\ at[h] = "set" /\ Goto(h, "revoke", [knew |-> next])
        /\ account' = [password |-> next, fails |-> 0, until |-> None]
        /\ misses' = [misses EXCEPT !.count = 0]
        /\ UNCHANGED <<sessions, clock, settled>> /\ alone' = alone
    BY <1>2, <2>1 DEF SetPassword, Goto
  <2>3. account' \in UserRows /\ account'.password = next /\ account'.fails = 0
    BY <2>2 DEF UserRows
  <2>4. misses' \in [count : Nat, last : Clock] /\ misses'.count = 0
    BY <1>0, <2>2 DEF SessionTypeOK
  <2>5. account.password <= next /\ settled <= next
    BY <1>0, <2>1, SessionAssumption DEF Passwords
  <2>6. SessionTypeOK' /\ settled' <= account'.password /\ MissesAreCounted'
    BY <1>0, <2>2, <2>3, <2>4, <2>5, SessionAssumption
       DEF SessionTypeOK, Clock, MissesAreCounted
  <2>7. ExchangedIsDead' /\ OnlyNewSessions' /\ GoOn
    BY <1>0, <2>2, <2>3, <2>5 DEF ExchangedIsDead, OnlyNewSessions, GoOn
  <2>8. PICK x : x = [knew |-> next] /\ x.knew = next
    <3> DEFINE new == [knew |-> next]
    <3>1. new.knew = next
      OBVIOUS
    <3> QED BY <3>1
  <2>9. SessionCall("revoke", x)'
    BY <2>1, <2>3, <2>8, SessionAssumption DEF SessionCall, Passwords
  <2> QED BY <2>2, <2>6, <2>7, <2>8, <2>9, SessionMove
<1> QED BY <1>1, <1>2

LEMMA SessionInvariance == SessionSpec => []SessionInv
<1>1. SessionInv /\ [SessionNext]_sessionVars => SessionInv'
  <2>1. SessionInv /\ UNCHANGED sessionVars => SessionInv'
    BY DEF SessionInv, SessionTypeOK, Clock, Slots, OneAtOnce, ExchangedIsDead, OnlyNewSessions,
           MissesAreCounted, SessionCall, sessionVars, sessionRows, requestVars
  <2> QED BY <2>1, SessionReads, SessionLogins, SessionOpens, SessionCloses, SessionOthers
          DEF SessionNext, SessionStep
<1> QED BY <1>1, SessionInit0, PTL DEF SessionSpec

\* A refresh token that was exchanged is dead; while requests do not overlap, it
\* is exchanged once and no session from before a confirmed reset or change of
\* the password goes on after it (auth.service.ts), however many there are.
THEOREM OldSessionsAreOver == SessionSpec => []OldSessionsEnd
<1>1. SessionInv => OldSessionsEnd
  BY DEF SessionInv, ExchangedIsDead, OnlyNewSessions, OldSessionsEnd
<1> QED BY <1>1, SessionInvariance, PTL

\* While requests do not overlap, the account locks after LOGIN_FAIL_LIMIT wrong
\* passwords in a row since the last lock ended, and for its time, whatever the
\* limit and the time are.
THEOREM LocksInTime == SessionSpec => []LockedInTime
<1>1. SessionInv => LockedInTime
  <2> SUFFICES ASSUME SessionInv, alone, misses.count >= LOGIN_FAIL_LIMIT,
                      clock < misses.last + LockHours
               PROVE  Locked(account)
    BY DEF LockedInTime
  <2>1. /\ account.fails >= misses.count /\ account.until = misses.last + LockHours
        /\ account.fails \in Nat /\ misses.count \in Nat
        /\ misses.last \in Nat /\ clock \in Nat
    BY SessionAssumption DEF SessionInv, SessionTypeOK, UserRows, Clock, MissesAreCounted
  <2>2. account.fails >= LOGIN_FAIL_LIMIT
    BY <2>1, SessionAssumption
  <2> QED BY <2>1, <2>2, SessionAssumption DEF Locked
<1> QED BY <1>1, SessionInvariance, PTL

-----------------------------------------------------------------------------
(* The timetable.  What a request found in its look-ups holds of every     *)
(* entry but those written since it came, which missed[h] remembers.       *)

LEMMA EntryColumns ==
    ASSUME NEW old \in ScheduleEntries, NEW row \in ScheduleEntries, NEW sets \in SUBSET Columns,
           NEW new, new = [c \in Columns |-> IF c \in sets THEN row[c] ELSE old[c]]
    PROVE  /\ new \in ScheduleEntries
           /\ (\A c \in Columns \ sets : row[c] = old[c]) => new = row
<1>1. row = [c \in Columns |-> row[c]]
  BY DEF ScheduleEntries, Columns
<1>2. new \in ScheduleEntries
  BY DEF ScheduleEntries, Columns
<1> QED BY <1>1, <1>2

\* Entries with a period in common overlap for the academic service.
LEMMA SharingOverlaps ==
    ASSUME NEW e \in ScheduleEntries, NEW f \in ScheduleEntries, SharePeriod(e, f)
    PROVE  hasOverlap(e, f)
<1>1. e.from \in Nat /\ e.to \in Nat /\ f.from \in Nat /\ f.to \in Nat
  BY TimetableAssumption DEF ScheduleEntries, Periods
<1>2. PICK p \in (e.from .. e.to) \cap (f.from .. f.to) : TRUE
  BY DEF SharePeriod
<1> QED BY <1>1, <1>2 DEF hasOverlap

Looking == {"teacher", "room", "day", "write"}

\* The entries an order was compared with: all others, but those it missed.
Known(x, gone) == {j \in EntryIds \ gone : j # x.id /\ timetable[j] # None}

\* An order still fits the entry it changes, and what it was compared with is the
\* timetable as it stands, unless they are among the entries it missed.
TimetableCall(call, x, gone) ==
    /\ call \in Looking => /\ x.id \in 0..MaxEntries /\ x.row \in ScheduleEntries
                           /\ x.sets \in SUBSET Columns /\ x.by \in ScheduleServices
    /\ call \in {"teacher", "room"} => x.by = "academic" /\ x.year = YearOf[x.row.group]
    /\ call = "day" => x.by = "lms"
    /\ call = "remove" => x.id \in EntryIds
    /\ call \in Looking /\ x.id # 0 /\ x.id \notin gone =>
          /\ timetable[x.id] # None
          /\ \A c \in Columns \ x.sets : x.row[c] = timetable[x.id][c]
    /\ call = "room" =>
          \A j \in Known(x, gone) :
              timetable[j].teacher = x.row.teacher /\ timetable[j].year = x.year =>
                  ~hasOverlap(x.row, timetable[j])
    /\ call = "write" => \A j \in Known(x, gone) : Fits(x.by, x.row, timetable[j])

\* Only a request at work misses anything, and only while requests overlap.
MissedOK == /\ alone \in BOOLEAN
            /\ \A h \in Handlers : at[h] = "free" \/ alone => missed[h] = {}

TimetableInv == /\ TimetableTypeOK /\ Slots /\ MissedOK /\ TimetableClear
                /\ \A h \in Handlers : TimetableCall(at[h], held[h], missed[h])

LEMMA TimetableInit0 == TimetableInit => TimetableInv
<1> SUFFICES ASSUME TimetableInit PROVE TimetableInv
  OBVIOUS
<1>1. Slots /\ \A h \in Handlers : at[h] = "free"
  BY SlotsInit DEF TimetableInit
<1>2. TimetableTypeOK /\ TimetableClear /\ MissedOK
  <2>1. alone \in BOOLEAN
    BY Zenon DEF TimetableInit, RequestsInit
  <2> QED BY <2>1 DEF TimetableInit, TimetableTypeOK, TimetableClear, MissedOK, ScheduleServices
<1>3. \A h \in Handlers : TimetableCall(at[h], held[h], missed[h])
  BY <1>1 DEF TimetableCall, Looking
<1> QED BY <1>1, <1>2, <1>3 DEF TimetableInv

\* A request goes on, and no row is written.
LEMMA TimetableStays ==
    ASSUME TimetableInv, NEW h \in Handlers, NEW call, NEW x, Goto(h, call, x),
           MayStart(h) \/ at[h] # "free", UNCHANGED <<timetable, compared>>,
           \/ UNCHANGED missed /\ call # "free"
           \/ missed' = [missed EXCEPT ![h] = {}] /\ call = "free",
           TimetableCall(call, x, missed[h])
    PROVE  TimetableInv'
<1>1. /\ Slots' /\ alone' = alone /\ at'[h] = call /\ held'[h] = x
      /\ \A g \in Handlers \ {h} : at'[g] = at[g] /\ held'[g] = held[g]
  BY SlotsMove DEF TimetableInv
<1>2. /\ missed' \in [Handlers -> SUBSET EntryIds]
      /\ \A g \in Handlers \ {h} : missed'[g] = missed[g]
      /\ call = "free" => missed'[h] = {}
      /\ call # "free" => missed'[h] = missed[h]
  BY DEF TimetableInv, TimetableTypeOK
<1>3. TimetableTypeOK' /\ TimetableClear'
  BY <1>1, <1>2 DEF TimetableInv, TimetableTypeOK, TimetableClear
<1>4. MissedOK'
  BY <1>1, <1>2 DEF TimetableInv, MissedOK
<1>5. ASSUME NEW g \in Handlers \ {h} PROVE TimetableCall(at[g], held[g], missed[g])'
  <2>1. TimetableCall(at[g], held[g], missed[g])
    BY DEF TimetableInv
  <2> QED BY <1>1, <1>2, <1>5, <2>1 DEF TimetableCall, Looking, Known
<1>6. TimetableCall(at[h], held[h], missed[h])'
  BY <1>1, <1>2 DEF TimetableCall, Looking, Known
<1> QED BY <1>1, <1>3, <1>4, <1>5, <1>6 DEF TimetableInv

\* A request is over, and no row is written.
LEMMA TimetableStops ==
    ASSUME TimetableInv, NEW h \in Handlers, at[h] # "free", Stops(h)
    PROVE  TimetableInv'
<1>1. TimetableCall("free", None, missed[h])
  BY DEF TimetableCall, Looking
<1> QED BY <1>1, TimetableStays DEF Stops, Answer

\* An order as a service takes it.
LEMMA OrderTaken ==
    ASSUME TimetableTypeOK, NEW id \in 0..MaxEntries, NEW row \in ScheduleEntries,
           NEW sets \in SUBSET Columns, NEW year, NEW gone,
           id # 0 => /\ timetable[id] # None
                     /\ \A c \in Columns \ sets : row[c] = timetable[id][c],
           NEW call, NEW by,
           \/ call = "teacher" /\ by = "academic" /\ year = YearOf[row.group]
           \/ call = "day" /\ by = "lms"
    PROVE  TimetableCall(call, Order(by, id, row, sets, year), gone)
<1>1. PICK x : /\ x = Order(by, id, row, sets, year) /\ x.id = id /\ x.row = row
               /\ x.sets = sets /\ x.year = year /\ x.by = by
  <2> DEFINE new == [by |-> by, id |-> id, row |-> row, sets |-> sets, year |-> year]
  <2>1. new.id = id /\ new.row = row /\ new.sets = sets /\ new.year = year /\ new.by = by
    OBVIOUS
  <2> QED BY <2>1 DEF Order
<1> QED BY <1>1 DEF TimetableCall, Looking, ScheduleServices

LEMMA TimetableOrders ==
    ASSUME TimetableInv, NEW h \in Handlers,
           \/ AcademicCreate(h) \/ LmsCreate(h)
           \/ \E i \in EntryIds : AcademicUpdate(h, i) \/ LmsUpdate(h, i) \/ RemoveRead(h, i)
    PROVE  TimetableInv'
<1>0. /\ TimetableTypeOK /\ 0 \in 0..MaxEntries
      /\ EntryIds \subseteq 0..MaxEntries /\ 0 \notin EntryIds
      /\ \A row \in Asked[alone] : row \in ScheduleEntries
  <2>1. alone \in BOOLEAN
    BY Zenon DEF TimetableInv, MissedOK
  <2>2. Asked[alone] \in SUBSET ScheduleEntries
    BY <2>1, AskedAssumption, Zenon
  <2>3. 0 \in 0..MaxEntries /\ EntryIds \subseteq 0..MaxEntries /\ 0 \notin EntryIds
    BY TimetableAssumption DEF EntryIds
  <2> QED BY <2>2, <2>3 DEF TimetableInv
<1>1. MayStart(h) /\ UNCHANGED <<timetable, compared, missed>>
  BY DEF AcademicCreate, LmsCreate, AcademicUpdate, LmsUpdate, RemoveRead, timetableRows
<1>2. CASE AcademicCreate(h)
  <2>1. PICK row \in ScheduleEntries :
            /\ row.year = YearOf[row.group]
            /\ Goto(h, "teacher", Order("academic", 0, row, Columns, row.year))
    BY <1>0, <1>2 DEF AcademicCreate
  <2>2. PICK sets \in SUBSET Columns : sets = Columns
    OBVIOUS
  <2>3. TimetableCall("teacher", Order("academic", 0, row, sets, row.year), missed[h])
    BY <1>0, <2>1, OrderTaken
  <2> QED BY <1>1, <2>1, <2>2, <2>3, TimetableStays
<1>3. CASE LmsCreate(h)
  <2>1. PICK row \in ScheduleEntries :
            Goto(h, "day", Order("lms", 0, row, Columns, row.year))
    BY <1>0, <1>3 DEF LmsCreate
  <2>2. PICK sets \in SUBSET Columns : sets = Columns
    OBVIOUS
  <2>3. TimetableCall("day", Order("lms", 0, row, sets, row.year), missed[h])
    BY <1>0, <2>1, OrderTaken
  <2> QED BY <1>1, <2>1, <2>2, <2>3, TimetableStays
<1>4. ASSUME NEW i \in EntryIds, AcademicUpdate(h, i) PROVE TimetableInv'
  <2>1. PICK row \in ScheduleEntries :
            /\ timetable[i] # None
            /\ row.group = timetable[i].group /\ row.year = timetable[i].year
            /\ Goto(h, "teacher", Order("academic", i, row, Columns \ {"group", "year"},
                                        YearOf[row.group]))
    BY <1>0, <1>4 DEF AcademicUpdate
  <2>2. \A c \in Columns \ (Columns \ {"group", "year"}) : row[c] = timetable[i][c]
    BY <2>1 DEF Columns
  <2>3. PICK sets \in SUBSET Columns : sets = Columns \ {"group", "year"}
    OBVIOUS
  <2>4. TimetableCall("teacher", Order("academic", i, row, sets, YearOf[row.group]), missed[h])
    BY <1>0, <2>1, <2>2, <2>3, OrderTaken
  <2> QED BY <1>1, <2>1, <2>3, <2>4, TimetableStays
<1>5. ASSUME NEW i \in EntryIds, LmsUpdate(h, i) PROVE TimetableInv'
  <2>1. PICK row \in ScheduleEntries :
            /\ timetable[i] # None
            /\ Goto(h, "day", Order("lms", i, row,
                                    {c \in Columns : row[c] # timetable[i][c]}, row.year))
    BY <1>0, <1>5 DEF LmsUpdate
  <2>2. PICK sets \in SUBSET Columns : sets = {c \in Columns : row[c] # timetable[i][c]}
    OBVIOUS
  <2>3. TimetableCall("day", Order("lms", i, row, sets, row.year), missed[h])
    BY <1>0, <2>1, <2>2, OrderTaken
  <2> QED BY <1>1, <2>1, <2>2, <2>3, TimetableStays
<1>6. ASSUME NEW i \in EntryIds, RemoveRead(h, i) PROVE TimetableInv'
  <2>1. TimetableCall("remove", [id |-> i], missed[h]) /\ Goto(h, "remove", [id |-> i])
    BY <1>6 DEF RemoveRead, TimetableCall, Looking
  <2> QED BY <1>1, <2>1, TimetableStays
<1> QED BY <1>2, <1>3, <1>4, <1>5, <1>6

LEMMA TimetableAsks ==
    ASSUME TimetableInv, NEW h \in Handlers,
           AskTeacher(h) \/ AskRoom(h) \/ AskDay(h) \/ TimetableFails(h)
    PROVE  TimetableInv'
<1>0. /\ TimetableTypeOK /\ TimetableCall(at[h], held[h], missed[h]) /\ at[h] # "free"
  BY DEF TimetableInv, AskTeacher, AskRoom, AskDay, TimetableFails
<1>1. PICK x : x = held[h]
  OBVIOUS
<1>2. PICK gone : gone = missed[h]
  OBVIOUS
\* An entry it knows was among those it found.
<1>3. \A j \in Known(x, gone) : timetable[j] \in Others(x.id) /\ timetable[j] \in ScheduleEntries
  BY <1>0 DEF Known, Others, TimetableTypeOK
\* The order goes on as it is.
<1>4. ASSUME at[h] \in Looking, NEW call \in {"room", "write"}, Goto(h, call, x),
             UNCHANGED timetableRows,
             call = "room" => at[h] = "teacher",
             call = "room" => \A j \in Known(x, gone) :
                 timetable[j].teacher = x.row.teacher /\ timetable[j].year = x.year =>
                     ~hasOverlap(x.row, timetable[j]),
             call = "write" => \A j \in Known(x, gone) : Fits(x.by, x.row, timetable[j])
      PROVE  TimetableInv'
  <2>1. TimetableCall(call, x, missed[h])
    BY <1>0, <1>1, <1>2, <1>4 DEF TimetableCall, Looking
  <2> QED BY <1>0, <1>4, <2>1, TimetableStays DEF timetableRows
<1>5. CASE AskTeacher(h)
  <2>1. /\ at[h] = "teacher" /\ x.row \in ScheduleEntries
        /\ x.by = "academic" /\ x.year = YearOf[x.row.group]
    BY <1>0, <1>1, <1>5 DEF AskTeacher, TimetableCall, Looking
  <2>2. CASE /\ Goto(h, IF x.row.room = None THEN "write" ELSE "room", x)
             /\ UNCHANGED timetableRows
             /\ ~ \E e \in Others(x.id) : /\ e.teacher = x.row.teacher /\ e.year = x.year
                                          /\ hasOverlap(x.row, e)
    <3>1. \A j \in Known(x, gone) :
              timetable[j].teacher = x.row.teacher /\ timetable[j].year = x.year =>
                  ~hasOverlap(x.row, timetable[j])
      BY <1>3, <2>2
    <3>2. CASE x.row.room # None
      BY <1>4, <2>1, <2>2, <3>1, <3>2 DEF Looking
    <3>3. CASE x.row.room = None
      <4>1. \A j \in Known(x, gone) : Fits(x.by, x.row, timetable[j])
        BY <1>3, <2>1, <3>1, <3>3, SharingOverlaps DEF Fits, Apart
      <4> QED BY <1>4, <2>1, <2>2, <3>3, <4>1 DEF Looking
    <3> QED BY <3>2, <3>3
  <2>3. Stops(h) \/ (/\ Goto(h, IF x.row.room = None THEN "write" ELSE "room", x)
                     /\ UNCHANGED timetableRows
                     /\ ~ \E e \in Others(x.id) : /\ e.teacher = x.row.teacher
                                                  /\ e.year = x.year /\ hasOverlap(x.row, e))
    BY <1>1, <1>5, Zenon DEF AskTeacher
  <2> QED BY <1>0, <2>2, <2>3, TimetableStops
<1>6. CASE AskRoom(h)
  <2>1. /\ at[h] = "room" /\ x.row \in ScheduleEntries
        /\ x.by = "academic" /\ x.year = YearOf[x.row.group]
        /\ \A j \in Known(x, gone) :
              timetable[j].teacher = x.row.teacher /\ timetable[j].year = x.year =>
                  ~hasOverlap(x.row, timetable[j])
    BY <1>0, <1>1, <1>2, <1>6 DEF AskRoom, TimetableCall, Looking
  <2>2. CASE /\ Goto(h, "write", x) /\ UNCHANGED timetableRows
             /\ ~ \E e \in Others(x.id) : /\ e.room = x.row.room /\ e.year = x.year
                                          /\ hasOverlap(x.row, e)
    <3>1. \A j \in Known(x, gone) : Fits(x.by, x.row, timetable[j])
      BY <1>3, <2>1, <2>2, SharingOverlaps DEF Fits, Apart
    <3> QED BY <1>4, <2>1, <2>2, <3>1 DEF Looking
  <2>3. Stops(h) \/ (/\ Goto(h, "write", x) /\ UNCHANGED timetableRows
                     /\ ~ \E e \in Others(x.id) : /\ e.room = x.row.room
                                                  /\ e.year = x.year /\ hasOverlap(x.row, e))
    BY <1>1, <1>6, Zenon DEF AskRoom
  <2> QED BY <1>0, <2>2, <2>3, TimetableStops
<1>7. CASE AskDay(h)
  <2>1. at[h] = "day" /\ x.row \in ScheduleEntries /\ x.by = "lms"
    BY <1>0, <1>1, <1>7 DEF AskDay, TimetableCall, Looking
  <2>2. CASE /\ Goto(h, "write", x) /\ UNCHANGED timetableRows
             /\ \A e \in Others(x.id) : periodsOverlap(e, x.row) =>
                   /\ e.teacher # x.row.teacher /\ e.group # x.row.group
                   /\ x.row.room = None \/ e.room # x.row.room
    <3>1. \A j \in Known(x, gone) : Fits(x.by, x.row, timetable[j])
      BY <1>3, <2>1, <2>2 DEF Fits, Apart, periodsOverlap
    <3> QED BY <1>4, <2>1, <2>2, <3>1 DEF Looking
  <2>3. Stops(h) \/ (/\ Goto(h, "write", x) /\ UNCHANGED timetableRows
                     /\ \A e \in Others(x.id) : periodsOverlap(e, x.row) =>
                           /\ e.teacher # x.row.teacher /\ e.group # x.row.group
                           /\ x.row.room = None \/ e.room # x.row.room)
    BY <1>1, <1>7 DEF AskDay
  <2> QED BY <1>0, <2>2, <2>3, TimetableStops
<1>8. CASE TimetableFails(h)
  BY <1>0, <1>8, TimetableStops DEF TimetableFails
<1> QED BY <1>5, <1>6, <1>7, <1>8

\* A row is written: the request that does it, and all the others.
LEMMA RowWritten ==
    ASSUME TimetableInv, NEW h \in Handlers, at[h] # "free",
           NEW i \in EntryIds, NEW row \in ScheduleEntries \cup {None}, Writes(h, i, row),
           row # None => held[h].by \in ScheduleServices,
           row # None /\ i \notin missed[h] =>
               \A j \in EntryIds \ (missed[h] \cup {i}) :
                   timetable[j] # None => Fits(held[h].by, row, timetable[j])
    PROVE  TimetableInv'
<1>0. /\ TimetableTypeOK /\ TimetableClear /\ MissedOK /\ Goto(h, "free", None)
  BY DEF TimetableInv, Writes, Answer
<1>1. /\ Slots' /\ alone' = alone /\ at'[h] = "free"
      /\ \A g \in Handlers \ {h} : at'[g] = at[g] /\ held'[g] = held[g]
      /\ alone => \A g \in Handlers \ {h} : at[g] = "free"
  BY <1>0, SlotsMove DEF TimetableInv
<1>2. /\ timetable'[i] = row /\ \A j \in EntryIds \ {i} : timetable'[j] = timetable[j]
      /\ timetable' \in [EntryIds -> ScheduleEntries \cup {None}]
  BY <1>0 DEF Writes, TimetableTypeOK
<1>3. /\ missed' \in [Handlers -> SUBSET EntryIds]
      /\ \A g \in Handlers : missed'[g] = IF g = h \/ at[g] = "free" THEN {}
                                          ELSE missed[g] \cup {i}
  BY <1>0 DEF Writes, TimetableTypeOK
<1>4. /\ \A j \in EntryIds \ {i} : /\ compared'[j].by = compared[j].by
                                   /\ compared'[j].of = compared[j].of \ {i}
      /\ compared'[i].of = IF row = None \/ i \in missed[h] THEN {}
                           ELSE EntryIds \ (missed[h] \cup {i})
      /\ row # None /\ i \notin missed[h] => compared'[i].by = held[h].by
      /\ compared' \in [EntryIds -> [by : ScheduleServices, of : SUBSET EntryIds]]
  <2>1. ASSUME NEW j \in EntryIds
        PROVE  /\ compared[j] \in [by : ScheduleServices, of : SUBSET EntryIds]
               /\ compared'[j] =
                    IF j # i THEN [compared[j] EXCEPT !.of = @ \ {i}]
                    ELSE IF row = None \/ i \in missed[h] THEN [by |-> "lms", of |-> {}]
                    ELSE [by |-> held[h].by, of |-> EntryIds \ (missed[h] \cup {i})]
    BY <1>0, <2>1 DEF Writes, TimetableTypeOK
  <2>2. compared' = [j \in EntryIds |-> compared'[j]]
    BY DEF Writes
  <2>3. ASSUME NEW j \in EntryIds \ {i}
        PROVE  /\ compared'[j].by = compared[j].by /\ compared'[j].of = compared[j].of \ {i}
               /\ compared'[j] \in [by : ScheduleServices, of : SUBSET EntryIds]
    <3>1. PICK c : /\ c = compared[j] /\ c \in [by : ScheduleServices, of : SUBSET EntryIds]
                   /\ compared'[j] = [c EXCEPT !.of = @ \ {i}]
      BY <2>1, <2>3
    <3>2. /\ [c EXCEPT !.of = @ \ {i}] \in [by : ScheduleServices, of : SUBSET EntryIds]
          /\ [c EXCEPT !.of = @ \ {i}].by = c.by
          /\ [c EXCEPT !.of = @ \ {i}].of = c.of \ {i}
      BY <3>1
    <3> QED BY <3>1, <3>2
  <2>4. CASE row = None \/ i \in missed[h]
    <3>1. compared'[i] = [by |-> "lms", of |-> {}]
      BY <2>1, <2>4
    <3>2. /\ compared'[i] \in [by : ScheduleServices, of : SUBSET EntryIds]
          /\ compared'[i].of = {}
      BY <3>1 DEF ScheduleServices
    <3> QED BY <2>2, <2>3, <2>4, <3>2
  <2>5. CASE row # None /\ i \notin missed[h]
    BY <2>1, <2>2, <2>3, <2>5
  <2> QED BY <2>4, <2>5
<1>5. TimetableTypeOK'
  BY <1>2, <1>3, <1>4 DEF TimetableTypeOK
<1>6. MissedOK'
  BY <1>0, <1>1, <1>3 DEF MissedOK
<1>7. alone => missed[h] = {}
  BY <1>0 DEF MissedOK
<1>8. TimetableClear'
  <2> SUFFICES ASSUME NEW j \in EntryIds, NEW k \in EntryIds, j # k,
                      timetable'[j] # None, timetable'[k] # None
               PROVE  /\ k \in compared'[j].of =>
                            Fits(compared'[j].by, timetable'[j], timetable'[k])
                      /\ alone => k \in compared'[j].of \/ j \in compared'[k].of
    BY <1>1 DEF TimetableClear, Fits, Apart, SharePeriod, periodsOverlap
  <2>1. CASE j # i /\ k # i
    BY <1>0, <1>2, <1>4, <2>1 DEF TimetableClear
  <2>2. CASE j = i
    <3>1. k # i /\ timetable'[k] = timetable[k] /\ timetable'[j] = row /\ row # None
      BY <1>2, <2>2
    <3>2. k \in compared'[j].of => i \notin missed[h] /\ k \notin missed[h]
      BY <1>4, <2>2, <3>1
    <3>3. alone => k \in compared'[j].of
      BY <1>4, <1>7, <2>2, <3>1
    <3> QED BY <1>4, <2>2, <3>1, <3>2, <3>3
  <2>3. CASE k = i
    <3>1. j # i /\ timetable'[k] = row /\ row # None /\ k \notin compared'[j].of
      BY <1>2, <1>4, <2>3
    <3>2. alone => j \in compared'[k].of
      BY <1>4, <1>7, <2>3, <3>1
    <3> QED BY <3>1, <3>2
  <2> QED BY <2>1, <2>2, <2>3
<1>9. ASSUME NEW g \in Handlers PROVE TimetableCall(at[g], held[g], missed[g])'
  <2>1. CASE g = h \/ at[g] = "free"
    <3>1. at'[g] = "free"
      BY <1>1, <2>1
    <3> QED BY <3>1 DEF TimetableCall, Looking
  <2>2. CASE g # h /\ at[g] # "free"
    <3>1. /\ TimetableCall(at[g], held[g], missed[g]) /\ at'[g] = at[g] /\ held'[g] = held[g]
          /\ missed'[g] = missed[g] \cup {i}
      BY <1>1, <1>3, <2>2 DEF TimetableInv
    <3>2. PICK x : x = held[g] /\ x = held'[g]
      BY <3>1
    <3>3. \A j \in Known(x, missed[g])' : /\ j \in Known(x, missed[g])
                                           /\ timetable'[j] = timetable[j]
      BY <1>2, <3>1 DEF Known
    <3>4. at[g] \in Looking /\ x.id # 0 /\ x.id \notin missed'[g] =>
              timetable'[x.id] = timetable[x.id]
      <4>1. at[g] \in Looking /\ x.id # 0 => x.id \in EntryIds
        BY <3>1, <3>2, TimetableAssumption DEF TimetableCall, EntryIds
      <4> QED BY <1>2, <3>1, <4>1
    <3>5. TimetableCall(at[g], x, missed[g])
      BY <3>1, <3>2
    <3>6. at[g] = "write" => \A j \in Known(x, missed[g])' : Fits(x.by, x.row, timetable'[j])
      BY <3>3, <3>5 DEF TimetableCall
    <3>7. at[g] = "room" => \A j \in Known(x, missed[g])' :
              timetable'[j].teacher = x.row.teacher /\ timetable'[j].year = x.year =>
                  ~hasOverlap(x.row, timetable'[j])
      BY <3>3, <3>5 DEF TimetableCall
    <3>8. at[g] \in Looking /\ x.id # 0 /\ x.id \notin missed'[g] =>
              /\ timetable'[x.id] # None
              /\ \A c \in Columns \ x.sets : x.row[c] = timetable'[x.id][c]
      BY <3>1, <3>4, <3>5 DEF TimetableCall
    <3> QED BY <3>1, <3>2, <3>5, <3>6, <3>7, <3>8 DEF TimetableCall
  <2> QED BY <2>1, <2>2
<1> QED BY <1>1, <1>5, <1>6, <1>8, <1>9 DEF TimetableInv

LEMMA TimetableWrites ==
    ASSUME TimetableInv, NEW h \in Handlers, InsertEntry(h) \/ UpdateEntry(h) \/ Remove(h)
    PROVE  TimetableInv'
<1>0. /\ TimetableTypeOK /\ TimetableCall(at[h], held[h], missed[h]) /\ at[h] # "free"
  BY DEF TimetableInv, InsertEntry, UpdateEntry, Remove
<1>1. PICK x : x = held[h]
  OBVIOUS
<1>2. CASE Remove(h)
  <2>1. held[h].id \in EntryIds /\ Writes(h, held[h].id, None)
    BY <1>0, <1>2 DEF Remove, TimetableCall
  <2> QED BY <1>0, <2>1, RowWritten
<1>3. ASSUME at[h] = "write"
      PROVE  /\ x.id \in 0..MaxEntries /\ x.row \in ScheduleEntries
             /\ x.sets \in SUBSET Columns /\ x.by \in ScheduleServices
             /\ x.id # 0 /\ x.id \notin missed[h] =>
                   \A c \in Columns \ x.sets : x.row[c] = timetable[x.id][c]
             /\ \A j \in EntryIds \ (missed[h] \cup {x.id}) :
                   timetable[j] # None => Fits(x.by, x.row, timetable[j])
  BY <1>0, <1>1, <1>3 DEF TimetableCall, Looking, Known
<1>4. CASE InsertEntry(h)
  <2>1. PICK i \in EntryIds : Writes(h, i, x.row) /\ timetable[i] = None
    BY <1>1, <1>4 DEF InsertEntry, Unused
  <2>2. x.id = 0 /\ at[h] = "write" /\ 0 \notin EntryIds
    BY <1>1, <1>4, TimetableAssumption DEF InsertEntry, EntryIds
  <2>3. \A j \in EntryIds \ (missed[h] \cup {i}) :
            timetable[j] # None => Fits(x.by, x.row, timetable[j])
    BY <1>3, <2>2
  <2> QED BY <1>0, <1>1, <1>3, <2>1, <2>2, <2>3, RowWritten
<1>5. CASE UpdateEntry(h)
  <2>1. PICK i \in EntryIds :
            /\ i = x.id /\ timetable[i] # None
            /\ Writes(h, i, [c \in Columns |-> IF c \in x.sets THEN x.row[c]
                                               ELSE timetable[i][c]])
    BY <1>1, <1>5 DEF UpdateEntry
  <2>2. at[h] = "write" /\ i # 0
    BY <1>5, <2>1, TimetableAssumption DEF UpdateEntry, EntryIds
  <2>3. PICK old \in ScheduleEntries : old = timetable[i]
    BY <1>0, <2>1 DEF TimetableTypeOK
  <2>4. PICK y \in ScheduleEntries, sets \in SUBSET Columns : y = x.row /\ sets = x.sets
    BY <1>3, <2>2
  <2>5. PICK row : /\ row = [c \in Columns |-> IF c \in sets THEN y[c] ELSE old[c]]
                   /\ Writes(h, i, row)
    BY <2>1, <2>3, <2>4
  <2>6. row \in ScheduleEntries /\ ((\A c \in Columns \ sets : y[c] = old[c]) => row = y)
    BY <2>5, EntryColumns
  <2>7. i \notin missed[h] => row = x.row
    BY <1>3, <2>1, <2>2, <2>3, <2>4, <2>6
  <2>8. i \notin missed[h] => \A j \in EntryIds \ (missed[h] \cup {i}) :
            timetable[j] # None => Fits(x.by, row, timetable[j])
    BY <1>3, <2>1, <2>2, <2>7
  <2> QED BY <1>0, <1>1, <1>3, <2>2, <2>5, <2>6, <2>8, RowWritten
<1> QED BY <1>2, <1>4, <1>5

LEMMA TimetableInvariance == TimetableSpec => []TimetableInv
<1>1. TimetableInv /\ [TimetableNext]_timetableVars => TimetableInv'
  <2>1. TimetableInv /\ UNCHANGED timetableVars => TimetableInv'
    <3> SUFFICES ASSUME TimetableInv, UNCHANGED timetableVars PROVE TimetableInv'
      OBVIOUS
    <3>1. UNCHANGED <<at, held, alone, timetable, compared, missed>>
      BY DEF timetableVars, timetableRows, requestVars
    <3>2. TimetableTypeOK' /\ Slots' /\ TimetableClear' /\ MissedOK'
      BY <3>1 DEF TimetableInv, TimetableTypeOK, Slots, OneAtOnce, TimetableClear, MissedOK
    <3>3. ASSUME NEW h \in Handlers PROVE TimetableCall(at[h], held[h], missed[h])'
      BY <3>1 DEF TimetableInv, TimetableCall, Known
    <3> QED BY <3>2, <3>3 DEF TimetableInv
  <2> QED BY <2>1, TimetableOrders, TimetableAsks, TimetableWrites
          DEF TimetableNext, TimetableStep
<1> QED BY <1>1, TimetableInit0, PTL DEF TimetableSpec

\* Of two entries, the one written later keeps the rule of the service that wrote it
\* (schedule.service.ts: teacher and room, in the year of the class, the last period
\* included; schedules.service.ts: teacher, room and class, in every year, the last
\* period excluded), unless two requests that overlapped wrote them; without overlap
\* no pair is exempt, for any length of the day and any number of entries.
THEOREM TimetableStaysClear == TimetableSpec => []TimetableClear
BY TimetableInvariance, PTL DEF TimetableInv
-----------------------------------------------------------------------------
(* Files.  What a removal knows of the rows dates from its first query, so   *)
(* it may miss a path that was saved since then, and no other.               *)

\* A row's path is as old as it says, and belongs to a file that was stored.
PathsHold ==
    \A t \in Tables, f \in Uploads :
        savedOn[t][f] # None => mtime[f] # None /\ savedOn[t][f] <= day

\* A file that is gone had outlived its retention.
GoneWereOld ==
    \A f \in Uploads : /\ f \in disk => mtime[f] # None
                       /\ mtime[f] # None /\ f \notin disk => PastRetention(f)

\* Since this day nobody had saved the path in a watched row that still names it.
NamedSince(t, f, began) == savedOn[t][f] # None => savedOn[t][f] >= began

CleanupCall(call, x) ==
    /\ call \in {"free", "paths", "delete"}
    /\ call # "free" => x.began \in CalendarDays /\ x.began <= day
    /\ call = "paths" =>
          /\ x \in [unread : SUBSET Watched, referenced : SUBSET Uploads, began : CalendarDays]
          /\ \A t \in Watched \ x.unread, f \in Uploads \ x.referenced : NamedSince(t, f, x.began)
    /\ call = "delete" =>
          /\ x \in [orphans : SUBSET Uploads, began : CalendarDays]
          /\ \A f \in x.orphans :
                /\ mtime[f] # None /\ PastRetention(f)
                /\ \A t \in Watched : NamedSince(t, f, x.began)

FileInv == /\ FileTypeOK /\ Slots /\ PathsHold /\ GoneWereOld /\ NamedFilesStay
           /\ \A h \in Handlers : CleanupCall(at[h], held[h])

LEMMA FileInit0 == FileInit => FileInv
<1> SUFFICES ASSUME FileInit PROVE FileInv
  OBVIOUS
<1>1. Slots /\ \A h \in Handlers : at[h] = "free"
  BY SlotsInit DEF FileInit
<1>2. FileTypeOK
  BY FileAssumption DEF FileInit, FileTypeOK, CalendarDays
<1>3. PathsHold /\ GoneWereOld /\ NamedFilesStay
  BY FileAssumption DEF FileInit, PathsHold, GoneWereOld, NamedFilesStay
<1>4. \A h \in Handlers : CleanupCall(at[h], held[h])
  BY <1>1 DEF CleanupCall
<1> QED BY <1>1, <1>2, <1>3, <1>4 DEF FileInv

\* Uploads, rows and the calendar: a row that gets a path after a removal has
\* begun gets it on that day or later.
LEMMA FileRowSteps ==
    ASSUME FileInv,
           \/ \E f \in Uploads : \/ Upload(f)
                                 \/ \E t \in Tables : SavePath(t, f) \/ DropPath(t, f)
           \/ DayPasses
    PROVE  FileInv'
<1>0. /\ FileTypeOK /\ PathsHold /\ GoneWereOld /\ NamedFilesStay /\ Slots
      /\ \A h \in Handlers : CleanupCall(at[h], held[h])
      /\ UNCHANGED <<at, held, alone, longest>>
  BY DEF FileInv, Upload, SavePath, DropPath, DayPasses, requestVars
<1>1. Slots'
  BY <1>0 DEF Slots, OneAtOnce
<1>2. ASSUME NEW f \in Uploads, Upload(f) PROVE FileInv'
  <2>1. /\ mtime' = [mtime EXCEPT ![f] = day] /\ disk' = disk \cup {f} /\ mtime[f] = None
        /\ UNCHANGED <<savedOn, day>>
    BY <1>2 DEF Upload
  <2>2. \A g \in Uploads : mtime[g] # None => mtime'[g] = mtime[g]
    BY <1>0, <2>1 DEF FileTypeOK
  <2>3. FileTypeOK' /\ PathsHold' /\ GoneWereOld'
    BY <1>0, <2>1, <2>2, FileAssumption, FileRowAssumption
       DEF FileTypeOK, PathsHold, GoneWereOld, PastRetention, CalendarDays
  <2>4. NamedFilesStay'
    BY <1>0, <2>1, <2>2, FileAssumption DEF NamedFilesStay, PathsHold
  <2>5. \A h \in Handlers : CleanupCall(at[h], held[h])'
    BY <1>0, <2>1, <2>2 DEF CleanupCall, NamedSince, PastRetention
  <2> QED BY <1>1, <2>3, <2>4, <2>5 DEF FileInv
<1>3. ASSUME NEW f \in Uploads, NEW t \in Tables, SavePath(t, f) PROVE FileInv'
  <2>1. /\ savedOn' = [savedOn EXCEPT ![t][f] = day] /\ mtime[f] # None /\ savedOn[t][f] = None
        /\ UNCHANGED <<mtime, disk, day>>
    BY <1>3 DEF SavePath
  <2>2. \A s \in Tables, g \in Uploads :
           savedOn'[s][g] = IF s = t /\ g = f THEN day ELSE savedOn[s][g]
    BY <1>0, <2>1 DEF FileTypeOK
  <2>3. FileTypeOK' /\ PathsHold' /\ GoneWereOld'
    BY <1>0, <2>1, <2>2, FileRowAssumption
       DEF FileTypeOK, PathsHold, GoneWereOld, PastRetention, CalendarDays
  <2>4. NamedFilesStay'
    <3>1. /\ day \in CalendarDays /\ longest \in CalendarDays
          /\ \A g \in Uploads : mtime[g] \in CalendarDays \cup {None}
      BY <1>0 DEF FileTypeOK
    <3>2. f \in disk \/ day + longest >= mtime[f] + RetentionDays
      BY <1>0, <2>1, <3>1, FileAssumption DEF GoneWereOld, PastRetention, CalendarDays
    <3> QED BY <1>0, <2>1, <2>2, <3>2, FileAssumption DEF NamedFilesStay
  <2>5. ASSUME NEW h \in Handlers PROVE CleanupCall(at[h], held[h])'
    <3>1. CleanupCall(at[h], held[h]) /\ day \in CalendarDays
      BY <1>0 DEF FileTypeOK
    <3>2. at[h] # "free" => \A s \in Watched, g \in Uploads :
             NamedSince(s, g, held[h].began) => NamedSince(s, g, held[h].began)'
      BY <1>0, <2>1, <2>2, <3>1, FileAssumption DEF NamedSince, CleanupCall
    <3> QED BY <1>0, <2>1, <3>1, <3>2, FileAssumption DEF CleanupCall, PastRetention
  <2> QED BY <1>1, <2>3, <2>4, <2>5 DEF FileInv
<1>4. ASSUME NEW f \in Uploads, NEW t \in Tables, DropPath(t, f) PROVE FileInv'
  <2>1. savedOn' = [savedOn EXCEPT ![t][f] = None] /\ UNCHANGED <<mtime, disk, day>>
    BY <1>4 DEF DropPath
  <2>2. \A s \in Tables, g \in Uploads : savedOn'[s][g] # None => savedOn'[s][g] = savedOn[s][g]
    BY <1>0, <2>1 DEF FileTypeOK
  <2>3. FileTypeOK' /\ PathsHold' /\ GoneWereOld'
    BY <1>0, <2>1, <2>2 DEF FileTypeOK, PathsHold, GoneWereOld, PastRetention
  <2>4. NamedFilesStay'
    BY <1>0, <2>1, <2>2, FileAssumption DEF NamedFilesStay
  <2>5. \A h \in Handlers : CleanupCall(at[h], held[h])'
    BY <1>0, <2>1, <2>2, FileAssumption DEF CleanupCall, NamedSince, PastRetention
  <2> QED BY <1>1, <2>3, <2>4, <2>5 DEF FileInv
<1>5. CASE DayPasses
  <2>1. day' = day + 1 /\ day < LastDay /\ UNCHANGED <<mtime, disk, savedOn>>
    BY <1>5 DEF DayPasses
  <2>2. /\ day \in Nat /\ day' \in CalendarDays
        /\ \A g \in Uploads : mtime[g] # None => mtime[g] \in Nat
        /\ \A s \in Tables, g \in Uploads : savedOn[s][g] # None => savedOn[s][g] \in Nat
    BY <1>0, <2>1, FileAssumption DEF FileTypeOK, CalendarDays
  <2>3. \A g \in Uploads : mtime[g] # None /\ PastRetention(g) => PastRetention(g)'
    BY <2>1, <2>2, FileAssumption DEF PastRetention
  <2>4. FileTypeOK' /\ NamedFilesStay'
    BY <1>0, <2>1, <2>2 DEF FileTypeOK, NamedFilesStay
  <2>5. PathsHold' /\ GoneWereOld'
    BY <1>0, <2>1, <2>2, <2>3 DEF PathsHold, GoneWereOld
  <2>6. ASSUME NEW h \in Handlers PROVE CleanupCall(at[h], held[h])'
    <3>1. CleanupCall(at[h], held[h])
      BY <1>0
    <3>2. at[h] # "free" => held[h].began <= day'
      BY <2>1, <2>2, <3>1, FileAssumption DEF CleanupCall, CalendarDays
    <3> QED BY <1>0, <2>1, <2>3, <3>1, <3>2 DEF CleanupCall, NamedSince
  <2> QED BY <1>1, <2>4, <2>5, <2>6 DEF FileInv
<1> QED BY <1>2, <1>3, <1>4, <1>5

\* A step of a removal that deletes nothing.
LEMMA CleanupMove ==
    ASSUME FileInv, NEW h \in Handlers, NEW call, NEW x, Goto(h, call, x),
           MayStart(h) \/ at[h] # "free", UNCHANGED fileRows, CleanupCall(call, x)
    PROVE  FileInv'
<1>1. /\ Slots' /\ at'[h] = call /\ held'[h] = x
      /\ \A g \in Handlers \ {h} : at'[g] = at[g] /\ held'[g] = held[g]
  BY SlotsMove DEF FileInv
<1>2. UNCHANGED <<mtime, disk, savedOn, day, longest>>
  BY DEF fileRows
<1>3. FileTypeOK' /\ PathsHold' /\ GoneWereOld' /\ NamedFilesStay'
  BY <1>2 DEF FileInv, FileTypeOK, PathsHold, GoneWereOld, NamedFilesStay, PastRetention
<1>4. ASSUME NEW g \in Handlers PROVE CleanupCall(at[g], held[g])'
  <2>1. CleanupCall(at'[g], held'[g])
    BY <1>1 DEF FileInv
  <2> QED BY <1>2, <2>1 DEF CleanupCall, NamedSince, PastRetention
<1> QED BY <1>1, <1>3, <1>4 DEF FileInv

LEMMA CleanupSteps ==
    ASSUME FileInv, NEW h \in Handlers,
           CleanupStarts(h) \/ LoadPaths(h) \/ Walk(h) \/ CleanupEnds(h)
    PROVE  FileInv'
<1>0. FileTypeOK /\ PathsHold /\ GoneWereOld /\ CleanupCall(at[h], held[h])
  BY DEF FileInv
<1>1. CASE CleanupStarts(h)
  <2> DEFINE x == [unread |-> Watched, referenced |-> {}, began |-> day]
  <2>1. MayStart(h) /\ Goto(h, "paths", x) /\ UNCHANGED fileRows
    BY <1>1 DEF CleanupStarts
  <2>2. CleanupCall("paths", x)
    BY <1>0 DEF CleanupCall, FileTypeOK, CalendarDays
  <2> QED BY <2>1, <2>2, CleanupMove
<1>2. CASE LoadPaths(h)
  <2>1. PICK t \in held[h].unread :
           Goto(h, "paths", [held[h] EXCEPT !.unread = @ \ {t},
                                            !.referenced = @ \cup PathsIn(t)])
    BY <1>2 DEF LoadPaths
  <2> DEFINE x == [held[h] EXCEPT !.unread = @ \ {t}, !.referenced = @ \cup PathsIn(t)]
  <2>2. at[h] = "paths" /\ UNCHANGED fileRows
    BY <1>2 DEF LoadPaths
  <2>3. /\ x.began = held[h].began
        /\ Watched \ x.unread \subseteq (Watched \ held[h].unread) \cup {t}
        /\ held[h].referenced \subseteq x.referenced /\ PathsIn(t) \subseteq x.referenced
    BY <1>0, <2>1, <2>2 DEF CleanupCall
  <2>4. x \in [unread : SUBSET Watched, referenced : SUBSET Uploads, began : CalendarDays]
    BY <1>0, <2>2 DEF CleanupCall, PathsIn
  <2>5. \A s \in Watched \ x.unread, f \in Uploads \ x.referenced :
           NamedSince(s, f, held[h].began)
    BY <1>0, <2>2, <2>3 DEF CleanupCall, PathsIn, NamedSince
  <2>6. CleanupCall("paths", x)
    BY <1>0, <2>2, <2>3, <2>4, <2>5 DEF CleanupCall
  <2> QED BY <2>1, <2>2, <2>6, CleanupMove
<1>3. CASE Walk(h)
  <2> DEFINE x == [orphans |-> {f \in disk \ held[h].referenced : PastRetention(f)},
                   began |-> held[h].began]
  <2>1. at[h] = "paths" /\ held[h].unread = {} /\ Goto(h, "delete", x) /\ UNCHANGED fileRows
    BY <1>3 DEF Walk
  <2>2. \A f \in x.orphans : f \in Uploads /\ mtime[f] # None /\ PastRetention(f)
    BY <1>0 DEF FileTypeOK, GoneWereOld
  <2>3. CleanupCall("delete", x)
    BY <1>0, <2>1, <2>2 DEF CleanupCall
  <2> QED BY <2>1, <2>3, CleanupMove
<1>4. CASE CleanupEnds(h)
  BY <1>4, CleanupMove DEF CleanupEnds, Answer, CleanupCall
<1> QED BY <1>1, <1>2, <1>3, <1>4

\* What is deleted had outlived its retention, and whatever names it was written
\* since the removal began.
LEMMA OrphanGoes ==
    ASSUME FileInv, NEW h \in Handlers, DeleteOrphan(h)
    PROVE  FileInv'
<1>0. /\ FileTypeOK /\ PathsHold /\ GoneWereOld /\ NamedFilesStay /\ Slots
      /\ \A g \in Handlers : CleanupCall(at[g], held[g])
  BY DEF FileInv
<1>1. /\ at[h] = "delete" /\ UNCHANGED <<mtime, savedOn, day>>
      /\ longest' = IF day - held[h].began > longest THEN day - held[h].began ELSE longest
  BY DEF DeleteOrphan
<1>2. PICK f \in held[h].orphans :
         /\ disk' = disk \ {f}
         /\ Goto(h, "delete", [held[h] EXCEPT !.orphans = @ \ {f}])
  BY DEF DeleteOrphan
<1> DEFINE x == [held[h] EXCEPT !.orphans = @ \ {f}]
<1>3. /\ f \in Uploads /\ mtime[f] # None /\ PastRetention(f)
      /\ \A t \in Watched : NamedSince(t, f, held[h].began)
      /\ held[h].began \in CalendarDays /\ held[h].began <= day
  BY <1>0, <1>1 DEF CleanupCall
<1>4. /\ Slots' /\ at'[h] = "delete" /\ held'[h] = x
      /\ \A g \in Handlers \ {h} : at'[g] = at[g] /\ held'[g] = held[g]
  BY <1>0, <1>1, <1>2, SlotsMove
<1>5. /\ longest' \in CalendarDays /\ longest' >= longest /\ longest' >= day - held[h].began
  BY <1>0, <1>1, <1>3, FileAssumption DEF FileTypeOK, CalendarDays
<1>6. FileTypeOK' /\ PathsHold' /\ GoneWereOld'
  BY <1>0, <1>1, <1>2, <1>3, <1>5 DEF FileTypeOK, PathsHold, GoneWereOld, PastRetention
<1>7. NamedFilesStay'
  <2> SUFFICES ASSUME NEW t \in Watched, NEW g \in Uploads, savedOn[t][g] # None, g \notin disk'
               PROVE  savedOn[t][g] + longest' >= mtime[g] + RetentionDays
    BY <1>1 DEF NamedFilesStay
  <2>1. /\ savedOn[t][g] \in Nat /\ mtime[g] \in Nat /\ longest \in Nat /\ day \in Nat
        /\ longest' \in Nat /\ held[h].began \in Nat
    BY <1>0, <1>3, <1>5, FileAssumption DEF FileTypeOK, PathsHold, CalendarDays
  <2>2. CASE g \in disk
    <3>1. g = f /\ savedOn[t][g] >= held[h].began /\ mtime[g] + RetentionDays <= day
      BY <1>2, <1>3, <2>2 DEF NamedSince, PastRetention
    <3> QED BY <1>5, <2>1, <3>1, FileAssumption
  <2>3. CASE g \notin disk
    BY <1>0, <1>5, <2>1, <2>3, FileAssumption DEF NamedFilesStay
  <2> QED BY <2>2, <2>3
<1>8. ASSUME NEW g \in Handlers PROVE CleanupCall(at[g], held[g])'
  <2>1. CleanupCall(at[g], held[g])
    BY <1>0
  <2>2. CASE g = h
    <3>1. x.began = held[h].began /\ x.orphans \subseteq held[h].orphans
      BY <1>1, <2>1, <2>2 DEF CleanupCall
    <3>2. x \in [orphans : SUBSET Uploads, began : CalendarDays]
      BY <1>1, <2>1, <2>2 DEF CleanupCall
    <3> QED BY <1>1, <1>4, <2>1, <2>2, <3>1, <3>2 DEF CleanupCall, NamedSince, PastRetention
  <2>3. CASE g # h
    BY <1>1, <1>4, <2>1, <2>3 DEF CleanupCall, NamedSince, PastRetention
  <2> QED BY <2>2, <2>3
<1> QED BY <1>4, <1>6, <1>7, <1>8 DEF FileInv

LEMMA FileInvariance == FileSpec => []FileInv
<1>1. FileInv /\ [FileNext]_fileVars => FileInv'
  <2>1. FileInv /\ UNCHANGED fileVars => FileInv'
    BY DEF FileInv, FileTypeOK, Slots, OneAtOnce, PathsHold, GoneWereOld, NamedFilesStay,
           CleanupCall, NamedSince, PastRetention, fileVars, fileRows, requestVars
  <2> QED BY <2>1, FileRowSteps, CleanupSteps, OrphanGoes DEF FileNext
<1> QED BY <1>1, FileInit0, PTL DEF FileSpec

\* A file whose path a watched row had got in time is there as long as the row
\* names it: for any number of files, tables and overlapping removals, and
\* however long one takes.
THEOREM NamedFilesAreKept == FileSpec => []NamedFilesStay
BY FileInvariance, PTL DEF FileInv
-----------------------------------------------------------------------------
(* Permissions.  Without Redis an entry is as old as its load; with one      *)
(* instance and no overlap nothing older than the change is left when its    *)
(* copies have been dropped.                                                 *)

\* The rows had this version at that moment or later.
HeldSince(v, m) == replacedAt[v] = None \/ replacedAt[v] >= m

\* Only earlier versions have been replaced.
EarlierOnly == \A v \in Versions : v >= rights => replacedAt[v] = None

\* When the query of an entry began.
QueriedAt(e) == e.until - PermTtl - e.late

MemoryIsTimed ==
    ~shared => /\ redis = None
               /\ \A p \in Instances : memory[p] # None =>
                     /\ QueriedAt(memory[p]) <= moment
                     /\ HeldSince(memory[p].value, QueriedAt(memory[p]))

CacheCall(call, x) ==
    /\ call \in {"free", "load", "loaded", "audit"}
                \cup IF shared THEN {"get", "got", "put", "scan", "del"} ELSE {}
    /\ call # "free" => x.on \in serving
    /\ call = "got" => x.value \in Versions \cup {None}
    /\ call = "put" => x.value \in Versions
    /\ call \in {"load", "loaded"} => x.since \in Moments /\ x.since <= moment
    /\ call = "loaded" => x.value \in Versions /\ HeldSince(x.value, x.since)

\* What is alive is what the rows say.
TrueIfAlive(e) == Alive(e) => e.value = rights

\* The request carries nothing older than the rows, and changes nothing.
UpToDate(call, x) == /\ call \in {"got", "loaded", "put"} => x.value \in {None, rights}
                     /\ call \notin {"audit", "scan", "del"}

SettledOn(p) == /\ settledOn = p => TrueIfAlive(memory[p]) /\ TrueIfAlive(redis)
                /\ settledOn = p => \A h \in Handlers : UpToDate(at[h], held[h])
                /\ \A h \in Handlers : at[h] \in {"scan", "del"} => memory[p] = None

SettledAlone == alone => \A p \in Instances : serving = {p} => SettledOn(p)

CacheInv == /\ CacheTypeOK /\ Slots /\ EarlierOnly /\ MemoryIsTimed /\ SettledAlone
            /\ \A h \in Handlers : CacheCall(at[h], held[h])

LEMMA CacheInit0 == CacheInit => CacheInv
<1> SUFFICES ASSUME CacheInit PROVE CacheInv
  OBVIOUS
<1>1. Slots /\ \A h \in Handlers : at[h] = "free"
  BY SlotsInit DEF CacheInit
<1>2. CacheTypeOK
  BY CacheAssumption DEF CacheInit, CacheTypeOK, Versions, Moments
<1>3. EarlierOnly /\ MemoryIsTimed
  BY DEF CacheInit, EarlierOnly, MemoryIsTimed
<1>4. SettledAlone /\ \A h \in Handlers : CacheCall(at[h], held[h])
  BY <1>1 DEF CacheInit, SettledAlone, SettledOn, TrueIfAlive, Alive, UpToDate, CacheCall
<1> QED BY <1>1, <1>2, <1>3, <1>4 DEF CacheInv

\* A request goes on.  What the rows had at some moment they still had then, and
\* while requests do not overlap only its own step counts.
LEMMA CacheMove ==
    ASSUME CacheInv, NEW h \in Handlers, NEW call, NEW x, Goto(h, call, x),
           MayStart(h) \/ at[h] # "free", UNCHANGED <<moment, shared, serving>>,
           CacheTypeOK', EarlierOnly', MemoryIsTimed', CacheCall(call, x)',
           \A v \in Versions, m \in Moments :
              m <= moment /\ HeldSince(v, m) => HeldSince(v, m)',
           \A p \in Instances : alone /\ serving = {p} =>
              /\ settledOn' = p => /\ TrueIfAlive(memory[p])' /\ TrueIfAlive(redis)'
                                   /\ UpToDate(call, x)'
              /\ call \in {"scan", "del"} => memory'[p] = None
    PROVE  CacheInv'
<1>1. /\ Slots' /\ alone' = alone /\ at'[h] = call /\ held'[h] = x
      /\ \A g \in Handlers \ {h} : at'[g] = at[g] /\ held'[g] = held[g]
      /\ alone => \A g \in Handlers \ {h} : at[g] = "free"
  BY SlotsMove DEF CacheInv
<1>2. ASSUME NEW g \in Handlers PROVE CacheCall(at[g], held[g])'
  <2>1. CASE g = h
    BY <1>1, <2>1 DEF CacheCall, HeldSince
  <2>2. CASE g # h
    <3>1. CacheCall(at[g], held[g]) /\ at'[g] = at[g] /\ held'[g] = held[g]
      BY <1>1, <2>2 DEF CacheInv
    <3> QED BY <3>1 DEF CacheCall
  <2> QED BY <2>1, <2>2
<1>3. SettledAlone'
  <2> SUFFICES ASSUME alone, NEW p \in Instances, serving = {p} PROVE SettledOn(p)'
    BY <1>1 DEF SettledAlone
  <2>1. ASSUME NEW g \in Handlers PROVE /\ settledOn' = p => UpToDate(at[g], held[g])'
                                        /\ at'[g] \in {"scan", "del"} => memory'[p] = None
    BY <1>1 DEF UpToDate
  <2> QED BY <2>1 DEF SettledOn
<1> QED BY <1>1, <1>2, <1>3 DEF CacheInv

\* A request that changes no row and no copy.
LEMMA CacheReads ==
    ASSUME CacheInv, NEW h \in Handlers, NEW call, NEW x, Goto(h, call, x),
           MayStart(h) \/ at[h] # "free", UNCHANGED cacheRows, CacheCall(call, x),
           \A p \in Instances : alone /\ serving = {p} =>
              /\ settledOn = p => UpToDate(call, x)
              /\ call \in {"scan", "del"} => memory[p] = None
    PROVE  CacheInv'
<1>1. UNCHANGED <<rights, replacedAt, memory, redis, degraded, moment, shared, serving, settledOn>>
  BY DEF cacheRows
<1>2. CacheTypeOK' /\ EarlierOnly' /\ MemoryIsTimed'
  BY <1>1 DEF CacheInv, CacheTypeOK, EarlierOnly, MemoryIsTimed, QueriedAt, HeldSince
<1>3. CacheCall(call, x)'
  BY <1>1 DEF CacheCall, HeldSince
<1>4. \A p \in Instances : alone /\ serving = {p} /\ settledOn' = p =>
         TrueIfAlive(memory[p])' /\ TrueIfAlive(redis)' /\ UpToDate(call, x)'
  BY <1>1 DEF CacheInv, SettledAlone, SettledOn, TrueIfAlive, Alive, UpToDate
<1> QED BY <1>1, <1>2, <1>3, <1>4, CacheMove DEF HeldSince

\* The answer of TtlCache.wrap when Redis had none.
LEMMA CacheMisses ==
    ASSUME CacheInv, NEW h \in Handlers, NEW p \in serving, shared,
           MayStart(h) \/ at[h] # "free", UNCHANGED cacheRows, AfterMiss(h, p)
    PROVE  CacheInv'
<1>0. CacheTypeOK /\ SettledAlone /\ p \in Instances /\ moment \in Moments
  BY DEF CacheInv, CacheTypeOK
<1>1. CASE Alive(memory[p])
  <2>1. Goto(h, "put", [on |-> p, value |-> memory[p].value])
    BY <1>1 DEF AfterMiss
  <2>2. memory[p].value \in Versions
    BY <1>0, <1>1 DEF CacheTypeOK, Alive, CacheEntries
  <2>3. \A q \in Instances : alone /\ serving = {q} /\ settledOn = q => memory[p].value = rights
    BY <1>0, <1>1 DEF SettledAlone, SettledOn, TrueIfAlive
  <2> QED BY <2>1, <2>2, <2>3, CacheReads DEF CacheCall, UpToDate
<1>2. CASE ~Alive(memory[p])
  <2>1. Goto(h, "load", [on |-> p, since |-> moment])
    BY <1>2 DEF AfterMiss
  <2>2. CacheCall("load", [on |-> p, since |-> moment])
    BY <1>0, CacheAssumption DEF CacheCall, Moments
  <2> QED BY <2>1, <2>2, CacheReads DEF UpToDate
<1> QED BY <1>1, <1>2

LEMMA CacheAsks ==
    ASSUME CacheInv, NEW h \in Handlers, NEW p \in Instances,
           AskRights(h, p) \/ GetShared(h) \/ LoadRights(h) \/ DropFails(h)
    PROVE  CacheInv'
<1>0. /\ CacheTypeOK /\ EarlierOnly /\ SettledAlone /\ CacheCall(at[h], held[h])
      /\ moment \in Moments /\ rights \in Versions /\ UNCHANGED cacheRows
      /\ MayStart(h) \/ at[h] # "free"
  BY DEF CacheInv, CacheTypeOK, AskRights, GetShared, LoadRights, DropFails
<1>1. CacheCall("free", None) /\ UpToDate("free", None)
  BY DEF CacheCall, UpToDate
<1>2. CASE AskRights(h, p)
  <2>1. \/ shared /\ Goto(h, "get", [on |-> p])
        \/ Goto(h, "load", [on |-> p, since |-> moment])
    BY <1>2 DEF AskRights
  <2>2. /\ CacheCall("load", [on |-> p, since |-> moment])
        /\ shared => CacheCall("get", [on |-> p])
    BY <1>0, <1>2, CacheAssumption DEF CacheCall, Moments, AskRights
  <2> QED BY <1>0, <2>1, <2>2, CacheReads DEF UpToDate
<1>3. CASE GetShared(h)
  <2> DEFINE v == IF Alive(redis) THEN redis.value ELSE None
  <2>1. at[h] = "get" /\ Goto(h, "got", [on |-> held[h].on, value |-> v])
    BY <1>3 DEF GetShared
  <2>2. v \in Versions \cup {None}
    BY <1>0 DEF CacheTypeOK, Alive, CacheEntries
  <2>3. CacheCall("got", [on |-> held[h].on, value |-> v])
    BY <1>0, <2>1, <2>2 DEF CacheCall
  <2>4. \A q \in Instances : alone /\ serving = {q} /\ settledOn = q => v \in {None, rights}
    BY <1>0 DEF SettledAlone, SettledOn, TrueIfAlive
  <2> QED BY <1>0, <2>1, <2>3, <2>4, CacheReads DEF UpToDate
<1>4. CASE LoadRights(h)
  <2> DEFINE x == [on |-> held[h].on, since |-> held[h].since, value |-> rights]
  <2>1. at[h] = "load" /\ (Goto(h, "loaded", x) \/ Goto(h, "free", None))
    BY <1>4 DEF LoadRights, Answer
  <2>2. CacheCall("loaded", x)
    BY <1>0, <2>1 DEF CacheCall, EarlierOnly, HeldSince, Versions
  <2> QED BY <1>0, <1>1, <2>1, <2>2, CacheReads DEF UpToDate
<1>5. CASE DropFails(h)
  BY <1>0, <1>1, <1>5, CacheReads DEF DropFails, Answer
<1> QED BY <1>0, <1>2, <1>3, <1>4, <1>5

\* Entries that are stored while nothing was changed since their query.
LEMMA CacheStores ==
    ASSUME CacheInv, NEW h \in Handlers,
           GotShared(h) \/ GetFails(h) \/ RightsLoaded(h) \/ PutShared(h)
    PROVE  CacheInv'
<1> DEFINE p == held[h].on
<1>0. /\ CacheTypeOK /\ EarlierOnly /\ MemoryIsTimed /\ SettledAlone /\ CacheCall(at[h], held[h])
      /\ moment \in Moments /\ at[h] # "free" /\ p \in serving /\ p \in Instances
      /\ PermTtl \in Nat /\ moment \in Nat
      /\ UNCHANGED <<rights, replacedAt, moment, shared, serving, settledOn>>
  BY CacheAssumption DEF CacheInv, CacheTypeOK, CacheCall, GotShared, GetFails, RightsLoaded,
     PutShared, Moments
<1>1. CacheCall("free", None)' /\ UpToDate("free", None)'
  BY DEF CacheCall, UpToDate
<1>2. EarlierOnly' /\ \A v \in Versions, m \in Moments : HeldSince(v, m) => HeldSince(v, m)'
  BY <1>0 DEF EarlierOnly, HeldSince
<1>3. ASSUME NEW v \in Versions, NEW late \in Moments
      PROVE  /\ EntryOf(v, late) \in CacheEntries /\ EntryOf(v, late) # None
             /\ QueriedAt(EntryOf(v, late)) = moment - late
             /\ EntryOf(v, late).value = v
  <2>1. EntryOf(v, late) \in CacheEntries
    BY <1>0 DEF EntryOf, CacheEntries
  <2> QED BY <1>0, <2>1, CacheRowAssumption, CacheAssumption DEF EntryOf, QueriedAt, Moments
\* The memory gets an entry.
<1>4. ASSUME NEW v \in Versions, NEW late \in Moments,
             memory' = [memory EXCEPT ![p] = EntryOf(v, late)],
             UNCHANGED <<redis, degraded>>, ~shared => HeldSince(v, moment - late)
      PROVE  /\ CacheTypeOK' /\ MemoryIsTimed'
             /\ \A q \in Instances : alone /\ serving = {q} /\ settledOn = q /\ v = rights =>
                   TrueIfAlive(memory[q])' /\ TrueIfAlive(redis)'
  <2>1. \A q \in Instances : memory'[q] = IF q = p THEN EntryOf(v, late) ELSE memory[q]
    BY <1>0, <1>4 DEF CacheTypeOK
  <2>2. CacheTypeOK'
    BY <1>0, <1>3, <1>4 DEF CacheTypeOK
  <2>3. MemoryIsTimed'
    BY <1>0, <1>3, <1>4, <2>1, CacheAssumption DEF MemoryIsTimed, HeldSince, QueriedAt, Moments
  <2>4. ASSUME NEW q \in Instances, alone, serving = {q}, settledOn = q, v = rights
        PROVE  TrueIfAlive(memory[q])' /\ TrueIfAlive(redis)'
    BY <1>0, <1>3, <1>4, <2>1, <2>4 DEF SettledAlone, SettledOn, TrueIfAlive, Alive
  <2> QED BY <2>2, <2>3, <2>4
<1>5. CASE GotShared(h)
  <2>1. at[h] = "got" /\ shared
    BY <1>0, <1>5 DEF GotShared, CacheCall
  <2>2. CASE held[h].value = None
    <3>1. AfterMiss(h, p) /\ UNCHANGED cacheRows
      BY <1>5, <2>2 DEF GotShared, cacheRows
    <3> QED BY <1>0, <2>1, <3>1, CacheMisses
  <2>3. CASE held[h].value # None
    <3>1. /\ held[h].value \in Versions /\ Goto(h, "free", None)
          /\ memory' = [memory EXCEPT ![p] = EntryOf(held[h].value, 0)]
          /\ UNCHANGED <<redis, degraded>>
      BY <1>0, <1>5, <2>1, <2>3 DEF GotShared, CacheCall, Answer
    <3>2. 0 \in Moments
      BY CacheAssumption DEF Moments
    <3>3. \A q \in Instances : alone /\ serving = {q} /\ settledOn = q => held[h].value = rights
      BY <1>0, <2>1, <2>3 DEF SettledAlone, SettledOn, UpToDate
    <3>4. /\ CacheTypeOK' /\ MemoryIsTimed'
          /\ \A q \in Instances : alone /\ serving = {q} /\ settledOn = q =>
                TrueIfAlive(memory[q])' /\ TrueIfAlive(redis)'
      BY <1>4, <2>1, <3>1, <3>2, <3>3
    <3> QED BY <1>0, <1>1, <1>2, <3>1, <3>4, CacheMove
  <2> QED BY <2>2, <2>3
<1>6. CASE GetFails(h)
  <2>0. PICK x : x = [on |-> p, since |-> moment]
    OBVIOUS
  <2>1. /\ at[h] = "get" /\ degraded' = [degraded EXCEPT ![p] = TRUE]
        /\ Goto(h, "free", None) \/ Goto(h, "load", x)
        /\ UNCHANGED <<memory, redis>>
    BY <1>6, <2>0 DEF GetFails, Answer
  <2>2. CacheTypeOK' /\ MemoryIsTimed'
    BY <1>0, <2>1 DEF CacheTypeOK, MemoryIsTimed, HeldSince, QueriedAt
  <2>3. CacheCall("load", x)'
    BY <1>0, <2>0, CacheAssumption DEF CacheCall, Moments
  <2>4. \A q \in Instances : alone /\ serving = {q} /\ settledOn = q =>
           TrueIfAlive(memory[q])' /\ TrueIfAlive(redis)'
    BY <1>0, <2>1 DEF SettledAlone, SettledOn, TrueIfAlive, Alive
  <2>5. UpToDate("load", x)'
    BY DEF UpToDate
  <2> QED BY <1>0, <1>1, <1>2, <2>1, <2>2, <2>3, <2>4, <2>5, CacheMove
<1>7. CASE RightsLoaded(h)
  <2> DEFINE v == held[h].value
             late == moment - held[h].since
  <2>0. PICK x : x = [on |-> p, value |-> v]
    OBVIOUS
  <2>1. /\ at[h] = "loaded" /\ memory' = [memory EXCEPT ![p] = EntryOf(v, late)]
        /\ UNCHANGED <<redis, degraded>>
        /\ \/ shared /\ Goto(h, "put", x)
           \/ Goto(h, "free", None)
    BY <1>7, <2>0 DEF RightsLoaded, Answer
  <2>2. v \in Versions /\ late \in Moments /\ HeldSince(v, moment - late)
    BY <1>0, <2>1, CacheAssumption DEF CacheCall, Moments
  <2>3. \A q \in Instances : alone /\ serving = {q} /\ settledOn = q => v = rights
    <3>1. None \notin Versions
      BY CacheRowAssumption
    <3> QED BY <1>0, <2>1, <2>2, <3>1 DEF SettledAlone, SettledOn, UpToDate
  <2>4. /\ CacheTypeOK' /\ MemoryIsTimed'
        /\ \A q \in Instances : alone /\ serving = {q} /\ settledOn = q =>
              TrueIfAlive(memory[q])' /\ TrueIfAlive(redis)' /\ v = rights
    BY <1>4, <2>1, <2>2, <2>3
  <2>5. shared => CacheCall("put", x)'
    BY <1>0, <2>0, <2>2 DEF CacheCall
  <2>6. v = rights => UpToDate("put", x)'
    BY <1>0, <2>0 DEF UpToDate
  <2> QED BY <1>0, <1>1, <1>2, <2>1, <2>4, <2>5, <2>6, CacheMove
<1>8. CASE PutShared(h)
  <2>1. /\ at[h] = "put" /\ Goto(h, "free", None) /\ UNCHANGED memory
        /\ \/ redis' = EntryOf(held[h].value, 0) /\ UNCHANGED degraded
           \/ degraded' = [degraded EXCEPT ![p] = TRUE] /\ UNCHANGED redis
    BY <1>8 DEF PutShared, Answer
  <2>2. held[h].value \in Versions /\ shared /\ 0 \in Moments
    BY <1>0, <2>1, CacheAssumption DEF CacheCall, Moments
  <2>3. CacheTypeOK' /\ MemoryIsTimed'
    BY <1>0, <1>3, <2>1, <2>2 DEF CacheTypeOK, MemoryIsTimed
  <2>4. \A q \in Instances : alone /\ serving = {q} /\ settledOn = q =>
           TrueIfAlive(memory[q])' /\ TrueIfAlive(redis)'
    <3> SUFFICES ASSUME NEW q \in Instances, alone, serving = {q}, settledOn = q
                 PROVE  TrueIfAlive(memory[q])' /\ TrueIfAlive(redis)'
      OBVIOUS
    <3>1. TrueIfAlive(memory[q]) /\ TrueIfAlive(redis) /\ held[h].value \in {None, rights}
      BY <1>0, <2>1 DEF SettledAlone, SettledOn, UpToDate
    <3>2. held[h].value = rights
      BY <2>2, <3>1, CacheRowAssumption
    <3> QED BY <1>0, <1>3, <2>1, <2>2, <3>1, <3>2 DEF TrueIfAlive, Alive
  <2> QED BY <1>0, <1>1, <1>2, <2>1, <2>3, <2>4, CacheMove
<1> QED BY <1>5, <1>6, <1>7, <1>8

\* A change and what follows it: nothing counts as settled until the copies are
\* gone.
LEMMA CacheChanges ==
    ASSUME CacheInv, NEW h \in Handlers, NEW p \in Instances,
           \/ SetRolePermission(h, p) \/ InvalidateRights(h) \/ ScanShared(h) \/ DeleteShared(h)
    PROVE  CacheInv'
<1>0. /\ CacheTypeOK /\ EarlierOnly /\ MemoryIsTimed /\ SettledAlone /\ CacheCall(at[h], held[h])
      /\ moment \in Moments /\ moment \in Nat /\ rights \in Versions /\ rights \in Nat
      /\ UNCHANGED <<moment, shared, serving>>
  BY CacheAssumption DEF CacheInv, CacheTypeOK, Moments, Versions, SetRolePermission,
     InvalidateRights, ScanShared, DeleteShared
<1>1. CacheCall("free", None)' /\ UpToDate("free", None)'
  BY DEF CacheCall, UpToDate
<1>2. CASE SetRolePermission(h, p)
  <2>1. /\ MayStart(h) /\ p \in serving /\ rights' = rights + 1 /\ rights < MaxChanges
        /\ replacedAt' = [replacedAt EXCEPT ![rights] = moment]
        /\ settledOn' = None /\ Goto(h, "audit", [on |-> p])
        /\ UNCHANGED <<memory, redis, degraded>>
    BY <1>2 DEF SetRolePermission
  <2>2. \A v \in Versions : replacedAt'[v] = IF v = rights THEN moment ELSE replacedAt[v]
    BY <1>0, <2>1 DEF CacheTypeOK
  <2>3. CacheTypeOK' /\ EarlierOnly'
    <3>1. rights + 1 \in Versions
      BY <1>0, <2>1, CacheAssumption DEF Versions
    <3> QED BY <1>0, <2>1, <2>2, <3>1 DEF CacheTypeOK, EarlierOnly, Versions
  <2>4. ASSUME NEW v \in Versions, NEW m, m <= moment, HeldSince(v, m) PROVE HeldSince(v, m)'
    BY <1>0, <2>2, <2>4 DEF HeldSince
  <2>5. MemoryIsTimed'
    <3> SUFFICES ASSUME ~shared, NEW q \in Instances, memory[q] # None
                 PROVE  /\ QueriedAt(memory[q]) <= moment
                        /\ HeldSince(memory[q].value, QueriedAt(memory[q]))'
      BY <1>0, <2>1 DEF MemoryIsTimed
    <3>1. /\ QueriedAt(memory[q]) <= moment /\ memory[q].value \in Versions
          /\ HeldSince(memory[q].value, QueriedAt(memory[q]))
      BY <1>0 DEF MemoryIsTimed, CacheTypeOK, CacheEntries
    <3>2. replacedAt[memory[q].value] = None \/ replacedAt[memory[q].value] >= QueriedAt(memory[q])
      BY <3>1 DEF HeldSince
    <3>3. replacedAt'[memory[q].value] = None \/ replacedAt'[memory[q].value] >= QueriedAt(memory[q])
      BY <2>2, <3>1, <3>2
    <3> QED BY <2>1, <3>1, <3>3 DEF HeldSince, QueriedAt
  <2>6. CacheCall("audit", [on |-> p])'
    BY <1>0, <2>1 DEF CacheCall
  <2>7. \A q \in Instances : settledOn' # q
    BY <2>1, CacheRowAssumption
  <2> QED BY <1>0, <2>1, <2>3, <2>4, <2>5, <2>6, <2>7, CacheMove
<1>3. CASE InvalidateRights(h) \/ ScanShared(h) \/ DeleteShared(h)
  <2>0. /\ at[h] # "free" /\ UNCHANGED <<rights, replacedAt, degraded>> /\ EarlierOnly'
        /\ held[h].on \in serving /\ held[h].on \in Instances
        /\ \A v \in Versions, m \in Moments : HeldSince(v, m) => HeldSince(v, m)'
    BY <1>0, <1>3
       DEF InvalidateRights, ScanShared, DeleteShared, EarlierOnly, HeldSince, CacheCall,
           CacheTypeOK
  <2>1. CASE at[h] = "audit"
    <3>0. /\ \/ /\ memory' = [memory EXCEPT ![held[h].on] = None]
                /\ settledOn' = IF shared THEN None ELSE held[h].on
                /\ IF shared THEN Goto(h, "scan", held[h]) ELSE Goto(h, "free", None)
             \/ Goto(h, "free", None) /\ UNCHANGED <<memory, settledOn>>
          /\ UNCHANGED redis
      BY <1>3, <2>1 DEF InvalidateRights, ClearMemory, ScanShared, DeleteShared, Answer
    <3>1. \A q \in Instances : memory'[q] = memory[q] \/ memory'[q] = None
      BY <1>0, <3>0 DEF CacheTypeOK
    <3>2. CacheTypeOK' /\ MemoryIsTimed'
      BY <1>0, <2>0, <3>0, <3>1 DEF CacheTypeOK, MemoryIsTimed, HeldSince, QueriedAt
    <3>3. CASE UNCHANGED <<memory, settledOn>> /\ Goto(h, "free", None)
      <4>1. \A q \in Instances : alone /\ serving = {q} => settledOn # q
        BY <1>0, <2>1 DEF SettledAlone, SettledOn, UpToDate
      <4> QED BY <1>0, <1>1, <2>0, <3>2, <3>3, <4>1, CacheMove
    <3>4. CASE /\ memory' = [memory EXCEPT ![held[h].on] = None] /\ shared
               /\ settledOn' = None /\ Goto(h, "scan", held[h])
      <4>0. PICK x : x = held[h]
        OBVIOUS
      <4>1. CacheCall("scan", x)' /\ Goto(h, "scan", x)
        BY <1>0, <2>0, <3>4, <4>0 DEF CacheCall
      <4>2. \A q \in Instances : serving = {q} => memory'[q] = None /\ settledOn' # q
        BY <1>0, <2>0, <3>4, CacheRowAssumption DEF CacheTypeOK
      <4> QED BY <1>0, <2>0, <3>2, <3>4, <4>1, <4>2, CacheMove
    <3>5. CASE /\ memory' = [memory EXCEPT ![held[h].on] = None] /\ ~shared
               /\ settledOn' = held[h].on /\ Goto(h, "free", None)
      <4>1. \A q \in Instances : serving = {q} => memory'[q] = None /\ redis' = None
        BY <1>0, <2>0, <3>0, <3>5 DEF CacheTypeOK, MemoryIsTimed
      <4>2. \A q \in Instances : serving = {q} => TrueIfAlive(memory[q])' /\ TrueIfAlive(redis)'
        BY <4>1 DEF TrueIfAlive, Alive
      <4>3. CacheTypeOK'
        BY <3>2
      <4> QED BY <1>0, <1>1, <2>0, <3>2, <3>5, <4>2, CacheMove
    <3> QED BY <3>0, <3>3, <3>4, <3>5
  <2>2. CASE at[h] \in {"scan", "del"}
    <3>0. /\ UNCHANGED memory /\ shared
          /\ \/ /\ at[h] = "scan" /\ Alive(redis) /\ Goto(h, "del", held[h])
                /\ UNCHANGED <<redis, settledOn>>
             \/ /\ (~Alive(redis) /\ redis' = redis) \/ redis' = None
                /\ Goto(h, "free", None) /\ settledOn' = held[h].on
      BY <1>0, <1>3, <2>2 DEF InvalidateRights, ScanShared, DeleteShared, Answer, CacheCall
    <3>1. CacheTypeOK' /\ MemoryIsTimed'
      BY <1>0, <2>0, <3>0 DEF CacheTypeOK, MemoryIsTimed
    <3>2. \A q \in Instances : alone /\ serving = {q} => memory[q] = None /\ settledOn # q
      BY <1>0, <2>2 DEF SettledAlone, SettledOn, UpToDate
    <3>3. CASE Goto(h, "del", held[h]) /\ UNCHANGED <<redis, settledOn>>
      <4>0. PICK x : x = held[h]
        OBVIOUS
      <4>1. CacheCall("del", x)' /\ Goto(h, "del", x)
        BY <1>0, <2>0, <3>0, <3>3, <4>0 DEF CacheCall
      <4> QED BY <1>0, <2>0, <3>0, <3>1, <3>2, <3>3, <4>1, CacheMove
    <3>4. CASE /\ (~Alive(redis) /\ redis' = redis) \/ redis' = None
               /\ Goto(h, "free", None) /\ settledOn' = held[h].on
      <4>0. ~Alive(redis)'
        BY <1>0, <3>4 DEF Alive
      <4>1. \A q \in Instances : alone /\ serving = {q} =>
               TrueIfAlive(memory[q])' /\ TrueIfAlive(redis)'
        BY <3>0, <3>2, <4>0 DEF TrueIfAlive, Alive
      <4>2. \A q \in Instances : alone /\ serving = {q} =>
               /\ settledOn' = q => /\ TrueIfAlive(memory[q])' /\ TrueIfAlive(redis)'
                                    /\ UpToDate("free", None)'
               /\ "free" \in {"scan", "del"} => memory'[q] = None
        BY <1>1, <4>1
      <4>3. Goto(h, "free", None)
        BY <3>4
      <4> QED BY <1>0, <1>1, <2>0, <3>1, <4>2, <4>3, CacheMove
    <3> QED BY <3>0, <3>3, <3>4
  <2> QED BY <1>0, <1>3, <2>1, <2>2 DEF InvalidateRights, ScanShared, DeleteShared
<1> QED BY <1>2, <1>3

LEMMA CacheOthers ==
    ASSUME CacheInv, MomentPasses \/ \E p \in Instances : InstanceRestarts(p)
    PROVE  CacheInv'
<1>0. /\ CacheTypeOK /\ EarlierOnly /\ MemoryIsTimed /\ SettledAlone /\ Slots
      /\ \A h \in Handlers : CacheCall(at[h], held[h])
  BY DEF CacheInv
<1>1. CASE MomentPasses
  <2>1. /\ moment < LastMoment /\ moment' = moment + 1 /\ moment \in Nat
        /\ UNCHANGED <<at, held, alone, rights, replacedAt, memory, redis, degraded,
                       shared, serving, settledOn>>
    BY <1>0, <1>1, CacheAssumption DEF MomentPasses, requestVars, CacheTypeOK, Moments
  <2>2. CacheTypeOK' /\ Slots' /\ EarlierOnly'
    BY <1>0, <2>1, CacheAssumption DEF CacheTypeOK, Moments, Slots, OneAtOnce, EarlierOnly
  <2>3. MemoryIsTimed'
    <3>1. \A p \in Instances : memory[p] # None => QueriedAt(memory[p]) \in Int
      BY <1>0, CacheAssumption DEF CacheTypeOK, CacheEntries, QueriedAt, Moments
    <3> QED BY <1>0, <2>1, <3>1 DEF MemoryIsTimed, HeldSince, QueriedAt
  <2>4. ASSUME NEW h \in Handlers PROVE CacheCall(at[h], held[h])'
    BY <1>0, <2>1, CacheAssumption DEF CacheCall, HeldSince, Moments
  <2>5. \A e : e \in CacheEntries \cup {None} /\ TrueIfAlive(e) => TrueIfAlive(e)'
    BY <2>1 DEF TrueIfAlive, Alive, CacheEntries
  <2>6. SettledAlone'
    BY <1>0, <2>1, <2>5 DEF SettledAlone, SettledOn, UpToDate, CacheTypeOK, TrueIfAlive, Alive
  <2> QED BY <2>2, <2>3, <2>4, <2>6 DEF CacheInv
<1>2. ASSUME NEW p \in Instances, InstanceRestarts(p) PROVE CacheInv'
  <2>1. /\ \A h \in Handlers : at'[h] = "free" \/ (at'[h] = at[h] /\ held'[h] = held[h])
        /\ at' = [h \in Handlers |-> at'[h]] /\ held' = [h \in Handlers |-> held'[h]]
        /\ memory' = [memory EXCEPT ![p] = None] /\ degraded' = [degraded EXCEPT ![p] = FALSE]
        /\ UNCHANGED <<alone, rights, replacedAt, redis, moment, shared, serving, settledOn>>
    BY <1>2 DEF InstanceRestarts
  <2>2. \A q \in Instances : memory'[q] = memory[q] \/ memory'[q] = None
    BY <1>0, <2>1 DEF CacheTypeOK
  <2>3. CacheTypeOK' /\ Slots' /\ EarlierOnly'
    BY <1>0, <2>1 DEF CacheTypeOK, Slots, OneAtOnce, EarlierOnly
  <2>4. MemoryIsTimed'
    BY <1>0, <2>1, <2>2 DEF MemoryIsTimed, HeldSince, QueriedAt
  <2>5. ASSUME NEW h \in Handlers PROVE CacheCall(at[h], held[h])'
    BY <1>0, <2>1 DEF CacheCall, HeldSince
  <2>6. SettledAlone'
    <3> SUFFICES ASSUME alone, NEW q \in Instances, serving = {q} PROVE SettledOn(q)'
      BY <2>1 DEF SettledAlone
    <3>1. SettledOn(q)
      BY <1>0 DEF SettledAlone
    <3>2. settledOn = q => TrueIfAlive(memory[q])' /\ TrueIfAlive(redis)'
      BY <2>1, <2>2, <3>1 DEF SettledOn, TrueIfAlive, Alive
    <3>3. ASSUME NEW h \in Handlers PROVE /\ settledOn = q => UpToDate(at[h], held[h])'
                                          /\ at'[h] \in {"scan", "del"} => memory'[q] = None
      BY <2>1, <2>2, <3>1 DEF SettledOn, UpToDate
    <3> QED BY <2>1, <3>2, <3>3 DEF SettledOn
  <2> QED BY <2>3, <2>4, <2>5, <2>6 DEF CacheInv
<1> QED BY <1>1, <1>2

LEMMA CacheInvariance == CacheSpec => []CacheInv
<1>1. CacheInv /\ [CacheNext]_cacheVars => CacheInv'
  <2>1. ASSUME CacheInv, UNCHANGED cacheVars PROVE CacheInv'
    <3>1. UNCHANGED <<at, held, alone, rights, replacedAt, memory, redis, degraded, moment,
                      shared, serving, settledOn>>
      BY <2>1 DEF cacheVars, cacheRows, requestVars
    <3>2. CacheTypeOK' /\ Slots' /\ EarlierOnly' /\ MemoryIsTimed'
      BY <2>1, <3>1 DEF CacheInv, CacheTypeOK, Slots, OneAtOnce, EarlierOnly, MemoryIsTimed,
         HeldSince, QueriedAt
    <3>3. SettledAlone' /\ \A h \in Handlers : CacheCall(at[h], held[h])'
      BY <2>1, <3>1 DEF CacheInv, SettledAlone, SettledOn, TrueIfAlive, Alive, UpToDate,
         CacheCall, HeldSince
    <3> QED BY <3>2, <3>3 DEF CacheInv
  <2>2. ASSUME CacheInv, NEW h \in Handlers, CacheStep(h) PROVE CacheInv'
    <3>1. CASE \E p \in Instances : AskRights(h, p) \/ SetRolePermission(h, p)
      BY <2>2, <3>1, CacheAsks, CacheChanges
    <3>2. CASE GotShared(h) \/ GetFails(h) \/ RightsLoaded(h) \/ PutShared(h)
      BY <2>2, <3>2, CacheStores
    <3>3. CASE \/ GetShared(h) \/ LoadRights(h) \/ DropFails(h)
               \/ InvalidateRights(h) \/ ScanShared(h) \/ DeleteShared(h)
      <4>1. at[h] # "free"
        BY <3>3 DEF GetShared, LoadRights, DropFails, InvalidateRights, ScanShared, DeleteShared
      <4>2. PICK p \in Instances : p = held[h].on
        BY <2>2, <4>1 DEF CacheInv, CacheCall, CacheTypeOK
      <4> QED BY <2>2, <3>3, <4>2, CacheAsks, CacheChanges
    <3> QED BY <2>2, <3>1, <3>2, <3>3 DEF CacheStep
  <2> QED BY <2>1, <2>2, CacheOthers DEF CacheNext
<1> QED BY <1>1, CacheInit0, PTL DEF CacheSpec

\* Without Redis, rights that were taken back are gone from every instance a
\* minute after it, give or take the slowest query, and where one instance runs
\* and requests do not overlap a completed change is seen at once, with Redis and
\* without; for any number of instances, requests and changes.
THEOREM GrantsStayRecent == CacheSpec => []GrantsAreRecent
<1>1. ASSUME CacheInv PROVE GrantsAreRecent
  <2>1. ASSUME ~shared, NEW p \in Instances, Alive(memory[p]) PROVE Recent(memory[p])
    <3> DEFINE e == memory[p]
    <3>1. e \in CacheEntries /\ e.until > moment /\ e # None
      BY <1>1, <2>1 DEF CacheInv, CacheTypeOK, Alive
    <3>2. /\ e.value \in Versions /\ e.until \in Nat /\ e.late \in Nat /\ moment \in Nat
          /\ PermTtl \in Nat
      BY <1>1, <3>1, CacheAssumption DEF CacheInv, CacheTypeOK, CacheEntries, Moments
    <3>3. replacedAt[e.value] = None \/ replacedAt[e.value] \in Nat
      BY <1>1, <3>2 DEF CacheInv, CacheTypeOK, Moments
    <3>4. replacedAt[e.value] = None \/ replacedAt[e.value] >= e.until - PermTtl - e.late
      BY <1>1, <2>1, <3>1 DEF CacheInv, MemoryIsTimed, HeldSince, QueriedAt
    <3> QED BY <3>1, <3>2, <3>3, <3>4 DEF Recent
  <2>2. \A p \in Instances : alone /\ AtRest /\ serving = {p} /\ settledOn = p =>
           \A e \in {memory[p], redis} : Alive(e) => e.value = rights
    BY <1>1 DEF CacheInv, SettledAlone, SettledOn, TrueIfAlive
  <2> QED BY <2>1, <2>2 DEF GrantsAreRecent
<1> QED BY <1>1, CacheInvariance, PTL
=============================================================================
