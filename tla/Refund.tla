------------------------------- MODULE Refund -------------------------------
(***************************************************************************)
(* Refunds (finance/services/refund.service.ts): numbered by counting the  *)
(* rows, approved by the finance officer and, above the threshold, by the  *)
(* head; the last approval writes PAID, then PAID again with the date,     *)
(* then books the outgoing cash.  The status is checked on the row as read *)
(* and written by id.                                                      *)
(***************************************************************************)
EXTENDS Naturals, FiniteSets, Requests

CONSTANT MaxRefunds   \* bound: refunds of the year

ASSUME RefundAssumption == MaxRefunds \in Nat

VARIABLES refunds,    \* refunds[n] - the row numbered n, or None
          cashOut     \* cashOut[n] - the outgoing cash-flow records of refund n

refundRows == <<refunds, cashOut>>
refundVars == <<requestVars, refundRows>>

Numbers == 1..MaxRefunds

RefundStates == {"PENDING", "APPROVED_KEUANGAN", "PAID", "REJECTED"}

\* requires_kepsek_approval, status, the two approvers and paid_at.
Refunds == [large : BOOLEAN, status : RefundStates,
            keuangan : BOOLEAN, kepsek : BOOLEAN, paidAt : BOOLEAN]

ASSUME RefundRowAssumption == None \notin Refunds

Existing == {n \in Numbers : refunds[n] # None}

RefundInit == /\ RequestsInit
              /\ refunds = [n \in Numbers |-> None]
              /\ cashOut = [n \in Numbers |-> 0]

\* What a handler holds: the number of the row, and the row.
Holding(n, row) == [no |-> n, row |-> row]

-----------------------------------------------------------------------------
\* create counts the refunds of the year ...
NextRefundNo(h, large) ==
    /\ MayStart(h)
    /\ Cardinality(Existing) < MaxRefunds
    /\ Goto(h, "insert", Holding(Cardinality(Existing) + 1,
            [large |-> large, status |-> "PENDING", keuangan |-> FALSE,
             kepsek |-> FALSE, paidAt |-> FALSE]))
    /\ UNCHANGED refundRows

\* ... and inserts the next number, which the unique key refuses when another
\* request was faster.
InsertRefund(h) ==
    /\ at[h] = "insert"
    /\ refunds' = IF refunds[held[h].no] = None
                  THEN [refunds EXCEPT ![held[h].no] = held[h].row]
                  ELSE refunds
    /\ Answer(h)
    /\ UNCHANGED cashOut

\* Mutant: an approval that is repeated is taken again.
DecisionUnchecked(h, n, status, call) ==
    /\ MayStart(h)
    /\ n \in Existing /\ refunds[n].status \in {status, "PAID"}
    /\ Goto(h, call, Holding(n, refunds[n]))
    /\ UNCHANGED refundRows

\* An approver's request reads the refund and must find it in his state.
DecisionRead(h, n, status, call) ==
    /\ MayStart(h)
    /\ n \in Existing /\ refunds[n].status = status
    /\ Goto(h, call, Holding(n, refunds[n]))
    /\ UNCHANGED refundRows

KeuanganReads(h, n) ==
    \E call \in {"keuangan-approves", "rejects"} : DecisionRead(h, n, "PENDING", call)

KepsekReads(h, n) ==
    \E call \in {"kepsek-approves", "rejects"} : DecisionRead(h, n, "APPROVED_KEUANGAN", call)

\* updateRefund: the columns are written by id, the row is handed back.
Write(h, call, row, next) ==
    /\ at[h] = call
    /\ refunds' = [refunds EXCEPT ![held[h].no] = row]
    /\ IF next = "free" THEN Answer(h) ELSE Goto(h, next, Holding(held[h].no, row))
    /\ UNCHANGED cashOut

\* Mutant: small and large refunds are swapped.
NeedsKepsekSwapped(row) == ~row.large

NeedsKepsek(row) == row.large

\* approveByKeuangan: whether the head must approve is decided on the row read.
KeuanganApproves(h) ==
    LET large == NeedsKepsek(held[h].row)
        row == [refunds[held[h].no] EXCEPT
                    !.status = IF large THEN "APPROVED_KEUANGAN" ELSE "PAID",
                    !.keuangan = TRUE]
    IN  Write(h, "keuangan-approves", row, IF large THEN "free" ELSE "mark-paid")

KepsekApproves(h) ==
    Write(h, "kepsek-approves",
          [refunds[held[h].no] EXCEPT !.status = "PAID", !.kepsek = TRUE], "mark-paid")

Rejects(h) ==
    Write(h, "rejects", [refunds[held[h].no] EXCEPT !.status = "REJECTED"], "free")

\* markPaid: the row, then the cash flow.
MarkPaidAt(h) ==
    Write(h, "mark-paid",
          [refunds[held[h].no] EXCEPT !.status = "PAID", !.paidAt = TRUE], "book")

BookCashOut(h) ==
    /\ at[h] = "book"
    /\ cashOut' = [cashOut EXCEPT ![held[h].no] = @ + 1]
    /\ Answer(h)
    /\ UNCHANGED refunds

\* A query fails or the process dies.
RefundFails(h) == /\ at[h] # "free"
                  /\ Answer(h)
                  /\ UNCHANGED refundRows

RefundStep(h) == \/ \E large \in BOOLEAN : NextRefundNo(h, large)
                 \/ InsertRefund(h)
                 \/ \E n \in Numbers : KeuanganReads(h, n) \/ KepsekReads(h, n)
                 \/ KeuanganApproves(h) \/ KepsekApproves(h) \/ Rejects(h)
                 \/ MarkPaidAt(h) \/ BookCashOut(h)

RefundNext == \E h \in Handlers : RefundStep(h) \/ RefundFails(h)

RefundSpec == RefundInit /\ [][RefundNext]_refundVars

-----------------------------------------------------------------------------
\* Properties.

RefundTypeOK == /\ refunds \in [Numbers -> Refunds \cup {None}]
                /\ cashOut \in [Numbers -> Nat]

\* However the requests overlap: cash leaves, and a refund counts as paid, only
\* with the finance officer's approval and, for a large amount, the head's.
PaidOutWasApproved ==
    \A n \in Numbers : (n \in Existing /\ refunds[n].status = "PAID") \/ cashOut[n] > 0 =>
        /\ n \in Existing
        /\ refunds[n].keuangan
        /\ refunds[n].large => refunds[n].kepsek

\* While requests do not overlap, whatever fails half-way: cash leaves at most
\* once for a refund, and never for one that is not PAID and dated.
CashLeavesOnce == alone =>
    \A n \in Numbers : cashOut[n] > 0 =>
        cashOut[n] = 1 /\ refunds[n].status = "PAID" /\ refunds[n].paidAt
=============================================================================
