------------------------ MODULE AssetBooking_proofs ------------------------
(***************************************************************************)
(* Proofs about AssetBooking, for every set of assets, bookings, instants  *)
(* and concurrent requests.                                                *)
(***************************************************************************)
EXTENDS AssetBooking, TLAPS

(***************************************************************************)
(* The inductive invariant.  NoDoubleBooking alone is not inductive: what  *)
(* protects the insert of book() is that the transaction still holds the   *)
(* asset's row lock (LockHeld), so that what its check found is still true *)
(* (CheckHolds).                                                           *)
(***************************************************************************)
LockHeld ==
    \A r \in Clients :
        /\ req[r].op = "book" => lock[req[r].slot.asset] = r
        /\ req[r].op = "approve" /\ req[r].pc # "read" => lock[req[r].slot.asset] = r

CheckHolds ==
    \A r \in Clients : At(r, "book", "checked") =>
        /\ status[req[r].slot.asset] # "RETIRED"
        /\ \A b \in Bookings : Active(booking[b]) => ~Clash(req[r].slot, booking[b].slot)

\* Rows are never deleted, so the row a request has read is still there when it writes.
RowsExist ==
    \A r \in Clients :
        /\ req[r].op \in {"approve", "reject", "cancel", "complete"} =>
             booking[req[r].id] # NoRow
        /\ req[r].op = "retire" => audit[req[r].id] # NoRow

IInv == AssetTypeOK /\ RowsExist /\ LockHeld /\ CheckHolds /\ NoDoubleBooking

-----------------------------------------------------------------------------
\* The initial state satisfies every part of the invariant.
LEMMA InitInv == AssetInit => IInv
  BY DEF AssetInit, IInv, AssetTypeOK, RowsExist, LockHeld, CheckHolds, NoDoubleBooking, Idle,
      NoRow,
         Active, At, AssetStatus, Request, Booking, Audit

\* The fields a request in flight has, by its operation.
LEMMA RequestFields ==
  ASSUME AssetTypeOK, NEW r \in Clients
  PROVE  /\ req[r] \in Request
         /\ req[r].op = "book" => req[r].slot \in Slot /\ req[r].pc \in {"locked", "checked"}
         /\ req[r].op = "approve" =>
              /\ req[r].id \in Bookings /\ req[r].slot \in Slot
              /\ req[r].pc \in {"read", "locked", "checked"}
         /\ req[r].op \in {"reject", "cancel", "complete"} => req[r].id \in Bookings
         /\ req[r].op = "retire" =>
              /\ req[r].id \in Audits /\ req[r].asset \in Assets
              /\ req[r].pc \in {"read", "approved"}
  <1>1. req[r] \in Request
    BY DEF AssetTypeOK
  <1>2. QED
    BY <1>1 DEF Request, Idle

\* A request may end, begin or move to its next step: all three keep req typed.
LEMMA RequestType ==
  ASSUME AssetTypeOK, NEW r \in Clients,
         \/ Finish(r)
         \/ \E rec \in Request : Begin(r, rec)
         \/ At(r, "book", "locked") /\ req' = [req EXCEPT ![r].pc = "checked"]
         \/ At(r, "approve", "locked") /\ req' = [req EXCEPT ![r].pc = "checked"]
         \/ At(r, "approve", "read") /\ req' = [req EXCEPT ![r].pc = "locked"]
         \/ At(r, "retire", "read") /\ req' = [req EXCEPT ![r].pc = "approved"]
  PROVE  req' \in [Clients -> Request]
  <1>0. req \in [Clients -> Request] /\ Idle \in Request
    BY DEF AssetTypeOK, Request
  <1>1. CASE Finish(r)
    BY <1>0, <1>1 DEF Finish
  <1>2. CASE \E rec \in Request : Begin(r, rec)
    BY <1>0, <1>2 DEF Begin
  <1>3. ASSUME NEW pc, req' = [req EXCEPT ![r].pc = pc], [req[r] EXCEPT !.pc = pc] \in Request
        PROVE req' \in [Clients -> Request]
    BY <1>0, <1>3
  <1>4. CASE At(r, "book", "locked") /\ req' = [req EXCEPT ![r].pc = "checked"]
    <2>1. [req[r] EXCEPT !.pc = "checked"] \in Request
      BY <1>0, <1>4 DEF At, Request, Idle
    <2>2. QED
      BY <1>3, <1>4, <2>1
  <1>5. CASE At(r, "approve", "locked") /\ req' = [req EXCEPT ![r].pc = "checked"]
    <2>1. [req[r] EXCEPT !.pc = "checked"] \in Request
      BY <1>0, <1>5 DEF At, Request, Idle
    <2>2. QED
      BY <1>3, <1>5, <2>1
  <1>6. CASE At(r, "approve", "read") /\ req' = [req EXCEPT ![r].pc = "locked"]
    <2>1. [req[r] EXCEPT !.pc = "locked"] \in Request
      BY <1>0, <1>6 DEF At, Request, Idle
    <2>2. QED
      BY <1>3, <1>6, <2>1
  <1>7. CASE At(r, "retire", "read") /\ req' = [req EXCEPT ![r].pc = "approved"]
    <2>1. [req[r] EXCEPT !.pc = "approved"] \in Request
      BY <1>0, <1>7 DEF At, Request, Idle
    <2>2. QED
      BY <1>3, <1>7, <2>1
  <1>8. QED
    BY <1>1, <1>2, <1>4, <1>5, <1>6, <1>7

\* Setting the status of a row that exists keeps the table typed.
LEMMA WriteType ==
  ASSUME AssetTypeOK, NEW b \in Bookings, NEW st \in BookingStatus,
         booking[b].status \in BookingStatus, Write(b, st)
  PROVE  booking' \in [Bookings -> Booking \cup {NoRow}]
  <1>1. booking[b] \in Booking
    BY DEF AssetTypeOK, NoRow, BookingStatus
  <1>2. [booking[b] EXCEPT !.status = st] \in Booking
    BY <1>1 DEF Booking
  <1>3. QED
    BY <1>2 DEF Write, AssetTypeOK

\* A booking has a status of BookingStatus exactly when its row exists.
LEMMA RowStatus ==
  ASSUME AssetTypeOK, NEW b \in Bookings
  PROVE  /\ booking[b].status \in BookingStatus <=> booking[b] # NoRow
         /\ booking[b] # NoRow => booking[b] \in Booking
  <1>1. booking[b] \in Booking \cup {NoRow}
    BY DEF AssetTypeOK
  <1>2. QED
    BY <1>1 DEF Booking, NoRow, BookingStatus

\* Every step keeps the rows, the locks and the requests in their types.
LEMMA TypeStep == AssetTypeOK /\ RowsExist /\ [AssetNext]_assetVars => AssetTypeOK'
  <1> SUFFICES ASSUME AssetTypeOK, RowsExist, [AssetNext]_assetVars PROVE AssetTypeOK'
    OBVIOUS
  <1>a. /\ status \in [Assets -> AssetStatus] /\ lock \in [Assets -> Clients \cup {Nobody}]
        /\ booking \in [Bookings -> Booking \cup {NoRow}]
        /\ audit \in [Audits -> Audit \cup {NoRow}] /\ req \in [Clients -> Request]
    BY DEF AssetTypeOK
  <1>1. CASE UNCHANGED assetVars
    BY <1>a, <1>1 DEF assetVars, AssetTypeOK
  <1>2. ASSUME NEW r \in Clients, NEW s \in Slot, BookLock(r, s) PROVE AssetTypeOK'
    <2>1. [op |-> "book", pc |-> "locked", slot |-> s] \in Request
      BY DEF Request
    <2>2. req' \in [Clients -> Request]
      BY <1>2, <2>1, RequestType DEF BookLock
    <2>3. QED
      BY <1>a, <1>2, <2>2 DEF BookLock, AssetTypeOK, Slot
  <1>3. ASSUME NEW r \in Clients, BookCheck(r) PROVE AssetTypeOK'
    <2>1. req' \in [Clients -> Request]
      BY <1>3, RequestType DEF BookCheck
    <2>2. QED
      BY <1>a, <1>3, <2>1 DEF BookCheck, Release, AssetTypeOK
  <1>4. ASSUME NEW r \in Clients, BookCommit(r) PROVE AssetTypeOK'
    <2>1. req' \in [Clients -> Request]
      BY <1>4, RequestType DEF BookCommit
    <2>2. [slot |-> req[r].slot, status |-> "PENDING"] \in Booking
      BY <1>4, RequestFields DEF BookCommit, At, Booking, BookingStatus
    <2>3. QED
      BY <1>a, <1>4, <2>1, <2>2 DEF BookCommit, Release, AssetTypeOK
  <1>5. ASSUME NEW r \in Clients, NEW b \in Bookings, ApproveRead(r, b) PROVE AssetTypeOK'
    <2>1. booking[b].slot \in Slot
      BY <1>5, RowStatus DEF ApproveRead, BookingStatus, Booking
    <2>2. [op |-> "approve", pc |-> "read", id |-> b, slot |-> booking[b].slot] \in Request
      BY <2>1 DEF Request
    <2>3. req' \in [Clients -> Request]
      BY <1>5, <2>2, RequestType DEF ApproveRead
    <2>4. QED
      BY <1>a, <1>5, <2>3 DEF ApproveRead, AssetTypeOK
  <1>6. ASSUME NEW r \in Clients, ApproveLock(r) PROVE AssetTypeOK'
    <2>1. req' \in [Clients -> Request]
      BY <1>6, RequestType DEF ApproveLock
    <2>2. QED
      BY <1>a, <1>6, <2>1 DEF ApproveLock, AssetTypeOK
  <1>7. ASSUME NEW r \in Clients, ApproveCheck(r) PROVE AssetTypeOK'
    <2>1. req' \in [Clients -> Request]
      BY <1>7, RequestType DEF ApproveCheck
    <2>2. QED
      BY <1>a, <1>7, <2>1 DEF ApproveCheck, Release, AssetTypeOK
  <1>8. ASSUME NEW b \in Bookings, NEW st \in BookingStatus, Claim(b, st)
        PROVE booking' \in [Bookings -> Booking \cup {NoRow}]
    BY <1>a, <1>8, WriteType DEF Claim, BookingStatus
  <1>9. ASSUME NEW r \in Clients, ApproveCommit(r) PROVE AssetTypeOK'
    <2>1. req' \in [Clients -> Request]
      BY <1>9, RequestType DEF ApproveCommit
    <2>2. req[r].id \in Bookings
      BY <1>9, RequestFields DEF ApproveCommit, At
    <2>3. booking' \in [Bookings -> Booking \cup {NoRow}]
      BY <1>8, <1>9, <2>2 DEF ApproveCommit, BookingStatus
    <2>4. QED
      BY <1>a, <1>9, <2>1, <2>3 DEF ApproveCommit, Release, AssetTypeOK
  <1>10. ASSUME NEW r \in Clients, NEW b \in Bookings,
                RejectRead(r, b) \/ CancelRead(r, b) \/ CompleteRead(r, b)
         PROVE AssetTypeOK'
    <2>1. \A op \in {"reject", "cancel", "complete"} : [op |-> op, id |-> b] \in Request
      BY DEF Request
    <2>2. req' \in [Clients -> Request]
      BY <1>10, <2>1, RequestType DEF RejectRead, CancelRead, CompleteRead
    <2>3. QED
      BY <1>a, <1>10, <2>2 DEF RejectRead, CancelRead, CompleteRead, AssetTypeOK
  <1>11. ASSUME NEW r \in Clients, RejectCommit(r) PROVE AssetTypeOK'
    <2>1. req' \in [Clients -> Request] /\ req[r].id \in Bookings
      BY <1>11, RequestType, RequestFields DEF RejectCommit
    <2>2. booking' \in [Bookings -> Booking \cup {NoRow}]
      BY <1>8, <1>11, <2>1 DEF RejectCommit, BookingStatus
    <2>3. QED
      BY <1>a, <1>11, <2>1, <2>2 DEF RejectCommit, AssetTypeOK
  <1>12. ASSUME NEW r \in Clients, CancelCommit(r) \/ CompleteCommit(r) PROVE AssetTypeOK'
    <2>1. req' \in [Clients -> Request] /\ req[r].id \in Bookings
      BY <1>12, RequestType, RequestFields DEF CancelCommit, CompleteCommit
    <2>2. PICK st \in BookingStatus : Write(req[r].id, st)
      BY <1>12 DEF CancelCommit, CompleteCommit, BookingStatus
    <2>3. booking' \in [Bookings -> Booking \cup {NoRow}]
      BY <1>12, <2>1, <2>2, RowStatus, WriteType DEF RowsExist, CancelCommit, CompleteCommit
    <2>4. QED
      BY <1>a, <1>12, <2>1, <2>3 DEF CancelCommit, CompleteCommit, AssetTypeOK
  <1>13. ASSUME NEW r \in Clients, NEW u \in Audits, RetireRead(r, u) PROVE AssetTypeOK'
    <2>1. audit[u].asset \in Assets
      BY <1>a, <1>13 DEF RetireRead, Audit
    <2>2. [op |-> "retire", pc |-> "read", id |-> u, asset |-> audit[u].asset] \in Request
      BY <2>1 DEF Request
    <2>3. req' \in [Clients -> Request]
      BY <1>13, <2>2, RequestType DEF RetireRead
    <2>4. QED
      BY <1>a, <1>13, <2>3 DEF RetireRead, AssetTypeOK
  <1>14. ASSUME NEW r \in Clients, RetireApprove(r) PROVE AssetTypeOK'
    <2>1. req' \in [Clients -> Request] /\ req[r].id \in Audits
      BY <1>14, RequestType, RequestFields DEF RetireApprove, At
    <2>2. audit[req[r].id] \in Audit
      BY <1>a, <1>14, <2>1 DEF RowsExist, RetireApprove, At
    <2>3. [audit[req[r].id] EXCEPT !.approved = TRUE] \in Audit
      BY <2>2 DEF Audit
    <2>4. QED
      BY <1>a, <1>14, <2>1, <2>3 DEF RetireApprove, AssetTypeOK
  <1>15. ASSUME NEW r \in Clients, RetireApply(r) PROVE AssetTypeOK'
    <2>1. req' \in [Clients -> Request] /\ req[r].asset \in Assets
      BY <1>15, RequestType, RequestFields DEF RetireApply, At
    <2>2. QED
      BY <1>a, <1>15, <2>1 DEF RetireApply, AssetTypeOK, AssetStatus
  <1>16. ASSUME NEW r \in Clients, Abort(r) PROVE AssetTypeOK'
    <2>1. req' \in [Clients -> Request]
      BY <1>16, RequestType DEF Abort
    <2>2. QED
      BY <1>a, <1>16, <2>1 DEF Abort, Release, AssetTypeOK
  <1>17. ASSUME NEW a \in Assets, NEW st \in AssetStatus, UpdateAsset(a, st) PROVE AssetTypeOK'
    BY <1>a, <1>17 DEF UpdateAsset, AssetTypeOK
  <1>18. ASSUME NEW u \in Audits, NEW a \in Assets, NEW p \in BOOLEAN, CreateAudit(u, a, p)
         PROVE AssetTypeOK'
    <2>1. [asset |-> a, propose |-> p, approved |-> FALSE] \in Audit
      BY DEF Audit
    <2>2. QED
      BY <1>a, <1>18, <2>1 DEF CreateAudit, AssetTypeOK
  <1>19. QED
    BY <1>1, <1>2, <1>3, <1>4, <1>5, <1>6, <1>7, <1>9, <1>10, <1>11, <1>12, <1>13, <1>14,
       <1>15, <1>16, <1>17, <1>18
       DEF AssetNext, Book, Approve, Cancel, Complete, Retire, Inventory, ScheduleMaintenance,
           AssetStatus

-----------------------------------------------------------------------------
(***************************************************************************)
(* What one step can do to the bookings: book() inserts one row, and every *)
(* other write only changes the status of a row, never from inactive to    *)
(* active.  This is where the atomic claim of approve() matters.           *)
(***************************************************************************)
Inserts(r, b) ==
    /\ BookCommit(r)
    /\ booking[b] = NoRow
    /\ booking' = [booking EXCEPT ![b] = [slot |-> req[r].slot, status |-> "PENDING"]]

Rewrites(b) ==
    /\ booking[b] # NoRow /\ booking'[b] # NoRow
    /\ booking'[b].slot = booking[b].slot
    /\ Active(booking'[b]) => Active(booking[b])
    /\ \A c \in Bookings : c # b => booking'[c] = booking[c]

\* Writing an inactive status, or over PENDING, rewrites the row.
LEMMA RewriteOf ==
  ASSUME AssetTypeOK, NEW b \in Bookings, NEW st \in BookingStatus, booking[b] # NoRow,
         Write(b, st), st \in {"PENDING", "APPROVED"} => booking[b].status = "PENDING"
  PROVE  Rewrites(b)
  <1>1. booking[b] \in Booking /\ booking \in [Bookings -> Booking \cup {NoRow}]
    BY RowStatus DEF AssetTypeOK
  <1>2. booking'[b] = [slot |-> booking[b].slot, status |-> st]
    BY <1>1 DEF Write, Booking
  <1>3. booking'[b] # NoRow
    BY <1>2 DEF NoRow, BookingStatus
  <1>4. \A c \in Bookings : c # b => booking'[c] = booking[c]
    BY <1>1 DEF Write
  <1>5. QED
    BY <1>2, <1>3, <1>4 DEF Rewrites, Active

\* Every write but the insert changes one row.
LEMMA OneRow ==
  ASSUME AssetTypeOK, RowsExist, [AssetNext]_assetVars
  PROVE  \/ booking' = booking
         \/ \E r \in Clients, b \in Bookings : Inserts(r, b)
         \/ \E b \in Bookings : Rewrites(b)
  <1>1. ASSUME NEW r \in Clients, ApproveCommit(r) \/ RejectCommit(r)
        PROVE  booking' = booking \/ \E b \in Bookings : Rewrites(b)
    <2>1. req[r].id \in Bookings /\ booking[req[r].id] # NoRow
      BY <1>1, RequestFields DEF ApproveCommit, RejectCommit, At, RowsExist
    <2>2. PICK st \in {"APPROVED", "REJECTED"} : Claim(req[r].id, st)
      BY <1>1 DEF ApproveCommit, RejectCommit
    <2>3. CASE Write(req[r].id, st) /\ booking[req[r].id].status = "PENDING"
      BY <2>1, <2>3, RewriteOf DEF BookingStatus
    <2>4. QED
      BY <2>2, <2>3 DEF Claim
  <1>2. ASSUME NEW r \in Clients, CancelCommit(r) \/ CompleteCommit(r)
        PROVE  \E b \in Bookings : Rewrites(b)
    <2>1. req[r].id \in Bookings /\ booking[req[r].id] # NoRow
      BY <1>2, RequestFields DEF CancelCommit, CompleteCommit, RowsExist
    <2>2. PICK st \in {"CANCELLED", "COMPLETED"} : Write(req[r].id, st)
      BY <1>2 DEF CancelCommit, CompleteCommit
    <2>3. QED
      BY <2>1, <2>2, RewriteOf DEF BookingStatus
  <1>3. ASSUME NEW r \in Clients, BookCommit(r)
        PROVE  booking' = booking \/ \E b \in Bookings : Inserts(r, b)
    BY <1>3 DEF BookCommit, Inserts
  <1>4. booking' = booking \/ \E r \in Clients :
          \/ BookCommit(r) \/ ApproveCommit(r) \/ RejectCommit(r)
          \/ CancelCommit(r) \/ CompleteCommit(r)
    BY DEF AssetNext, assetVars, Book, Approve, Cancel, Complete, Retire, Abort, Inventory,
           BookLock, BookCheck, ApproveRead, RejectRead, ApproveLock, ApproveCheck,
           CancelRead, CompleteRead, RetireRead, RetireApprove, RetireApply,
           UpdateAsset, ScheduleMaintenance, CreateAudit
  <1>5. QED
    BY <1>1, <1>2, <1>3, <1>4

\* Without an insert, no row becomes active and no slot changes.
Shrinks ==
    \A b \in Bookings :
        \/ booking'[b] = booking[b]
        \/ /\ booking[b] # NoRow /\ booking'[b] # NoRow
           /\ booking'[b].slot = booking[b].slot
           /\ Active(booking'[b]) => Active(booking[b])

LEMMA BookingStep ==
  ASSUME AssetTypeOK, RowsExist, [AssetNext]_assetVars
  PROVE  Shrinks \/ \E r \in Clients, b \in Bookings : Inserts(r, b)
  <1>1. (booking' = booking \/ \E b \in Bookings : Rewrites(b)) => Shrinks
    BY DEF Rewrites, Shrinks
  <1>2. QED
    BY <1>1, OneRow

\* A handler that goes on keeps its fields; pc is all that changes.
LEMMA Advance ==
  ASSUME AssetTypeOK, NEW r \in Clients, NEW pc, req[r].op \in {"book", "approve", "retire"},
         req' = [req EXCEPT ![r].pc = pc]
  PROVE  /\ req'[r].op = req[r].op /\ req'[r].pc = pc
         /\ req[r].op \in {"book", "approve"} => req'[r].slot = req[r].slot
  <1>1. req[r] \in Request /\ req'[r] = [req[r] EXCEPT !.pc = pc]
    BY DEF AssetTypeOK
  <1>2. QED
    BY <1>1 DEF Request, Idle

\* A request is only moved by its own handler.
LEMMA OwnStep ==
  ASSUME AssetTypeOK, [AssetNext]_assetVars, NEW r \in Clients, req'[r] # req[r]
  PROVE  Book(r) \/ Approve(r) \/ Cancel(r) \/ Complete(r) \/ Retire(r) \/ Abort(r)
  <1>1. ASSUME NEW q \in Clients, NEW v, req' = [req EXCEPT ![q] = v] PROVE q = r
    BY <1>1 DEF AssetTypeOK
  <1>2. ASSUME NEW q \in Clients, NEW v, req' = [req EXCEPT ![q].pc = v] PROVE q = r
    BY <1>2 DEF AssetTypeOK
  <1>3. ASSUME NEW q \in Clients, Book(q) PROVE q = r
    BY <1>1, <1>2, <1>3 DEF Book, BookLock, BookCheck, BookCommit, Begin, Finish
  <1>4. ASSUME NEW q \in Clients, Approve(q) PROVE q = r
    BY <1>1, <1>2, <1>4 DEF Approve, ApproveRead, RejectRead, ApproveLock, ApproveCheck,
                            ApproveCommit, RejectCommit, Begin, Finish
  <1>5. ASSUME NEW q \in Clients, Cancel(q) \/ Complete(q) PROVE q = r
    BY <1>1, <1>5 DEF Cancel, CancelRead, CancelCommit, Complete, CompleteRead,
                      CompleteCommit, Begin, Finish
  <1>6. ASSUME NEW q \in Clients, Retire(q) \/ Abort(q) PROVE q = r
    BY <1>1, <1>2, <1>6 DEF Retire, RetireRead, RetireApprove, RetireApply, Abort,
                            Begin, Finish
  <1>7. req' # req
    OBVIOUS
  <1>8. ~Inventory
    BY <1>7 DEF Inventory, UpdateAsset, ScheduleMaintenance, CreateAudit
  <1>9. QED
    BY <1>3, <1>4, <1>5, <1>6, <1>7, <1>8 DEF AssetNext, assetVars

\* Rows stay, and a request keeps pointing at the row it read.
LEMMA RowsStep == AssetTypeOK /\ RowsExist /\ [AssetNext]_assetVars => RowsExist'
  <1> SUFFICES ASSUME AssetTypeOK, RowsExist, [AssetNext]_assetVars, NEW r \in Clients
               PROVE  /\ req'[r].op \in {"approve", "reject", "cancel", "complete"} =>
                           booking'[req'[r].id] # NoRow
                      /\ req'[r].op = "retire" => audit'[req'[r].id] # NoRow
    BY DEF RowsExist
  <1>1. \A b \in Bookings : booking[b] # NoRow => booking'[b] # NoRow
    <2>1. \A q \in Clients, b \in Bookings : Inserts(q, b) =>
            \A c \in Bookings : booking[c] # NoRow => booking'[c] = booking[c]
      BY DEF Inserts, AssetTypeOK
    <2>2. QED
      BY <2>1, BookingStep DEF Shrinks
  <1>2. \A u \in Audits : audit[u] # NoRow => audit'[u] # NoRow
    <2>1. ASSUME NEW q \in Clients, RetireApprove(q)
          PROVE  \A u \in Audits : audit[u] # NoRow => audit'[u] # NoRow
      <3>1. req[q].id \in Audits /\ audit \in [Audits -> Audit \cup {NoRow}]
        BY <2>1, RequestFields DEF RetireApprove, At, AssetTypeOK
      <3>2. audit[req[q].id] \in Audit
        BY <2>1, <3>1 DEF RetireApprove, At, RowsExist
      <3>3. audit'[req[q].id] \in Audit
        BY <2>1, <3>1, <3>2 DEF RetireApprove, Audit
      <3>4. QED
        BY <2>1, <3>1, <3>3 DEF RetireApprove, Audit, NoRow
    <2>2. ASSUME NEW u \in Audits, NEW a \in Assets, NEW p \in BOOLEAN, CreateAudit(u, a, p)
          PROVE  \A v \in Audits : audit[v] # NoRow => audit'[v] # NoRow
      BY <2>2 DEF CreateAudit, AssetTypeOK
    <2>3. \/ audit' = audit
          \/ \E q \in Clients : RetireApprove(q)
          \/ \E u \in Audits, a \in Assets, p \in BOOLEAN : CreateAudit(u, a, p)
      BY DEF AssetNext, assetVars, Book, Approve, Cancel, Complete, Retire, Abort, Inventory,
             BookLock, BookCheck, BookCommit, ApproveRead, RejectRead, ApproveLock,
             ApproveCheck, ApproveCommit, RejectCommit, CancelRead, CancelCommit,
             CompleteRead, CompleteCommit, RetireRead, RetireApply,
             UpdateAsset, ScheduleMaintenance
    <2>4. QED
      BY <2>1, <2>2, <2>3
  <1>3. CASE req'[r] = req[r]
    BY <1>1, <1>2, <1>3, RequestFields DEF RowsExist
  <1>4. CASE req'[r] # req[r]
    <2>1. req \in [Clients -> Request]
      BY DEF AssetTypeOK
    <2>2. \/ req'[r].op \in {"idle", "book"}
          \/ \E b \in Bookings : booking[b] # NoRow /\ req'[r].id = b /\ req'[r].op # "retire"
          \/ \E u \in Audits : audit[u] # NoRow /\ req'[r].id = u /\ req'[r].op = "retire"
      <3>1. CASE Book(r) \/ Abort(r)
        <4>1. ASSUME Finish(r) PROVE req'[r].op = "idle"
          BY <2>1, <4>1 DEF Finish, Idle
        <4>2. ASSUME NEW s \in Slot, BookLock(r, s) PROVE req'[r].op = "book"
          BY <2>1, <4>2 DEF BookLock, Begin
        <4>3. ASSUME BookCheck(r) PROVE req'[r].op \in {"idle", "book"}
          BY <4>1, <4>3, Advance DEF BookCheck, At
        <4>4. QED
          BY <3>1, <4>1, <4>2, <4>3 DEF Book, BookCommit, Abort
      <3>2. CASE Cancel(r) \/ Complete(r)
        <4>1. \/ req'[r] = Idle
              \/ \E b \in Bookings : booking[b].status \in BookingStatus
                   /\ req'[r] \in [op : {"cancel", "complete"}, id : {b}]
          BY <2>1, <3>2 DEF Cancel, CancelRead, CancelCommit, Complete, CompleteRead,
                            CompleteCommit, Begin, Finish, BookingStatus
        <4>2. QED
          BY <4>1, RowStatus DEF Idle
      <3>3. CASE Approve(r)
        <4>1. CASE \E b \in Bookings : ApproveRead(r, b) \/ RejectRead(r, b)
          <5>1. PICK b \in Bookings : ApproveRead(r, b) \/ RejectRead(r, b)
            BY <4>1
          <5>2. booking[b] # NoRow
            BY <5>1 DEF ApproveRead, RejectRead, NoRow
          <5>3. req'[r].id = b /\ req'[r].op # "retire"
            BY <2>1, <5>1 DEF ApproveRead, RejectRead, Begin
          <5>4. QED
            BY <5>2, <5>3
        <4>2. CASE ApproveLock(r) \/ ApproveCheck(r) \/ ApproveCommit(r) \/ RejectCommit(r)
          <5>1. \/ req'[r] = Idle
                \/ /\ req[r].op = "approve"
                   /\ \E pc \in {"locked", "checked"} : req'[r] = [req[r] EXCEPT !.pc = pc]
            BY <2>1, <4>2 DEF ApproveLock, ApproveCheck, ApproveCommit, RejectCommit,
                              Finish, At
          <5>2. CASE req[r].op = "approve" /\ req'[r] # Idle
            <6>1. req'[r].id = req[r].id /\ req'[r].op = "approve"
              BY <2>1, <5>1, <5>2 DEF Request, Idle
            <6>2. QED
              BY <5>2, <6>1, RequestFields DEF RowsExist
          <5>3. QED
            BY <5>1, <5>2 DEF Idle
        <4>3. QED
          BY <3>3, <4>1, <4>2 DEF Approve
      <3>4. CASE Retire(r)
        <4>1. ASSUME NEW u \in Audits, RetireRead(r, u)
              PROVE  audit[u] # NoRow /\ req'[r].id = u /\ req'[r].op = "retire"
          BY <2>1, <4>1 DEF RetireRead, Begin
        <4>2. ASSUME RetireApprove(r)
              PROVE  /\ audit[req[r].id] # NoRow /\ req[r].id \in Audits
                     /\ req'[r].id = req[r].id /\ req'[r].op = "retire"
          <5>1. req[r].op = "retire" /\ req'[r] = [req[r] EXCEPT !.pc = "approved"]
            BY <2>1, <4>2 DEF RetireApprove, At
          <5>2. req'[r].id = req[r].id /\ req'[r].op = "retire"
            BY <2>1, <5>1 DEF Request, Idle
          <5>3. QED
            BY <5>1, <5>2, RequestFields DEF RowsExist
        <4>3. RetireApply(r) => req'[r].op = "idle"
          BY <2>1 DEF RetireApply, Finish, Idle
        <4>4. QED
          BY <3>4, <4>1, <4>2, <4>3 DEF Retire
      <3>5. QED
        BY <1>4, <3>1, <3>2, <3>3, <3>4, OwnStep
    <2>3. QED
      BY <1>1, <1>2, <2>2
  <1>5. QED
    BY <1>3, <1>4

-----------------------------------------------------------------------------
\* The lock of an asset changes hands only through a free lock, and only its holder's own
\* step releases it.
LEMMA LockStep ==
  ASSUME AssetTypeOK, [AssetNext]_assetVars, NEW r \in Clients, NEW a \in Assets, lock[a] = r,
         req'[r] = req[r]
  PROVE  lock'[a] = r \/ req[r].op = "idle"
  <1>1. CASE lock' = lock
    BY <1>1
  <1>2. ASSUME NEW q \in Clients, lock[a] # q, Release(q) PROVE lock'[a] = r
    BY <1>2 DEF Release
  <1>3. ASSUME NEW q \in Clients, NEW c \in Assets, lock[c] = Nobody,
               lock' = [lock EXCEPT ![c] = q]
        PROVE  lock'[a] = r
    BY <1>3, NoneAssumption DEF AssetTypeOK
  <1>4. ASSUME NEW q \in Clients, Finish(q), q = r PROVE req[r].op = "idle"
    BY <1>4 DEF Finish, AssetTypeOK, Idle
  <1>5. \/ lock' = lock
        \/ \E q \in Clients : Finish(q) /\ Release(q)
        \/ \E q \in Clients, c \in Assets : lock[c] = Nobody /\ lock' = [lock EXCEPT ![c] = q]
    <2>1. ASSUME NEW q \in Clients, NEW s \in Slot, BookLock(q, s)
          PROVE  \E c \in Assets : lock[c] = Nobody /\ lock' = [lock EXCEPT ![c] = q]
      BY <2>1 DEF BookLock, Slot
    <2>2. ASSUME NEW q \in Clients, ApproveLock(q)
          PROVE  \E c \in Assets : lock[c] = Nobody /\ lock' = [lock EXCEPT ![c] = q]
      <3>1. req[q].slot.asset \in Assets
        BY <2>2, RequestFields DEF ApproveLock, At, Slot
      <3>2. QED
        BY <2>2, <3>1 DEF ApproveLock
    <2>3. QED
      BY <2>1, <2>2 DEF AssetNext, assetVars, Book, Approve, Cancel, Complete, Retire,
         Abort, Inventory,
             BookCheck, BookCommit, ApproveRead, RejectRead, ApproveCheck, ApproveCommit,
             RejectCommit, CancelRead, CancelCommit, CompleteRead, CompleteCommit,
             RetireRead, RetireApprove, RetireApply, UpdateAsset, ScheduleMaintenance,
             CreateAudit
  <1>6. QED
    BY <1>1, <1>2, <1>3, <1>4, <1>5

\* What r's own step does to r, its asset's lock and what r knows.
LEMMA LockHeldStep == AssetTypeOK /\ LockHeld /\ [AssetNext]_assetVars => LockHeld'
  <1> SUFFICES ASSUME AssetTypeOK, LockHeld, [AssetNext]_assetVars, NEW r \in Clients
               PROVE  /\ req'[r].op = "book" => lock'[req'[r].slot.asset] = r
                      /\ req'[r].op = "approve" /\ req'[r].pc # "read" =>
                           lock'[req'[r].slot.asset] = r
    BY DEF LockHeld
  <1>0. req \in [Clients -> Request] /\ lock \in [Assets -> Clients \cup {Nobody}]
    BY DEF AssetTypeOK
  <1>1. CASE req'[r] = req[r]
    <2>1. req[r].op \in {"book", "approve"} => req[r].slot.asset \in Assets
      BY RequestFields DEF Slot
    <2>2. QED
      BY <1>1, <2>1, LockStep DEF LockHeld
  <1>2. CASE req'[r] # req[r]
    <2>1. CASE req'[r] = Idle
      BY <2>1 DEF Idle
    <2>2. ASSUME NEW s \in Slot, BookLock(r, s) PROVE lock'[req'[r].slot.asset] = r
      BY <1>0, <2>2 DEF BookLock, Begin, Slot
    <2>3. ASSUME BookCheck(r), req'[r] # Idle PROVE lock'[req'[r].slot.asset] = r
      <3>1. req' = [req EXCEPT ![r].pc = "checked"] /\ lock' = lock /\ req[r].op = "book"
        BY <1>0, <2>3 DEF BookCheck, Finish, At
      <3>2. QED
        BY <3>1, Advance DEF LockHeld
    <2>4. ASSUME ApproveLock(r) PROVE lock'[req'[r].slot.asset] = r
      <3>1. req'[r].slot = req[r].slot
        BY <2>4, Advance DEF ApproveLock, At
      <3>2. req[r].slot.asset \in Assets
        BY <2>4, RequestFields DEF ApproveLock, At, Slot
      <3>3. QED
        BY <1>0, <2>4, <3>1, <3>2 DEF ApproveLock
    <2>5. ASSUME ApproveCheck(r), req'[r] # Idle PROVE lock'[req'[r].slot.asset] = r
      <3>1. /\ req' = [req EXCEPT ![r].pc = "checked"] /\ lock' = lock
            /\ req[r].op = "approve" /\ req[r].pc = "locked"
        BY <1>0, <2>5 DEF ApproveCheck, Finish, At
      <3>2. QED
        BY <3>1, Advance DEF LockHeld
    <2>6. ASSUME NEW b \in Bookings, ApproveRead(r, b)
          PROVE req'[r].pc = "read" /\ req'[r].op = "approve"
      BY <1>0, <2>6 DEF ApproveRead, Begin
    <2>7. ASSUME NEW b \in Bookings, RejectRead(r, b) \/ CancelRead(r, b) \/ CompleteRead(r, b)
          PROVE  req'[r].op \in {"reject", "cancel", "complete"}
      BY <1>0, <2>7 DEF RejectRead, CancelRead, CompleteRead, Begin
    <2>8. ASSUME Retire(r), req'[r] # Idle PROVE req'[r].op = "retire"
      <3>1. ASSUME RetireApprove(r) PROVE req'[r].op = "retire"
        BY <3>1, Advance DEF RetireApprove, At
      <3>2. QED
        BY <1>0, <2>8, <3>1 DEF Retire, RetireRead, RetireApply, Begin, Finish
    <2>9. ASSUME Finish(r) PROVE req'[r] = Idle
      BY <1>0, <2>9 DEF Finish
    <2>10. QED
      BY <1>2, <2>1, <2>2, <2>3, <2>4, <2>5, <2>6, <2>7, <2>8, <2>9, OwnStep
         DEF Book, BookCommit, Approve, ApproveCommit, RejectCommit, Cancel, CancelCommit,
             Complete, CompleteCommit, Abort
  <1>3. QED
    BY <1>1, <1>2

\* While a request holds the lock of its asset, nobody retires the asset or gives one of
\* its intervals away: what its check found stays true.
LEMMA CheckHoldsStep == IInv /\ [AssetNext]_assetVars => CheckHolds'
  <1> SUFFICES ASSUME IInv, [AssetNext]_assetVars, NEW r \in Clients, At(r, "book", "checked")'
               PROVE  /\ status'[req'[r].slot.asset] # "RETIRED"
                      /\ \A b \in Bookings : Active(booking'[b]) =>
                           ~Clash(req'[r].slot, booking'[b].slot)
    BY DEF CheckHolds, At
  <1>0. /\ AssetTypeOK /\ RowsExist /\ LockHeld /\ CheckHolds
        /\ req \in [Clients -> Request] /\ lock \in [Assets -> Clients \cup {Nobody}]
        /\ status \in [Assets -> AssetStatus]
    BY DEF IInv, AssetTypeOK
  <1>1. CASE BookCheck(r) /\ req' = [req EXCEPT ![r].pc = "checked"]
    <2>1. req[r].op = "book" /\ req'[r].slot = req[r].slot
      BY <1>0, <1>1, Advance DEF BookCheck, At
    <2>2. req[r].slot \in Slot /\ Idle.op = "idle"
      BY <1>0, <2>1, RequestFields DEF Idle
    <2>3. /\ Holders({"PENDING", "APPROVED"}, req[r].slot) = {}
          /\ status[req[r].slot.asset] # "RETIRED"
      <3>1. req'[r].op = "book" /\ [req EXCEPT ![r] = Idle][r] = Idle
        BY <1>0, <1>1, <2>1, Advance
      <3>2. req' # [req EXCEPT ![r] = Idle]
        BY <2>2, <3>1
      <3>3. QED
        BY <1>1, <3>2 DEF BookCheck, Finish
    <2>4. UNCHANGED <<status, booking>>
      BY <1>1 DEF BookCheck
    <2>5. QED
      BY <2>1, <2>3, <2>4 DEF Holders, Active
  <1>2. CASE req'[r] = req[r]
    <2>1. req[r].op = "book" /\ req[r].pc = "checked" /\ req'[r].slot = req[r].slot
      BY <1>2 DEF At
    <2>2. /\ req[r].slot \in Slot /\ req[r].slot.asset \in Assets
          /\ lock[req[r].slot.asset] = r /\ lock[req[r].slot.asset] # Nobody
      BY <1>0, <2>1, RequestFields, NoneAssumption DEF LockHeld, Slot
    <2>3. /\ status[req[r].slot.asset] # "RETIRED"
          /\ \A b \in Bookings : Active(booking[b]) => ~Clash(req[r].slot, booking[b].slot)
      BY <1>0, <2>1 DEF CheckHolds, At
    <2>4. status'[req[r].slot.asset] = status[req[r].slot.asset]
      <3>1. ASSUME NEW a \in Assets, NEW st, lock[a] = Nobody, status' = [status EXCEPT ![a] = st]
            PROVE  status'[req[r].slot.asset] = status[req[r].slot.asset]
        BY <1>0, <2>2, <3>1
      <3>2. ASSUME NEW q \in Clients, RetireApply(q)
            PROVE  status'[req[r].slot.asset] = status[req[r].slot.asset]
        <4>1. req[q].asset \in Assets
          BY <1>0, <3>2, RequestFields DEF RetireApply, At
        <4>2. QED
          BY <3>1, <3>2, <4>1 DEF RetireApply
      <3>3. \/ status' = status
            \/ \E q \in Clients : RetireApply(q)
            \/ \E a \in Assets, st \in AssetStatus : UpdateAsset(a, st)
        BY DEF AssetNext, assetVars, Book, Approve, Cancel, Complete, Retire, Abort, Inventory,
               BookLock, BookCheck, BookCommit, ApproveRead, RejectRead, ApproveLock,
               ApproveCheck, ApproveCommit, RejectCommit, CancelRead, CancelCommit,
               CompleteRead, CompleteCommit, RetireRead, RetireApprove, CreateAudit,
               ScheduleMaintenance, AssetStatus
      <3>4. QED
        BY <3>1, <3>2, <3>3 DEF UpdateAsset
    <2>5. ASSUME NEW q \in Clients, NEW c \in Bookings, Inserts(q, c),
                 NEW b \in Bookings, Active(booking'[b])
          PROVE  ~Clash(req[r].slot, booking'[b].slot)
      <3>1. req[q].op = "book" /\ req[q].pc = "checked"
        BY <2>5 DEF Inserts, BookCommit, At
      <3>2. lock[req[q].slot.asset] = q
        BY <1>0, <3>1 DEF LockHeld
      <3>3. q # r
        BY <1>0, <1>2, <2>1, <2>5 DEF Inserts, BookCommit, Finish, Idle
      <3>4. req[q].slot.asset # req[r].slot.asset
        BY <2>2, <3>2, <3>3
      <3>5. b # c => booking'[b] = booking[b]
        BY <1>0, <2>5 DEF Inserts, AssetTypeOK
      <3>6. b = c => booking'[b] = [slot |-> req[q].slot, status |-> "PENDING"]
        BY <1>0, <2>5 DEF Inserts, AssetTypeOK
      <3>7. QED
        BY <2>3, <2>5, <3>4, <3>5, <3>6 DEF Clash
    <2>6. ASSUME Shrinks, NEW b \in Bookings, Active(booking'[b])
          PROVE  ~Clash(req[r].slot, booking'[b].slot)
      BY <2>3, <2>6 DEF Shrinks
    <2>7. QED
      BY <1>0, <2>1, <2>3, <2>4, <2>5, <2>6, BookingStep
  <1>3. CASE req'[r] # req[r] /\ ~(BookCheck(r) /\ req' = [req EXCEPT ![r].pc = "checked"])
    <2>1. req'[r].op = "book" /\ req'[r].pc = "checked"
      BY DEF At
    <2>2. ~Finish(r)
      BY <1>0, <2>1 DEF Finish, Idle
    <2>3. req'[r] # Idle
      BY <2>1 DEF Idle
    <2>4. ~Book(r)
      <3>1. ASSUME NEW s \in Slot, BookLock(r, s) PROVE FALSE
        <4>1. req'[r].pc = "locked"
          BY <1>0, <3>1 DEF BookLock, Begin
        <4>2. QED
          BY <2>1, <4>1
      <3>2. QED
        BY <1>3, <2>2, <3>1 DEF Book, BookCheck, BookCommit
    <2>5. ~Approve(r)
      <3>1. ~ApproveLock(r) /\ ~ApproveCheck(r)
        BY <1>0, <2>1, <2>2, Advance DEF ApproveLock, ApproveCheck, At
      <3>2. ASSUME NEW b \in Bookings, ApproveRead(r, b) \/ RejectRead(r, b) PROVE FALSE
        <4>1. req'[r].op \in {"approve", "reject"}
          BY <1>0, <3>2 DEF ApproveRead, RejectRead, Begin
        <4>2. QED
          BY <2>1, <4>1
      <3>3. QED
        BY <2>2, <3>1, <3>2 DEF Approve, ApproveCommit, RejectCommit
    <2>6. ~Cancel(r) /\ ~Complete(r) /\ ~Abort(r)
      <3>1. ASSUME NEW b \in Bookings, CancelRead(r, b) \/ CompleteRead(r, b) PROVE FALSE
        <4>1. req'[r].op \in {"cancel", "complete"}
          BY <1>0, <3>1 DEF CancelRead, CompleteRead, Begin
        <4>2. QED
          BY <2>1, <4>1
      <3>2. QED
        BY <2>2, <3>1 DEF Cancel, CancelCommit, Complete, CompleteCommit, Abort
    <2>7. ~Retire(r)
      <3>1. ~RetireApprove(r)
        BY <1>0, <2>1, Advance DEF RetireApprove, At
      <3>2. ASSUME NEW u \in Audits, RetireRead(r, u) PROVE FALSE
        <4>1. req'[r].op = "retire"
          BY <1>0, <3>2 DEF RetireRead, Begin
        <4>2. QED
          BY <2>1, <4>1
      <3>3. QED
        BY <2>2, <3>1, <3>2 DEF Retire, RetireApply
    <2>8. QED
      BY <1>0, <1>3, <2>4, <2>5, <2>6, <2>7, OwnStep
  <1>4. QED
    BY <1>1, <1>2, <1>3

-----------------------------------------------------------------------------
\* An insert relies on what its check found; every other write only gives slots up.
LEMMA NoDoubleBookingStep == IInv /\ [AssetNext]_assetVars => NoDoubleBooking'
  <1> SUFFICES ASSUME IInv, [AssetNext]_assetVars, NEW b \in Bookings, NEW c \in Bookings, b # c,
                      Active(booking'[b]), Active(booking'[c])
               PROVE  ~Clash(booking'[b].slot, booking'[c].slot)
    BY DEF NoDoubleBooking, Active
  <1>0. AssetTypeOK /\ RowsExist /\ CheckHolds /\ NoDoubleBooking
        /\ booking \in [Bookings -> Booking \cup {NoRow}]
    BY DEF IInv, AssetTypeOK
  <1>1. CASE Shrinks
    BY <1>0, <1>1 DEF Shrinks, NoDoubleBooking
  <1>2. ASSUME NEW r \in Clients, NEW d \in Bookings, Inserts(r, d)
        PROVE  ~Clash(booking'[b].slot, booking'[c].slot)
    <2>1. At(r, "book", "checked")
      BY <1>2 DEF Inserts, BookCommit
    <2>2. \A e \in Bookings : Active(booking[e]) => ~Clash(req[r].slot, booking[e].slot)
      BY <1>0, <2>1 DEF CheckHolds
    <2>3. booking'[d].slot = req[r].slot
      BY <1>0, <1>2 DEF Inserts
    <2>4. \A e \in Bookings : e # d => booking'[e] = booking[e]
      BY <1>0, <1>2 DEF Inserts
    <2>5. CASE b = d
      BY <2>2, <2>3, <2>4, <2>5
    <2>6. CASE c = d
      <3>1. ~Clash(req[r].slot, booking[b].slot)
        BY <2>2, <2>4, <2>6
      <3>2. ~Clash(booking[b].slot, req[r].slot)
        BY <3>1 DEF Clash, Overlap
      <3>3. QED
        BY <2>3, <2>4, <2>6, <3>2
    <2>7. CASE b # d /\ c # d
      BY <1>0, <2>4, <2>7 DEF NoDoubleBooking
    <2>8. QED
      BY <2>5, <2>6, <2>7
  <1>3. QED
    BY <1>0, <1>1, <1>2, BookingStep

\* The invariant is inductive.
LEMMA IInvStep == IInv /\ [AssetNext]_assetVars => IInv'
  BY TypeStep, RowsStep, LockHeldStep, CheckHoldsStep, NoDoubleBookingStep DEF IInv

\* The invariant holds in every reachable state.
THEOREM Invariance == AssetSpec => []IInv
  <1>1. QED
    BY InitInv, IInvStep, PTL DEF AssetSpec

-----------------------------------------------------------------------------
(* Results *)

\* Type correctness of the rows, the locks and the requests in flight.
THEOREM TypeCorrect == AssetSpec => []AssetTypeOK
  <1>1. IInv => AssetTypeOK
    BY DEF IInv
  <1>2. QED
    BY <1>1, Invariance, PTL

\* PERF-04 for any number of assets, bookings and concurrent requests: no two bookings
\* of one asset that are PENDING or APPROVED overlap.
THEOREM Safety == AssetSpec => []NoDoubleBooking
  <1>1. IInv => NoDoubleBooking
    BY DEF IInv
  <1>2. QED
    BY <1>1, Invariance, PTL

\* A booking that appears was inserted by a book() whose check of the asset still holds.
LEMMA InsertStep ==
  ASSUME IInv, [AssetNext]_assetVars, NEW b \in Bookings, booking[b] = NoRow, booking'[b] # NoRow
  PROVE  status[booking'[b].slot.asset] # "RETIRED"
  <1>1. PICK r \in Clients, c \in Bookings : Inserts(r, c)
    BY BookingStep DEF IInv, Shrinks
  <1>2. booking \in [Bookings -> Booking \cup {NoRow}]
    BY DEF IInv, AssetTypeOK
  <1>3. b = c /\ booking'[b].slot = req[r].slot
    BY <1>1, <1>2 DEF Inserts
  <1>4. status[req[r].slot.asset] # "RETIRED"
    BY <1>1 DEF Inserts, BookCommit, IInv, CheckHolds
  <1>5. QED
    BY <1>3, <1>4

\* No booking is ever created on an asset that is RETIRED at that moment.
THEOREM RetiredIsNotBooked == AssetSpec => NoBookingOfRetired
  <1>1. IInv /\ [AssetNext]_assetVars =>
          [\A b \in Bookings : booking[b] = NoRow /\ booking'[b] # NoRow =>
             status[booking'[b].slot.asset] # "RETIRED"]_assetVars
    BY InsertStep
  <1>2. QED
    BY <1>1, Invariance, PTL DEF AssetSpec, NoBookingOfRetired

-----------------------------------------------------------------------------
(***************************************************************************)
(* AssetBooking implements BookingCalendar.  A step is an insert, which is *)
(* Reserve, or a write to one row that exists, which is Release when it    *)
(* ends an active booking and a stutter otherwise.                         *)
(***************************************************************************)
\* The initial state of the tables is the empty calendar.
LEMMA RefineInit == AssetInit => Calendar!Init
  BY DEF AssetInit, Calendar!Init, Held, Calendar!New

\* Every step of the handlers is a step of the calendar or leaves it unchanged.
LEMMA RefineStep == IInv /\ [AssetNext]_assetVars => [Calendar!Next]_(Calendar!vars)
  <1> SUFFICES ASSUME IInv, [AssetNext]_assetVars PROVE Calendar!Next \/ Held' = Held
    BY DEF Calendar!vars
  <1>0. AssetTypeOK /\ RowsExist /\ CheckHolds /\ booking \in [Bookings -> Booking \cup {NoRow}]
    BY DEF IInv, AssetTypeOK
  <1>1. CASE booking' = booking
    BY <1>1 DEF Held, Active
  <1>2. ASSUME NEW r \in Clients, NEW b \in Bookings, Inserts(r, b) PROVE Calendar!Next
    <2>1. At(r, "book", "checked") /\ req[r].slot \in Slot
      BY <1>0, <1>2, RequestFields DEF Inserts, BookCommit, At
    <2>2. Held[b] = Calendar!New
      BY <1>2 DEF Held, Inserts, Calendar!New
    <2>3. ASSUME NEW c \in Bookings, Held[c] \in Slot PROVE ~Clash(req[r].slot, Held[c])
      <3>1. booking[c] # NoRow /\ Active(booking[c]) /\ Held[c] = booking[c].slot
        BY <2>3 DEF Held, Slot
      <3>2. QED
        BY <1>0, <2>1, <3>1 DEF CheckHolds
    <2>4. Held' = [Held EXCEPT ![b] = req[r].slot]
      <3>1. booking'[b] = [slot |-> req[r].slot, status |-> "PENDING"]
        BY <1>0, <1>2 DEF Inserts
      <3>2. booking'[b] # NoRow /\ Active(booking'[b])
        BY <3>1 DEF NoRow, Active
      <3>3. \A c \in Bookings : c # b => booking'[c] = booking[c]
        BY <1>0, <1>2 DEF Inserts
      <3>4. Held'[b] = req[r].slot
        BY <3>1, <3>2 DEF Held, Active
      <3>5. \A c \in Bookings : c # b => Held'[c] = Held[c]
        BY <3>3 DEF Held, Active
      <3>6. QED
        BY <3>4, <3>5 DEF Held
    <2>5. Calendar!Reserve(b, req[r].slot)
      BY <2>2, <2>3, <2>4 DEF Calendar!Reserve
    <2>6. QED
      BY <2>1, <2>5 DEF Calendar!Next
  <1>3. ASSUME NEW b \in Bookings, Rewrites(b) PROVE Calendar!Next \/ Held' = Held
    <2>1. booking[b].slot \in Slot
      BY <1>0, <1>3 DEF Rewrites, Booking
    <2>2. CASE Active(booking[b]) /\ ~Active(booking'[b])
      <3>1. Held[b] = booking[b].slot
        BY <1>3, <2>2 DEF Held, Rewrites
      <3>2. Held' = [Held EXCEPT ![b] = Calendar!Gone]
        BY <1>3, <2>2 DEF Held, Rewrites, Active, Calendar!Gone
      <3>3. QED
        BY <2>1, <3>1, <3>2 DEF Calendar!Release, Calendar!Next
    <2>3. CASE Active(booking[b]) <=> Active(booking'[b])
      BY <1>3, <2>3 DEF Held, Rewrites, Active
    <2>4. QED
      BY <1>3, <2>2, <2>3 DEF Rewrites
  <1>4. QED
    BY <1>0, <1>1, <1>2, <1>3, OneRow

\* M-04: the handlers implement the calendar, so a slot that was given up is never taken
\* back, and no reservation is ever made over a held slot.
THEOREM Refinement == AssetSpec => CalendarSpec
  <1>1. QED
    BY RefineInit, RefineStep, Invariance, PTL DEF AssetSpec, CalendarSpec, Calendar!Spec
=============================================================================
