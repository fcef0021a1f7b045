---------------------------- MODULE AssetBooking ----------------------------
(***************************************************************************)
(* Assets, their bookings and their stocktaking audits: the handlers of    *)
(* asset/services/asset-booking.service.ts, asset.service.ts and           *)
(* asset-maintenance-audit.service.ts, with the rows of the Prisma store.  *)
(*                                                                         *)
(* Each request runs in a slot of `req`.  book() and approve() take the    *)
(* asset's row lock (SELECT ... FOR UPDATE) as their first statement and   *)
(* keep it until commit, so the lock, the check and the write are separate *)
(* steps here; the other handlers read outside any transaction and write   *)
(* later.  Abort is a rollback or a crash: it releases the lock.           *)
(***************************************************************************)
EXTENDS Integers

CONSTANTS
    Assets,
    Bookings,       \* ids of AssetBooking rows
    Audits,         \* ids of AssetAudit rows
    Instants,       \* the times bookings start and end at
    Clients,       \* slots for concurrent requests
    Nobody

ASSUME InstantsAssumption == Instants \subseteq Int
ASSUME NoneAssumption == Nobody \notin Clients

VARIABLES
    status,     \* Asset.status
    lock,       \* the transaction that holds the asset's row lock, or Nobody
    booking,    \* the AssetBooking rows, or NoRow
    audit,      \* the AssetAudit rows, or NoRow
    req         \* the requests in flight

assetVars == <<status, lock, booking, audit, req>>

-----------------------------------------------------------------------------
(* Rows *)

AssetStatus == {"AVAILABLE", "BOOKED", "MAINTENANCE", "RETIRED"}
BookingStatus == {"PENDING", "APPROVED", "REJECTED", "CANCELLED", "COMPLETED"}
Interval == {i \in [from : Instants, to : Instants] : i.from < i.to}
Slot == [asset : Assets, time : Interval]

NoRow == [status |-> "NO_ROW"]
Booking == [slot : Slot, status : BookingStatus]
Audit == [asset : Assets, propose : BOOLEAN, approved : BOOLEAN]

Idle == [op |-> "idle"]
Request ==
    {Idle}
    \cup [op : {"book"}, pc : {"locked", "checked"}, slot : Slot]
    \cup [op : {"approve"}, pc : {"read", "locked", "checked"}, id : Bookings, slot : Slot]
    \cup [op : {"reject", "cancel", "complete"}, id : Bookings]
    \cup [op : {"retire"}, pc : {"read", "approved"}, id : Audits, asset : Assets]

Active(row) == row.status \in {"PENDING", "APPROVED"}

\* isTimeOverlap, on one asset
Overlap(i, j) == i.from < j.to /\ j.from < i.to
Clash(s, t) == s.asset = t.asset /\ Overlap(s.time, t.time)

AssetTypeOK ==
    /\ status \in [Assets -> AssetStatus]
    /\ lock \in [Assets -> Clients \cup {Nobody}]
    /\ booking \in [Bookings -> Booking \cup {NoRow}]
    /\ audit \in [Audits -> Audit \cup {NoRow}]
    /\ req \in [Clients -> Request]

AssetInit ==
    /\ status = [a \in Assets |-> "AVAILABLE"]
    /\ lock = [a \in Assets |-> Nobody]
    /\ booking = [b \in Bookings |-> NoRow]
    /\ audit = [u \in Audits |-> NoRow]
    /\ req = [r \in Clients |-> Idle]

-----------------------------------------------------------------------------
(* Helpers *)

Holders(statuses, s) ==
    {b \in Bookings : booking[b].status \in statuses /\ Clash(s, booking[b].slot)}

Release(r) == lock' = [a \in Assets |-> IF lock[a] = r THEN Nobody ELSE lock[a]]
Finish(r) == req' = [req EXCEPT ![r] = Idle]
Begin(r, rec) == req[r] = Idle /\ req' = [req EXCEPT ![r] = rec]
At(r, op, pc) == req[r].op = op /\ req[r].pc = pc

Write(b, st) == booking' = [booking EXCEPT ![b].status = st]

-----------------------------------------------------------------------------
(* book *)

\* Mutant: the asset is read without FOR UPDATE.
BookLockDropped(r, s) ==
    /\ Begin(r, [op |-> "book", pc |-> "locked", slot |-> s])
    /\ UNCHANGED <<status, lock, booking, audit>>

BookLock(r, s) ==
    /\ lock[s.asset] = Nobody
    /\ Begin(r, [op |-> "book", pc |-> "locked", slot |-> s])
    /\ lock' = [lock EXCEPT ![s.asset] = r]
    /\ UNCHANGED <<status, booking, audit>>

\* Mutant: the check commits, and releases the lock, before the insert.
BookCheckCommits(r) ==
    /\ At(r, "book", "locked")
    /\ LET s == req[r].slot IN
        IF status[s.asset] # "RETIRED" /\ Holders({"PENDING", "APPROVED"}, s) = {}
        THEN req' = [req EXCEPT ![r].pc = "checked"] ELSE Finish(r)
    /\ Release(r)
    /\ UNCHANGED <<status, booking, audit>>

\* A retired asset or a conflict with a PENDING or APPROVED booking rolls back.
BookCheck(r) ==
    /\ At(r, "book", "locked")
    /\ LET s == req[r].slot IN
        IF status[s.asset] # "RETIRED" /\ Holders({"PENDING", "APPROVED"}, s) = {}
        THEN req' = [req EXCEPT ![r].pc = "checked"] /\ UNCHANGED lock
        ELSE Finish(r) /\ Release(r)
    /\ UNCHANGED <<status, booking, audit>>

\* The bound on bookings: with every id in use the insert fails.
Full == \A b \in Bookings : booking[b] # NoRow

BookCommit(r) ==
    /\ At(r, "book", "checked")
    /\ \/ \E b \in Bookings :
            /\ booking[b] = NoRow
            /\ booking' = [booking EXCEPT ![b] = [slot |-> req[r].slot, status |-> "PENDING"]]
       \/ Full /\ UNCHANGED booking
    /\ Finish(r)
    /\ Release(r)
    /\ UNCHANGED <<status, audit>>

-----------------------------------------------------------------------------
(* approve: both branches read the booking before their transaction *)

ApproveRead(r, b) ==
    /\ booking[b].status = "PENDING"
    /\ Begin(r, [op |-> "approve", pc |-> "read", id |-> b, slot |-> booking[b].slot])
    /\ UNCHANGED <<status, lock, booking, audit>>

ApproveLock(r) ==
    /\ At(r, "approve", "read")
    /\ lock[req[r].slot.asset] = Nobody
    /\ lock' = [lock EXCEPT ![req[r].slot.asset] = r]
    /\ req' = [req EXCEPT ![r].pc = "locked"]
    /\ UNCHANGED <<status, booking, audit>>

ApproveCheck(r) ==
    /\ At(r, "approve", "locked")
    /\ IF Holders({"APPROVED"}, req[r].slot) \ {req[r].id} = {}
       THEN req' = [req EXCEPT ![r].pc = "checked"] /\ UNCHANGED lock
       ELSE Finish(r) /\ Release(r)
    /\ UNCHANGED <<status, booking, audit>>

\* Mutant: the update is by id alone.
ClaimById(b, st) == Write(b, st)

\* updateMany where status = PENDING: the claim fails if another request won.
Claim(b, st) ==
    IF booking[b].status = "PENDING" THEN Write(b, st) ELSE UNCHANGED booking

ApproveCommit(r) ==
    /\ At(r, "approve", "checked")
    /\ Claim(req[r].id, "APPROVED")
    /\ Finish(r)
    /\ Release(r)
    /\ UNCHANGED <<status, audit>>

RejectRead(r, b) ==
    /\ booking[b].status = "PENDING"
    /\ Begin(r, [op |-> "reject", id |-> b])
    /\ UNCHANGED <<status, lock, booking, audit>>

RejectCommit(r) ==
    /\ req[r].op = "reject"
    /\ Claim(req[r].id, "REJECTED")
    /\ Finish(r)
    /\ UNCHANGED <<status, lock, audit>>

-----------------------------------------------------------------------------
(* cancel and complete: check, then an unconditional update *)

CancelRead(r, b) ==
    /\ booking[b].status \in BookingStatus \ {"COMPLETED"}
    /\ Begin(r, [op |-> "cancel", id |-> b])
    /\ UNCHANGED <<status, lock, booking, audit>>

CancelCommit(r) ==
    /\ req[r].op = "cancel"
    /\ Write(req[r].id, "CANCELLED")
    /\ Finish(r)
    /\ UNCHANGED <<status, lock, audit>>

CompleteRead(r, b) ==
    /\ booking[b].status = "APPROVED"
    /\ Begin(r, [op |-> "complete", id |-> b])
    /\ UNCHANGED <<status, lock, booking, audit>>

CompleteCommit(r) ==
    /\ req[r].op = "complete"
    /\ Write(req[r].id, "COMPLETED")
    /\ Finish(r)
    /\ UNCHANGED <<status, lock, audit>>

-----------------------------------------------------------------------------
(* Asset status, maintenance, audits *)

\* asset.update and the maintenance schedule: one UPDATE of the asset row, which
\* waits for the row lock.  The client chooses the status of PATCH /assets/:id.
UpdateAsset(a, st) ==
    /\ lock[a] = Nobody
    /\ status' = [status EXCEPT ![a] = st]
    /\ UNCHANGED <<lock, booking, audit, req>>

ScheduleMaintenance(a) == UpdateAsset(a, "MAINTENANCE")

CreateAudit(u, a, propose) ==
    /\ audit[u] = NoRow
    /\ audit' = [audit EXCEPT ![u] = [asset |-> a, propose |-> propose, approved |-> FALSE]]
    /\ UNCHANGED <<status, lock, booking, req>>

\* approveRetired: the audit is read and checked, then approved, then the asset is
\* retired, in three statements with no transaction.  A refusal only sets the
\* audit's result to MATCH, which nothing reads.
RetireRead(r, u) ==
    /\ audit[u] # NoRow
    /\ audit[u].propose /\ ~audit[u].approved
    /\ Begin(r, [op |-> "retire", pc |-> "read", id |-> u, asset |-> audit[u].asset])
    /\ UNCHANGED <<status, lock, booking, audit>>

RetireApprove(r) ==
    /\ At(r, "retire", "read")
    /\ audit' = [audit EXCEPT ![req[r].id].approved = TRUE]
    /\ req' = [req EXCEPT ![r].pc = "approved"]
    /\ UNCHANGED <<status, lock, booking>>

RetireApply(r) ==
    /\ At(r, "retire", "approved")
    /\ lock[req[r].asset] = Nobody
    /\ status' = [status EXCEPT ![req[r].asset] = "RETIRED"]
    /\ Finish(r)
    /\ UNCHANGED <<lock, booking, audit>>

Abort(r) ==
    /\ req[r] # Idle
    /\ Finish(r)
    /\ Release(r)
    /\ UNCHANGED <<status, booking, audit>>

-----------------------------------------------------------------------------
(* Specification *)

Book(r) == (\E s \in Slot : BookLock(r, s)) \/ BookCheck(r) \/ BookCommit(r)
Approve(r) ==
    \/ \E b \in Bookings : ApproveRead(r, b) \/ RejectRead(r, b)
    \/ ApproveLock(r) \/ ApproveCheck(r) \/ ApproveCommit(r) \/ RejectCommit(r)
Cancel(r) == (\E b \in Bookings : CancelRead(r, b)) \/ CancelCommit(r)
Complete(r) == (\E b \in Bookings : CompleteRead(r, b)) \/ CompleteCommit(r)
Retire(r) == (\E u \in Audits : RetireRead(r, u)) \/ RetireApprove(r) \/ RetireApply(r)
Inventory ==
    \/ \E a \in Assets, st \in AssetStatus : UpdateAsset(a, st)
    \/ \E a \in Assets : ScheduleMaintenance(a)
    \/ \E u \in Audits, a \in Assets, p \in BOOLEAN : CreateAudit(u, a, p)

AssetNext ==
    \/ \E r \in Clients :
        Book(r) \/ Approve(r) \/ Cancel(r) \/ Complete(r) \/ Retire(r) \/ Abort(r)
    \/ Inventory

AssetSpec == AssetInit /\ [][AssetNext]_assetVars

-----------------------------------------------------------------------------
(* Properties *)

\* PERF-04: however book, approve, reject, cancel and complete interleave, two bookings
\* of one asset that are PENDING or APPROVED never overlap in time.
NoDoubleBooking ==
    \A b, c \in Bookings :
        b # c /\ Active(booking[b]) /\ Active(booking[c]) =>
            ~Clash(booking[b].slot, booking[c].slot)

\* book() refuses a RETIRED asset, and the row lock keeps the refusal good until the
\* insert: no booking is ever created on an asset that is RETIRED at that moment.
NoBookingOfRetired ==
    [][\A b \in Bookings :
        booking[b] = NoRow /\ booking'[b] # NoRow =>
            status[booking'[b].slot.asset] # "RETIRED"]_assetVars

\* M-04: the bookings are a calendar in which a slot given up by a rejection, a
\* cancellation or a completion is never taken back by a slower request.
Held == [b \in Bookings |->
    IF booking[b] = NoRow THEN [free |-> "new"]
    ELSE IF Active(booking[b]) THEN booking[b].slot ELSE [free |-> "gone"]]
Calendar == INSTANCE BookingCalendar WITH held <- Held, Slots <- Slot
CalendarSpec == Calendar!Spec

-----------------------------------------------------------------------------
(* What the documentation says and the code does not do *)

\* modules/asset/README.registration.md: "saat disetujui status aset -> RETIRED".
ApprovedIsRetired ==
    \A u \in Audits :
        audit[u] # NoRow /\ audit[u].approved
        /\ (\A r \in Clients : req[r].op # "retire") => status[audit[u].asset] = "RETIRED"
=============================================================================
