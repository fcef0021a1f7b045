--------------------------- MODULE BookingCalendar ---------------------------
(***************************************************************************)
(* What the booking of school assets promises: a booking holds a slot of   *)
(* its asset that clashes with no other held slot, and once it has given   *)
(* the slot up it never holds it again.  AssetBooking implements it.       *)
(***************************************************************************)
CONSTANTS
    Bookings,           \* ids
    Slots,              \* asset and interval
    Clash(_, _)         \* two slots that may not be held together

VARIABLE held           \* per booking New, the slot it holds, or Gone

New == [free |-> "new"]
Gone == [free |-> "gone"]

vars == <<held>>

Init == held = [b \in Bookings |-> New]

Reserve(b, s) ==
    /\ held[b] = New
    /\ \A c \in Bookings : held[c] \in Slots => ~Clash(s, held[c])
    /\ held' = [held EXCEPT ![b] = s]

Release(b) ==
    /\ held[b] \in Slots
    /\ held' = [held EXCEPT ![b] = Gone]

Next == \E b \in Bookings : Release(b) \/ \E s \in Slots : Reserve(b, s)

Spec == Init /\ [][Next]_vars
=============================================================================
