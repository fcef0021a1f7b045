------------------------------- MODULE Ledger -------------------------------
(***************************************************************************)
(* What the payment records promise.  Every invoice has an account that is *)
(* opened once and closed once.  An entry is posted to an open account     *)
(* under an optional idempotency key, no two standing entries share a key, *)
(* and an entry is accepted or refused once.  Closing an account erases    *)
(* its entries, and nothing else erases one.  Billing implements it.       *)
(***************************************************************************)
CONSTANTS Accounts, Payments, Keys, NoKey

VARIABLES
    account,    \* none, open or closed
    entry       \* per payment [state, key, account]

Blank == [state |-> "none"]
Erased == [state |-> "erased"]
Pending(a, k) == [state |-> "pending", key |-> k, account |-> a]
Standing == {"pending", "accepted", "refused"}
Posted(a, p) == entry[p].state \in Standing /\ entry[p].account = a

Init ==
    /\ account = [a \in Accounts |-> "none"]
    /\ entry = [p \in Payments |-> Blank]

Open(S) ==
    /\ \A a \in S : account[a] = "none"
    /\ account' = [a \in Accounts |-> IF a \in S THEN "open" ELSE account[a]]
    /\ UNCHANGED entry

Post(a, p, k) ==
    /\ account[a] = "open" /\ entry[p] = Blank
    /\ k # NoKey => \A q \in Payments : entry[q].state \in Standing => entry[q].key # k
    /\ entry' = [entry EXCEPT ![p] = Pending(a, k)]
    /\ UNCHANGED account

Decide(p, verdict) ==
    /\ entry[p].state = "pending"
    /\ entry' = [entry EXCEPT ![p].state = verdict]
    /\ UNCHANGED account

Close(a) ==
    /\ account[a] = "open"
    /\ account' = [account EXCEPT ![a] = "closed"]
    /\ entry' = [p \in Payments |-> IF Posted(a, p) THEN Erased ELSE entry[p]]

Next ==
    \/ \E S \in SUBSET Accounts : Open(S)
    \/ \E a \in Accounts, p \in Payments, k \in Keys \cup {NoKey} : Post(a, p, k)
    \/ \E p \in Payments, verdict \in {"accepted", "refused"} : Decide(p, verdict)
    \/ \E a \in Accounts : Close(a)

Spec == Init /\ [][Next]_<<account, entry>>
=============================================================================
