------------------------------ MODULE ExamSeat ------------------------------
(***************************************************************************)
(* What an exam session promises, without requests, rows or transactions:  *)
(* a student's seat is opened at most once, with a token nobody else has   *)
(* spent, and once closed it stays closed.  ExamAttempt implements this    *)
(* specification (ExamAttempt!SeatSpec, ExamAttempt_proofs!Refinement).    *)
(***************************************************************************)
CONSTANTS Students, Tokens

VARIABLES
    seat,       \* [Students -> {"none", "open", "closed"}]
    spent       \* the tokens that have opened a seat

vars == <<seat, spent>>

TypeOK ==
    /\ seat \in [Students -> {"none", "open", "closed"}]
    /\ spent \subseteq Tokens

Init ==
    /\ seat = [s \in Students |-> "none"]
    /\ spent = {}

Open(s, t) ==
    /\ seat[s] = "none"
    /\ t \notin spent
    /\ seat' = [seat EXCEPT ![s] = "open"]
    /\ spent' = spent \cup {t}

\* One transaction of the auto-submit sweep closes a whole batch of seats.
Close(S) ==
    /\ \A s \in S : seat[s] = "open"
    /\ seat' = [s \in Students |-> IF s \in S THEN "closed" ELSE seat[s]]
    /\ UNCHANGED spent

Next ==
    \/ \E s \in Students, t \in Tokens : Open(s, t)
    \/ \E S \in SUBSET Students : Close(S)

Spec == Init /\ [][Next]_vars
=============================================================================
