--------------------------- MODULE MCExamAttempt ---------------------------
(***************************************************************************)
(* Small instances of ExamAttempt for TLC.                                 *)
(***************************************************************************)
EXTENDS ExamAttempt, TLC

\* The request slots are interchangeable.
SlotSymmetry == Permutations(Requests)

OneAttempt == {1}
TwoAttempts == {1, 2}

StartOps == {"status", "token", "start"}
AnswerOps == StartOps \cup {"save", "submit"}
GradingOps == StartOps \cup {"submit", "expire", "grade", "activity"}
WorkOps == AnswerOps \cup GradingOps
=============================================================================
