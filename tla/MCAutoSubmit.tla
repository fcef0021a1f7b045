---------------------------- MODULE MCAutoSubmit ----------------------------
(***************************************************************************)
(* A small instance of AutoSubmit for TLC.  Without Redis two requests     *)
(* overlap and two attempts fill two pages; with Redis, where the queue has*)
(* states of its own, there is one attempt and one request at a time.      *)
(* Nothing is assumed of when requests come, so the bound takes nothing    *)
(* from the fairness of AutoSubmit.                                        *)
(***************************************************************************)
EXTENDS AutoSubmit, MCExamAttempt

OneByOne == /\ Cardinality({r \in Requests : req[r] # Idle}) <= 1
              /\ Cardinality({a \in AttemptIds : Exists(a)}) <= 1

MCFairSpec == /\ AutoSubmitInit
              /\ [][AutoSubmitNext /\ (redis => OneByOne')]_autoSubmitVars
              /\ Fairness
=============================================================================
