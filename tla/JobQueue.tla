------------------------------ MODULE JobQueue ------------------------------
(***************************************************************************)
(* One job of the background queue (common/queue): BullMQ, the external    *)
(* library, as bullmq.queue.ts configures and uses it.  A job carries the  *)
(* id its producer chose; adding an id the queue still knows changes       *)
(* nothing, and because the last thousand completed and failed jobs are    *)
(* kept that includes jobs that ended.  A handler that throws is retried   *)
(* until Attempts; a job whose worker died is delivered again Stalls times *)
(* and then failed.                                                        *)
(***************************************************************************)
EXTENDS Naturals

CONSTANTS Attempts, Stalls

ASSUME QueueAssumption == Attempts \in Nat \ {0} /\ Stalls \in Nat

NoJob == [state |-> "absent", tried |-> 0, stalled |-> 0]

JobType == [state : {"absent", "waiting", "active", "completed", "failed"},
            tried : 0..Attempts, stalled : 0..Stalls]

\* queue.add: an id that is still known is ignored.
Add(j) == IF j.state = "absent" THEN [NoJob EXCEPT !.state = "waiting"] ELSE j

Take(j) == [j EXCEPT !.state = "active"]

\* The counters of a job that ended no longer matter.
Ended(how) == [NoJob EXCEPT !.state = how]

Completed(j) == Ended("completed")

\* The handler threw: the same job waits again while attempts are left.
Thrown(j) == IF j.tried + 1 < Attempts
             THEN [j EXCEPT !.state = "waiting", !.tried = @ + 1]
             ELSE Ended("failed")

\* The worker's lock ran out: redelivered at most Stalls times.
Redelivered(j) == IF j.stalled < Stalls
                  THEN [j EXCEPT !.state = "waiting", !.stalled = @ + 1]
                  ELSE Ended("failed")
=============================================================================
