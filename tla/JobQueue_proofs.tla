-------------------------- MODULE JobQueue_proofs ---------------------------
(***************************************************************************)
(* What every user of the queue relies on: whatever happens to a job, its  *)
(* counters stay within Attempts and Stalls, and only a handler that ran   *)
(* to its end completes it.                                                *)
(***************************************************************************)
EXTENDS JobQueue, TLAPS

LEMMA NoJobType == NoJob \in JobType
BY QueueAssumption DEF NoJob, JobType

LEMMA EndedType ==
    ASSUME NEW how \in {"completed", "failed"}
    PROVE  Ended(how) \in JobType /\ Ended(how).state = how
BY QueueAssumption DEF NoJob, JobType, Ended

\* Every operation of the queue yields a job again.
LEMMA JobsStayJobs ==
    ASSUME NEW j \in JobType
    PROVE  /\ Add(j) \in JobType /\ Take(j) \in JobType /\ Completed(j) \in JobType
           /\ Thrown(j) \in JobType /\ Redelivered(j) \in JobType
<1>1. Add(j) \in JobType /\ Take(j) \in JobType
  BY NoJobType DEF Add, Take, JobType, NoJob
<1>2. Completed(j) \in JobType
  BY EndedType DEF Completed
<1>3. Thrown(j) \in JobType
  <2>1. CASE j.tried + 1 < Attempts
    <3>1. j.tried + 1 \in 0..Attempts
      BY <2>1, QueueAssumption DEF JobType
    <3>2. Thrown(j) = [j EXCEPT !.state = "waiting", !.tried = @ + 1]
      BY <2>1 DEF Thrown
    <3> QED BY <3>1, <3>2 DEF JobType
  <2>2. CASE ~(j.tried + 1 < Attempts)
    <3>1. Thrown(j) = Ended("failed")
      BY <2>2 DEF Thrown
    <3> QED BY <3>1, EndedType
  <2> QED BY <2>1, <2>2
<1>4. Redelivered(j) \in JobType
  <2>1. CASE j.stalled < Stalls
    <3>1. j.stalled + 1 \in 0..Stalls
      BY <2>1, QueueAssumption DEF JobType
    <3>2. Redelivered(j) = [j EXCEPT !.state = "waiting", !.stalled = @ + 1]
      BY <2>1 DEF Redelivered
    <3> QED BY <3>1, <3>2 DEF JobType
  <2>2. CASE ~(j.stalled < Stalls)
    <3>1. Redelivered(j) = Ended("failed")
      BY <2>2 DEF Redelivered
    <3> QED BY <3>1, EndedType
  <2> QED BY <2>1, <2>2
<1> QED BY <1>1, <1>2, <1>3, <1>4

\* Neither adding, taking, a failure nor a redelivery reports success.
LEMMA OnlyCompletedCompletes ==
    ASSUME NEW j \in JobType
    PROVE  /\ Take(j).state = "active"
           /\ Thrown(j).state \in {"waiting", "failed"}
           /\ Redelivered(j).state \in {"waiting", "failed"}
           /\ Add(j) # j => Add(j).state = "waiting"
<1>1. Take(j).state = "active" /\ (Add(j) # j => Add(j).state = "waiting")
  BY DEF Add, Take, JobType, NoJob
<1>2. Thrown(j).state \in {"waiting", "failed"}
  BY EndedType DEF Thrown, JobType
<1>3. Redelivered(j).state \in {"waiting", "failed"}
  BY EndedType DEF Redelivered, JobType
<1> QED BY <1>1, <1>2, <1>3
=============================================================================
