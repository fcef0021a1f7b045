----------------------------- MODULE AutoSubmit -----------------------------
(***************************************************************************)
(* Who starts the sweeps of ExamAttempt: the cron of every minute          *)
(* (jobs/processors/exam-autosubmit.processor.ts) and the endpoint POST    *)
(* exam/attempts/auto-submit.  Without Redis the cron of each instance runs*)
(* the sweep itself.  With Redis it adds a job, always under the same id,  *)
(* and a worker runs the sweep; BullMQ ignores the id as long as it keeps  *)
(* the job, and it keeps the last thousand jobs that ended.                *)
(***************************************************************************)
EXTENDS ExamAttempt

CONSTANTS Attempts, Stalls   \* of a job, see JobQueue

ASSUME JobAssumption == Attempts \in Nat \ {0} /\ Stalls \in Nat
ASSUME SweeperAssumption == None \notin Sweepers

VARIABLES redis,   \* REDIS_URL is set and BullMQ is ready
          job,     \* the job auto-submit.expired
          runner   \* the sweep which the job's worker waits for, or None

Queue == INSTANCE JobQueue

queueVars == <<redis, job, runner>>
autoSubmitVars == <<vars, queueVars>>

AutoSubmitInit == /\ Init
                  /\ redis \in BOOLEAN
                  /\ job = Queue!NoJob
                  /\ runner = None

-----------------------------------------------------------------------------
\* The cron of an instance without Redis.  running: its next one waits for this.
CronSweeps(w) == ~redis /\ SweepBegin(w) /\ UNCHANGED queueVars

\* The endpoint, and nobody waits in the queue.
EndpointSweeps(w) == w # runner /\ SweepBegin(w) /\ UNCHANGED queueVars

CronEnqueues == /\ redis
                /\ job' = Queue!Add(job)
                /\ UNCHANGED <<vars, redis, runner>>

WorkerSweeps(w) == /\ job.state = "waiting"
                   /\ SweepBegin(w)
                   /\ job' = Queue!Take(job)
                   /\ runner' = w
                   /\ UNCHANGED redis

\* The sweep the worker waits for has gone through all its pages.
JobCompletes == /\ runner # None /\ sweep[runner] = Resting
                /\ job' = Queue!Completed(job)
                /\ runner' = None
                /\ UNCHANGED <<vars, redis>>

\* The worker gives up on the job: its handler throws, or it is not heard of.
JobBreaks == /\ runner # None
             /\ job' \in {Queue!Thrown(job), Queue!Redelivered(job)}
             /\ runner' = None
             /\ UNCHANGED redis

\* handle() waits for three things, and another one fails, the quizzes or the
\* ticks: the sweep itself goes on.
OthersBreak == JobBreaks /\ UNCHANGED vars

\* The sweep ends early: its statement failed, or its process died.
SweepBreaks(w) == /\ SweepAbort(w)
                  /\ IF w = runner THEN JobBreaks ELSE UNCHANGED queueVars

\* removeOnComplete, removeOnFail: a thousand other jobs have ended since.
QueueForgets == /\ job.state \in {"completed", "failed"}
                /\ job' = Queue!NoJob
                /\ UNCHANGED <<vars, redis, runner>>

SweepGoesOn(w) == \/ SweepRead(w) \/ SweepScore(w) \/ SweepCommit(w) \/ SweepEmit(w)

AutoSubmitNext ==
    \/ CronEnqueues \/ JobCompletes \/ OthersBreak \/ QueueForgets
    \/ \E w \in Sweepers : \/ CronSweeps(w) \/ EndpointSweeps(w) \/ WorkerSweeps(w)
                           \/ SweepGoesOn(w) /\ UNCHANGED queueVars
                           \/ SweepBreaks(w)
    \/ /\ \/ Tick
          \/ \E t \in Tokens : GenerateToken(t)
          \/ \E a \in AttemptIds : SaveOverdue(a)
          \/ \E r \in Requests : Staff(r) \/ Student(r) \/ Abort(r)
       /\ UNCHANGED queueVars

AutoSubmitSpec == AutoSubmitInit /\ [][AutoSubmitNext]_autoSubmitVars

\* The cron fires every minute, the worker takes what waits, and the statements
\* eventually succeed: a database that failed every single time would need
\* SweepBreaks for ever.  Nothing is assumed of the endpoint or of other jobs.
Fairness ==
    /\ WF_autoSubmitVars(Tick /\ UNCHANGED queueVars)
    /\ WF_autoSubmitVars(CronEnqueues)
    /\ WF_autoSubmitVars(JobCompletes)
    /\ \A w \in Sweepers :
        /\ WF_autoSubmitVars(CronSweeps(w))
        /\ WF_autoSubmitVars(WorkerSweeps(w))
        /\ SF_autoSubmitVars(SweepRead(w) /\ UNCHANGED queueVars)
        /\ SF_autoSubmitVars(SweepScore(w) /\ UNCHANGED queueVars)
        /\ SF_autoSubmitVars(SweepCommit(w) /\ UNCHANGED queueVars)
        /\ WF_autoSubmitVars(SweepEmit(w) /\ UNCHANGED queueVars)

FairSpec == AutoSubmitSpec /\ Fairness

-----------------------------------------------------------------------------
\* Properties.

QueueTypeOK == /\ redis \in BOOLEAN
               /\ job \in Queue!JobType
               /\ runner \in Sweepers \cup {None}
               /\ runner # None => job.state = "active"

\* Every attempt past its time is eventually ended by the sweep, although the
\* offset pagination skips rows, batches are rolled back and a job is taken up
\* again a few times only; unless, with Redis, the queue keeps a sweep that has
\* ended for ever: then the cron's job is ignored, every minute.
OverdueIsClosed ==
    \/ \A a \in AttemptIds :
          (Exists(a) /\ Open(a) /\ Overdue(attempt[a], now)) ~> Ended(a)
    \/ <>[](job.state \in {"completed", "failed"})
=============================================================================
