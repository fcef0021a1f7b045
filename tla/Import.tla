------------------------------- MODULE Import -------------------------------
(***************************************************************************)
(* The import of students from a file (onboarding/import.service.ts).  The *)
(* request validates the rows, stores a batch and enqueues its rows; the   *)
(* job reads which accounts and classes exist, inserts the rest in one     *)
(* transaction and closes the batch.  The accounts get ids of their own    *)
(* choosing: when another import was faster with a name, skipDuplicates    *)
(* drops the account, and the role that refers to it breaks the foreign    *)
(* key and with it the transaction.                                        *)
(***************************************************************************)
EXTENDS JobQueue, FiniteSets, Requests

CONSTANTS Batches, Nisns, Rooms,
          Offered        \* the classes of the current academic year

ASSUME ImportAssumption == Offered \subseteq Rooms

VARIABLES file,       \* file[b] - the rows of the batch: a class for each student
          batch,      \* batch[b] - "none", "PROCESSING", "COMPLETED", "FAILED"
          importJob,  \* importJob[b] - the job import.commit of the batch
          enrolled,   \* enrolled[n] - the account, with the batch and the class, or None
          wrong       \* wrong[b] - the students of the batch reported as errors

importRows == <<file, batch, importJob, enrolled, wrong>>
importVars == <<requestVars, importRows>>

Files == UNION {[N -> Rooms] : N \in SUBSET Nisns}

Accounts == [batch : Batches, class : Rooms]

ASSUME ImportRowAssumption == None \notin Accounts

ImportInit == /\ RequestsInit
              /\ file = [b \in Batches |-> [n \in {} |-> None]]
              /\ batch = [b \in Batches |-> "none"]
              /\ importJob = [b \in Batches |-> NoJob]
              /\ enrolled = [n \in Nisns |-> None]
              /\ wrong = [b \in Batches |-> {}]

\* What the job holds: its batch, the rows that passed, and the errors so far.
Committing(b, rows, errors) == [batch |-> b, rows |-> rows, errors |-> errors]

-----------------------------------------------------------------------------
\* run: the batch, the errors of validation, then the job.
StoreBatch(h, b) ==
    /\ MayStart(h)
    /\ batch[b] = "none"
    /\ batch' = [batch EXCEPT ![b] = "PROCESSING"]
    /\ \E f \in Files \ {<<>>} : file' = [file EXCEPT ![b] = f]
    /\ Goto(h, "enqueue", Committing(b, {}, {}))
    /\ UNCHANGED <<importJob, enrolled, wrong>>

EnqueueImport(h) ==
    /\ at[h] = "enqueue"
    /\ importJob' = [importJob EXCEPT ![held[h].batch] = Add(@)]
    /\ Answer(h)
    /\ UNCHANGED <<file, batch, enrolled, wrong>>

TakeImportJob(h, b) ==
    /\ importJob[b].state = "waiting"
    /\ MayStart(h)
    /\ importJob' = [importJob EXCEPT ![b] = Take(@)]
    /\ Goto(h, "accounts", Committing(b, DOMAIN file[b], {}))
    /\ UNCHANGED <<file, batch, enrolled, wrong>>

\* Which of the students have an account, and which classes are offered.
CheckAccounts(h) ==
    LET b == held[h].batch
        known == {n \in held[h].rows : enrolled[n] # None}
        homeless == {n \in held[h].rows \ known : file[b][n] \notin Offered}
        rest == held[h].rows \ (known \cup homeless)
    IN  /\ at[h] = "accounts"
        /\ Goto(h, IF rest = {} THEN "report" ELSE "insert-all",
                Committing(b, rest, known \cup homeless))
        /\ UNCHANGED importRows

\* Mutant: no foreign key stops a role without its account.
NothingBroken(rows) == TRUE

\* Every account that a role and an enrolment refer to was inserted.
ForeignKeysHold(rows) == \A n \in rows : enrolled[n] = None

\* One transaction: accounts, roles, enrolments.
InsertAll(h) ==
    LET b == held[h].batch IN
    /\ at[h] = "insert-all"
    /\ IF ForeignKeysHold(held[h].rows)
       THEN /\ enrolled' = [n \in Nisns |->
                   IF n \in held[h].rows /\ enrolled[n] = None
                   THEN [batch |-> b, class |-> file[b][n]] ELSE enrolled[n]]
            /\ Goto(h, "report", held[h])
            /\ UNCHANGED importJob
       ELSE /\ importJob' = [importJob EXCEPT ![b] = Thrown(@)]
            /\ Answer(h)
            /\ UNCHANGED enrolled
    /\ UNCHANGED <<file, batch, wrong>>

\* importError.createMany, repeated by a repeated job.
ReportErrors(h) ==
    /\ at[h] = "report"
    /\ wrong' = [wrong EXCEPT ![held[h].batch] = @ \cup held[h].errors]
    /\ Goto(h, "close", held[h])
    /\ UNCHANGED <<file, batch, importJob, enrolled>>

\* The batch is closed, then the audit entry ends the job.
CloseBatch(h) ==
    /\ at[h] = "close"
    /\ batch' = [batch EXCEPT ![held[h].batch] =
                    IF held[h].errors = {} THEN "COMPLETED" ELSE "FAILED"]
    /\ Goto(h, "audit", held[h])
    /\ UNCHANGED <<file, importJob, enrolled, wrong>>

EndImport(h) ==
    /\ at[h] = "audit"
    /\ importJob' = [importJob EXCEPT ![held[h].batch] = Completed(@)]
    /\ Answer(h)
    /\ UNCHANGED <<file, batch, enrolled, wrong>>

\* A query fails or the process dies: a job is retried or redelivered.
ImportFails(h) ==
    /\ at[h] # "free"
    /\ Answer(h)
    /\ \E how \in {Thrown(importJob[held[h].batch]), Redelivered(importJob[held[h].batch])} :
          importJob' = IF at[h] = "enqueue" THEN importJob
                       ELSE [importJob EXCEPT ![held[h].batch] = how]
    /\ UNCHANGED <<file, batch, enrolled, wrong>>

ImportStep(h) == \/ \E b \in Batches : StoreBatch(h, b) \/ TakeImportJob(h, b)
                 \/ EnqueueImport(h) \/ CheckAccounts(h) \/ InsertAll(h)
                 \/ ReportErrors(h) \/ CloseBatch(h) \/ EndImport(h)

ImportNext == \E h \in Handlers : ImportStep(h) \/ ImportFails(h)

ImportSpec == ImportInit /\ [][ImportNext]_importVars

-----------------------------------------------------------------------------
\* Properties.

ImportTypeOK == /\ file \in [Batches -> Files]
                /\ batch \in [Batches -> {"none", "PROCESSING", "COMPLETED", "FAILED"}]
                /\ importJob \in [Batches -> JobType]
                /\ enrolled \in [Nisns -> Accounts \cup {None}]
                /\ wrong \in [Batches -> SUBSET Nisns]

\* However imports of overlapping files overlap, and whatever breaks off and is
\* repeated: a batch that is closed accounts for each of its rows, by an account
\* or an error, and one that closed without errors made every account itself.
ClosedBatchAccounts ==
    \A b \in Batches : batch[b] \in {"COMPLETED", "FAILED"} =>
        \A n \in DOMAIN file[b] :
            \/ enrolled[n] = [batch |-> b, class |-> file[b][n]]
            \/ batch[b] = "FAILED" /\ n \in wrong[b]
=============================================================================
