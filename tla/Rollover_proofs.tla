--------------------------- MODULE Rollover_proofs --------------------------
(***************************************************************************)
(* The migration to a new academic year, for every school, any number of   *)
(* executions, and every pattern of crashes, retries and resumptions.      *)
(*                                                                         *)
(* TypeInv says what an execution knows at each statement.  From it follow *)
(* the two facts the code relies on: the conditional update of the run     *)
(* lets one execution through until a live one loses its lease or status   *)
(* (OneExecutor), and a student is marked only after his new row was       *)
(* written (NobodyLost).                                                   *)
(*                                                                         *)
(* SerialInv says what the run, the school, the operator's request and the *)
(* execution know of each other when there is one request at a time: what  *)
(* has been marked was shown and is recorded, and each step finds the work *)
(* of the steps before it done, however often it was interrupted.  Of the  *)
(* students it speaks of those whose grade has not changed since a record  *)
(* or an execution was there (Steady).  It gives AsPreviewed,              *)
(* FlippedAfterPlacement and RollbackRestores.                             *)
(***************************************************************************)
EXTENDS Rollover, JobQueue_proofs

-----------------------------------------------------------------------------
(* The steps and the places an execution can be at.                        *)

LEMMA StepsAre ==
    Steps = {"close-source", "create-classes", "copy-curriculum", "graduate",
             "promote", "ppdb-enroll", "set-current"}
<1>1. /\ StepNames[1] = "close-source" /\ StepNames[2] = "create-classes"
      /\ StepNames[3] = "copy-curriculum" /\ StepNames[4] = "graduate"
      /\ StepNames[5] = "promote" /\ StepNames[6] = "ppdb-enroll"
      /\ StepNames[7] = "set-current"
  BY DEF StepNames
<1>2. \A i \in 1..7 : i = 1 \/ i = 2 \/ i = 3 \/ i = 4 \/ i = 5 \/ i = 6 \/ i = 7
  OBVIOUS
<1> QED BY <1>1, <1>2 DEF Steps

\* An execution goes on with a step, or is at the end.
LEMMA NextStepIs ==
    ASSUME NEW done
    PROVE  NextStep(done) \in Steps \union {"finish"}
<1>1. CASE Steps \subseteq done
  BY <1>1 DEF NextStep
<1>2. CASE ~(Steps \subseteq done)
  <2> DEFINE First(i) == /\ StepNames[i] \notin done
                         /\ \A j \in 1..(i - 1) : StepNames[j] \in done
  <2>1. \E i \in 1..7 : First(i)
    <3> SUFFICES ASSUME \A i \in 1..7 : ~First(i) PROVE FALSE
      OBVIOUS
    <3>1. StepNames[1] \in done
      <4>1. 1 \in 1..7 /\ \A j \in 1..(1 - 1) : StepNames[j] \in done
        OBVIOUS
      <4> QED BY <4>1
    <3>2. StepNames[2] \in done
      <4>1. 2 \in 1..7 /\ \A j \in 1..(2 - 1) : j = 1
        OBVIOUS
      <4> QED BY <3>1, <4>1
    <3>3. StepNames[3] \in done
      <4>1. 3 \in 1..7 /\ \A j \in 1..(3 - 1) : j = 1 \/ j = 2
        OBVIOUS
      <4> QED BY <3>1, <3>2, <4>1
    <3>4. StepNames[4] \in done
      <4>1. 4 \in 1..7 /\ \A j \in 1..(4 - 1) : j = 1 \/ j = 2 \/ j = 3
        OBVIOUS
      <4> QED BY <3>1, <3>2, <3>3, <4>1
    <3>5. StepNames[5] \in done
      <4>1. 5 \in 1..7 /\ \A j \in 1..(5 - 1) : j = 1 \/ j = 2 \/ j = 3 \/ j = 4
        OBVIOUS
      <4> QED BY <3>1, <3>2, <3>3, <3>4, <4>1
    <3>6. StepNames[6] \in done
      <4>1. 6 \in 1..7 /\ \A j \in 1..(6 - 1) : j = 1 \/ j = 2 \/ j = 3 \/ j = 4 \/ j = 5
        OBVIOUS
      <4> QED BY <3>1, <3>2, <3>3, <3>4, <3>5, <4>1
    <3>7. StepNames[7] \in done
      <4>1. 7 \in 1..7 /\ \A j \in 1..(7 - 1) :
                j = 1 \/ j = 2 \/ j = 3 \/ j = 4 \/ j = 5 \/ j = 6
        OBVIOUS
      <4> QED BY <3>1, <3>2, <3>3, <3>4, <3>5, <3>6, <4>1
    <3>8. \A i \in 1..7 : i = 1 \/ i = 2 \/ i = 3 \/ i = 4 \/ i = 5 \/ i = 6 \/ i = 7
      OBVIOUS
    <3> QED BY <1>2, <3>1, <3>2, <3>3, <3>4, <3>5, <3>6, <3>7, <3>8 DEF Steps
  <2>2. PICK k \in 1..7 : k = CHOOSE i \in 1..7 : First(i)
    BY <2>1
  <2>3. NextStep(done) = StepNames[k]
    BY <1>2, <2>2 DEF NextStep
  <2> QED BY <2>3 DEF Steps
<1> QED BY <1>1, <1>2

\* Where a claimed execution can be, spelled out.
LEMMA ClaimedAre ==
    Claimed = {"begin", "persist", "graduate-read", "graduate-mark", "graduate-log",
               "promote-read", "promote-mark", "ppdb-read", "ppdb-mark", "open-target",
               "close-old", "finish", "close-source", "create-classes", "copy-curriculum",
               "graduate", "promote", "ppdb-enroll", "set-current"}
BY StepsAre DEF Claimed

Waiting == {"idle", "picked", "start", "reclaim", "claim"}

\* The statements at which `todo' holds students whose new rows are written.
Marking == {"graduate-read", "graduate-mark", "promote-read", "promote-mark"}

SlotType == [pc : Waiting \union Claimed, via : {None, "job"}, seen : RunType \union {None},
             src : YearStatuses \union {None}, plan : PlanType \union {None},
             done : SUBSET Steps, made : MadeType \union {None}, todo : SUBSET People]

\* What an execution knows where it is.
SlotOK(x) ==
    /\ x \in SlotType
    /\ x.pc \in {"reclaim", "claim", "begin"} => x.seen \in RunType
    /\ x.pc \in {"reclaim", "claim"} \union Claimed =>
          x.plan \in PlanType /\ x.src \in YearStatuses
    /\ x.pc \in Claimed \ {"begin"} => x.made \in MadeType
    /\ x.pc \in Marking => x.todo \subseteq Students
    /\ x.pc \in {"ppdb-read", "ppdb-mark"} => x.todo \subseteq Applicants

Undoing == {"undo-rows", "undo-classes", "undo-alumni", "undo-statuses", "undo-target",
            "undo-current", "undo-finish"}

DeskType == [pc : {"idle", "precheck", "dryrun"} \union Undoing, seen : RunType \union {None},
             plan : PlanType \union {None}, left : SUBSET Students]

DeskOK == /\ desk \in DeskType
          /\ desk.pc = "dryrun" => desk.seen \in RunType /\ desk.plan \in PlanType
          /\ desk.pc \in Undoing => /\ desk.seen \in RunType /\ desk.seen.made \in MadeType
                                    /\ desk.left \subseteq DOMAIN desk.seen.made.before

TypeInv == /\ RolloverTypeOK /\ DeskOK
           /\ ex \in [Executors -> SlotType] /\ \A w \in Executors : SlotOK(ex[w])

-----------------------------------------------------------------------------
(* Records with some fields changed.                                       *)

LEMMA SlotFields ==
    ASSUME NEW x \in SlotType, NEW pc \in Waiting \union Claimed,
           NEW todo \in SUBSET People, NEW made \in MadeType, NEW done \in SUBSET Steps
    PROVE  /\ [x EXCEPT !.pc = pc] = [pc |-> pc, via |-> x.via, seen |-> x.seen,
                  src |-> x.src, plan |-> x.plan, done |-> x.done, made |-> x.made,
                  todo |-> x.todo]
           /\ [x EXCEPT !.pc = pc, !.todo = todo] = [pc |-> pc, via |-> x.via,
                  seen |-> x.seen, src |-> x.src, plan |-> x.plan, done |-> x.done,
                  made |-> x.made, todo |-> todo]
           /\ [x EXCEPT !.todo = todo] = [pc |-> x.pc, via |-> x.via,
                  seen |-> x.seen, src |-> x.src, plan |-> x.plan, done |-> x.done,
                  made |-> x.made, todo |-> todo]
           /\ [x EXCEPT !.made = made] = [pc |-> x.pc, via |-> x.via,
                  seen |-> x.seen, src |-> x.src, plan |-> x.plan, done |-> x.done,
                  made |-> made, todo |-> x.todo]
           /\ [x EXCEPT !.pc = pc, !.made = made] = [pc |-> pc, via |-> x.via,
                  seen |-> x.seen, src |-> x.src, plan |-> x.plan, done |-> x.done,
                  made |-> made, todo |-> x.todo]
           /\ [x EXCEPT !.pc = pc, !.done = done, !.made = made] = [pc |-> pc, via |-> x.via,
                  seen |-> x.seen, src |-> x.src, plan |-> x.plan, done |-> done,
                  made |-> made, todo |-> x.todo]
           /\ [x EXCEPT !.pc = pc, !.done = done, !.todo = {}] = [pc |-> pc, via |-> x.via,
                  seen |-> x.seen, src |-> x.src, plan |-> x.plan, done |-> done,
                  made |-> x.made, todo |-> {}]
           /\ [x EXCEPT !.via = None] = [pc |-> x.pc, via |-> None,
                  seen |-> x.seen, src |-> x.src, plan |-> x.plan, done |-> x.done,
                  made |-> x.made, todo |-> x.todo]
<1>1. [x EXCEPT !.pc = pc] = [pc |-> pc, via |-> x.via, seen |-> x.seen,
         src |-> x.src, plan |-> x.plan, done |-> x.done, made |-> x.made,
         todo |-> x.todo]
  BY DEF SlotType
<1>2. [x EXCEPT !.pc = pc, !.todo = todo] = [pc |-> pc, via |-> x.via,
         seen |-> x.seen, src |-> x.src, plan |-> x.plan, done |-> x.done,
         made |-> x.made, todo |-> todo]
  <2>1. [x EXCEPT !.pc = pc] = [pc |-> pc, via |-> x.via, seen |-> x.seen, src |-> x.src,
                plan |-> x.plan, done |-> x.done, made |-> x.made, todo |-> x.todo]
    BY DEF SlotType
  <2>2. [[pc |-> pc, via |-> x.via, seen |-> x.seen, src |-> x.src,
               plan |-> x.plan, done |-> x.done, made |-> x.made, todo |-> x.todo]
           EXCEPT !.todo = todo]
         = [pc |-> pc, via |-> x.via, seen |-> x.seen, src |-> x.src,
             plan |-> x.plan, done |-> x.done, made |-> x.made, todo |-> todo]
    OBVIOUS
  <2> QED BY <2>1, <2>2
<1>3. [x EXCEPT !.todo = todo] = [pc |-> x.pc, via |-> x.via,
         seen |-> x.seen, src |-> x.src, plan |-> x.plan, done |-> x.done,
         made |-> x.made, todo |-> todo]
  BY DEF SlotType
<1>4. [x EXCEPT !.made = made] = [pc |-> x.pc, via |-> x.via,
         seen |-> x.seen, src |-> x.src, plan |-> x.plan, done |-> x.done,
         made |-> made, todo |-> x.todo]
  BY DEF SlotType
<1>5. [x EXCEPT !.pc = pc, !.made = made] = [pc |-> pc, via |-> x.via,
         seen |-> x.seen, src |-> x.src, plan |-> x.plan, done |-> x.done,
         made |-> made, todo |-> x.todo]
  <2>1. [x EXCEPT !.pc = pc] = [pc |-> pc, via |-> x.via, seen |-> x.seen, src |-> x.src,
                plan |-> x.plan, done |-> x.done, made |-> x.made, todo |-> x.todo]
    BY DEF SlotType
  <2>2. [[pc |-> pc, via |-> x.via, seen |-> x.seen, src |-> x.src,
               plan |-> x.plan, done |-> x.done, made |-> x.made, todo |-> x.todo]
           EXCEPT !.made = made]
         = [pc |-> pc, via |-> x.via, seen |-> x.seen, src |-> x.src,
             plan |-> x.plan, done |-> x.done, made |-> made, todo |-> x.todo]
    OBVIOUS
  <2> QED BY <2>1, <2>2
<1>6. [x EXCEPT !.pc = pc, !.done = done, !.made = made] = [pc |-> pc, via |-> x.via,
         seen |-> x.seen, src |-> x.src, plan |-> x.plan, done |-> done,
         made |-> made, todo |-> x.todo]
  <2>1. [x EXCEPT !.pc = pc] = [pc |-> pc, via |-> x.via, seen |-> x.seen, src |-> x.src,
                plan |-> x.plan, done |-> x.done, made |-> x.made, todo |-> x.todo]
    BY DEF SlotType
  <2>2. [[pc |-> pc, via |-> x.via, seen |-> x.seen, src |-> x.src,
               plan |-> x.plan, done |-> x.done, made |-> x.made, todo |-> x.todo]
           EXCEPT !.done = done]
         = [pc |-> pc, via |-> x.via, seen |-> x.seen, src |-> x.src,
             plan |-> x.plan, done |-> done, made |-> x.made, todo |-> x.todo]
    OBVIOUS
  <2>3. [[pc |-> pc, via |-> x.via, seen |-> x.seen, src |-> x.src,
               plan |-> x.plan, done |-> done, made |-> x.made, todo |-> x.todo]
           EXCEPT !.made = made]
         = [pc |-> pc, via |-> x.via, seen |-> x.seen, src |-> x.src,
             plan |-> x.plan, done |-> done, made |-> made, todo |-> x.todo]
    OBVIOUS
  <2> QED BY <2>1, <2>2, <2>3
<1>7. [x EXCEPT !.pc = pc, !.done = done, !.todo = {}] = [pc |-> pc, via |-> x.via,
         seen |-> x.seen, src |-> x.src, plan |-> x.plan, done |-> done,
         made |-> x.made, todo |-> {}]
  <2>1. [x EXCEPT !.pc = pc] = [pc |-> pc, via |-> x.via, seen |-> x.seen, src |-> x.src,
                plan |-> x.plan, done |-> x.done, made |-> x.made, todo |-> x.todo]
    BY DEF SlotType
  <2>2. [[pc |-> pc, via |-> x.via, seen |-> x.seen, src |-> x.src,
               plan |-> x.plan, done |-> x.done, made |-> x.made, todo |-> x.todo]
           EXCEPT !.done = done]
         = [pc |-> pc, via |-> x.via, seen |-> x.seen, src |-> x.src,
             plan |-> x.plan, done |-> done, made |-> x.made, todo |-> x.todo]
    OBVIOUS
  <2>3. [[pc |-> pc, via |-> x.via, seen |-> x.seen, src |-> x.src,
               plan |-> x.plan, done |-> done, made |-> x.made, todo |-> x.todo]
           EXCEPT !.todo = {}]
         = [pc |-> pc, via |-> x.via, seen |-> x.seen, src |-> x.src,
             plan |-> x.plan, done |-> done, made |-> x.made, todo |-> {}]
    OBVIOUS
  <2> QED BY <2>1, <2>2, <2>3
<1>8. [x EXCEPT !.via = None] = [pc |-> x.pc, via |-> None,
         seen |-> x.seen, src |-> x.src, plan |-> x.plan, done |-> x.done,
         made |-> x.made, todo |-> x.todo]
  BY DEF SlotType
<1> QED BY <1>1, <1>2, <1>3, <1>4, <1>5, <1>6, <1>7, <1>8

LEMMA RunFields ==
    ASSUME NEW r \in RunType,
           NEW s \in {"DRAFT", "PREVIEW", "RUNNING", "FAILED", "DONE", "ROLLED_BACK"}
    PROVE  /\ [r EXCEPT !.status = s, !.stale = FALSE] \in RunType
           /\ [r EXCEPT !.status = s, !.stale = FALSE].status = s
           /\ [r EXCEPT !.status = s, !.stale = FALSE].stale = FALSE
           /\ [r EXCEPT !.status = s] \in RunType
           /\ [r EXCEPT !.stale = TRUE] \in RunType
           /\ [r EXCEPT !.stale = TRUE].status = r.status
BY DEF RunType

LEMMA StoredFields ==
    ASSUME NEW x \in SlotType,
           NEW s \in {"DRAFT", "PREVIEW", "RUNNING", "FAILED", "DONE", "ROLLED_BACK"}
    PROVE  Stored(s, x) \in RunType /\ Stored(s, x).status = s /\ Stored(s, x).stale = FALSE
BY DEF SlotType, Stored, RunType

\* The plan of the moment is a plan.
LEMMA PlanOfNow ==
    ASSUME RolloverTypeOK
    PROVE  CurrentPlan \in PlanType
<1>1. \A p \in Pupils : EvaluateStudent(p) \in Decisions
  BY DEF Pupils, EvaluateStudent, Decisions, Keys, Actions
<1>2. \A s \in Students : EvaluateStudent(pupil[s]) \in Decisions
  BY <1>1 DEF RolloverTypeOK
<1>3. CurrentPlan \in [{t \in Students : pupil[t].status = "ACTIVE"} -> Decisions]
  BY <1>2 DEF CurrentPlan
<1> QED BY <1>3 DEF PlanType

-----------------------------------------------------------------------------
(* A step of an execution: from ex[w] to x.                                *)

\* The run as it is, or claimed, or reclaimed, or left by its execution.
RunPart(w, x) ==
    \/ /\ run'.status = run.status /\ run'.stale \in {run.stale, FALSE}
       /\ x.pc \in Claimed => ex[w].pc \in Claimed
    \/ /\ ex[w].pc = "claim" /\ Claimable(run)
       /\ run'.status = "RUNNING" /\ run'.stale = FALSE
    \/ Reclaimable(run) /\ x.pc \notin Claimed
    \/ ex[w].pc \in Claimed /\ x.pc = "idle"

\* What a step that is no execution's does to the run: its status stays, or the
\* executions there are lose it.
RunKept ==
    \/ run'.status = run.status /\ run'.stale \in {run.stale, FALSE} /\ overtaken' = overtaken
    \/ Overtakes

Moves(w, x) ==
    /\ SlotOK(x) /\ Becomes(w, x) /\ RunPart(w, x) /\ UNCHANGED <<desk, mode, placeable,
                                                                  undoing, regraded, overtaken>>

\* Everything but the slots is typed.
LEMMA MovesKeepTypes ==
    ASSUME TypeInv, NEW w \in Executors, NEW x, Moves(w, x), RolloverTypeOK'
    PROVE  TypeInv'
<1>1. ex' = [ex EXCEPT ![w] = x] /\ x \in SlotType
  BY DEF Moves, Becomes, SlotOK
<1>2. ex' \in [Executors -> SlotType] /\ \A v \in Executors : SlotOK(ex'[v])
  BY <1>1 DEF TypeInv, Moves
<1>3. \A v \in Executors : SlotOK(ex[v])'
  <2> TAKE v \in Executors
  <2>1. PICK y : y = ex'[v] /\ SlotOK(y)
    BY <1>2
  <2>2. SlotOK(y)'
    BY <2>1 DEF SlotOK, SlotType, RunType, MadeType, PlanType, RowType, Decisions
  <2> QED BY <2>1, <2>2 DEF SlotOK
<1>4. DeskOK'
  BY DEF Moves, TypeInv, DeskOK
<1> QED BY <1>2, <1>3, <1>4 DEF TypeInv

LEMMA FreshSlots ==
    ASSUME NEW pc \in {"picked", "start"}, NEW via \in {None, "job"}
    PROVE  /\ SlotOK(IdleSlot) /\ IdleSlot.pc = "idle"
           /\ SlotOK([IdleSlot EXCEPT !.pc = pc])
           /\ [IdleSlot EXCEPT !.pc = pc].pc = pc
           /\ SlotOK([IdleSlot EXCEPT !.pc = pc, !.via = via])
           /\ [IdleSlot EXCEPT !.pc = pc, !.via = via].pc = pc
<1>1. [IdleSlot EXCEPT !.pc = pc]
          = [pc |-> pc, via |-> None, seen |-> None, src |-> None, plan |-> None,
             done |-> {}, made |-> None, todo |-> {}]
  BY DEF IdleSlot
<1>2. [IdleSlot EXCEPT !.pc = pc, !.via = via]
          = [pc |-> pc, via |-> via, seen |-> None, src |-> None, plan |-> None,
             done |-> {}, made |-> None, todo |-> {}]
  <2>1. [[pc |-> pc, via |-> None, seen |-> None, src |-> None, plan |-> None,
          done |-> {}, made |-> None, todo |-> {}] EXCEPT !.via = via]
            = [pc |-> pc, via |-> via, seen |-> None, src |-> None, plan |-> None,
               done |-> {}, made |-> None, todo |-> {}]
    OBVIOUS
  <2> QED BY <1>1, <2>1
<1>3. SlotOK(IdleSlot) /\ IdleSlot.pc = "idle"
  BY ClaimedAre DEF IdleSlot, SlotOK, SlotType, Waiting, Marking
<1>4. \A v \in {None, "job"} :
          SlotOK([pc |-> pc, via |-> v, seen |-> None, src |-> None, plan |-> None,
                  done |-> {}, made |-> None, todo |-> {}])
  BY ClaimedAre DEF SlotOK, SlotType, Waiting, Marking
<1> QED BY <1>1, <1>2, <1>3, <1>4

\* An execution that ends: its job becomes whatever the queue makes of it.
LEMMA LeaveMoves ==
    ASSUME TypeInv, NEW w \in Executors, NEW ended \in JobType, Leave(w, ended),
           UNCHANGED <<desk, mode, placeable, undoing, regraded, overtaken>>,
           RunPart(w, IdleSlot)
    PROVE  Moves(w, IdleSlot) /\ IdleSlot.pc \notin Marking /\ job' \in JobType
<1>1. SlotOK(IdleSlot) /\ IdleSlot.pc = "idle"
  BY FreshSlots
<1> QED BY <1>1 DEF Moves, Leave, Marking, TypeInv, RolloverTypeOK

\* Nothing of the school moves while an execution begins.
LEMMA StartSteps ==
    ASSUME TypeInv, NEW w \in Executors,
           \/ ExecuteInline(w) \/ TakeJob(w) \/ Picked(w) \/ ExecuteStart(w)
           \/ ExecuteRefused(w)
    PROVE  RolloverTypeOK' /\ \E x : Moves(w, x) /\ x.pc \notin Marking
<1>1. ex[w] \in SlotType /\ SlotOK(ex[w]) /\ job \in JobType /\ run \in RunType
      /\ year.src \in YearStatuses
  BY DEF TypeInv, RolloverTypeOK
<1>2. UNCHANGED <<run, school, desk, mode, placeable, undoing, regraded,
                  overtaken>> /\ faults' \in Nat
  <2>1. SlotMayStart => faults' \in Nat
    BY DEF SlotMayStart, Fault, TypeInv, RolloverTypeOK
  <2> QED BY <2>1 DEF ExecuteInline, TakeJob, Picked, ExecuteStart, ExecuteRefused, world, ghost,
                      TypeInv, RolloverTypeOK
<1>3. job' \in JobType => RolloverTypeOK'
  BY <1>2 DEF TypeInv, RolloverTypeOK, school
<1>4. \A x : x.pc \notin Claimed => RunPart(w, x)
  BY <1>2 DEF RunPart
<1>5. CASE ExecuteInline(w)
  <2>1. PICK x : x = [IdleSlot EXCEPT !.pc = "start"] /\ SlotOK(x) /\ x.pc = "start"
    BY FreshSlots
  <2>2. Becomes(w, x) /\ job' = job
    BY <1>5, <2>1 DEF ExecuteInline
  <2>3. RunPart(w, x)
    <3>1. x.pc \notin Claimed
      BY <2>1, ClaimedAre
    <3> QED BY <1>4, <3>1
  <2>4. Moves(w, x)
    BY <1>2, <2>1, <2>2, <2>3 DEF Moves
  <2> QED BY <1>1, <1>3, <2>1, <2>2, <2>4 DEF Marking
<1>6. CASE TakeJob(w)
  <2>1. PICK x : /\ x = [IdleSlot EXCEPT !.pc = "picked", !.via = "job"]
                 /\ SlotOK(x) /\ x.pc = "picked"
    BY FreshSlots
  <2>2. job' \in JobType
    BY <1>1, <1>6, JobsStayJobs DEF TakeJob
  <2>3. Becomes(w, x)
    BY <1>6, <2>1 DEF TakeJob
  <2>4. RunPart(w, x)
    <3>1. x.pc \notin Claimed
      BY <2>1, ClaimedAre
    <3> QED BY <1>4, <3>1
  <2>5. Moves(w, x)
    BY <1>2, <2>1, <2>3, <2>4 DEF Moves
  <2> QED BY <1>3, <2>1, <2>2, <2>5 DEF Marking
<1>7. CASE Picked(w)
  <2>1. CASE Leave(w, Completed(job))
    <3>1. Completed(job) \in JobType /\ RunPart(w, IdleSlot)
      BY <1>1, <1>4, JobsStayJobs, ClaimedAre DEF IdleSlot
    <3> QED BY <1>2, <1>3, <2>1, <3>1, LeaveMoves
  <2>2. CASE Goto(w, "start")
    <3>1. PICK x : x = [ex[w] EXCEPT !.pc = "start"]
      OBVIOUS
    <3>2. SlotOK(x) /\ x.pc = "start"
      BY <1>1, <3>1, SlotFields, ClaimedAre DEF SlotOK, SlotType, Waiting, Marking
    <3>3. Becomes(w, x) /\ job' = job
      BY <2>2, <3>1 DEF Goto
    <3>4. RunPart(w, x)
      BY <1>4, <3>2, ClaimedAre
    <3>5. Moves(w, x)
      BY <1>2, <3>2, <3>3, <3>4 DEF Moves
    <3> QED BY <1>1, <1>3, <3>2, <3>3, <3>5 DEF Marking
  <2> QED BY <1>7, <2>1, <2>2 DEF Picked
<1>8. CASE ExecuteStart(w)
  <2>1. PICK pc \in {"reclaim", "claim"} :
            pc = IF run.status = "RUNNING" THEN "reclaim" ELSE "claim"
    OBVIOUS
  <2>2. PICK x : x = [ex[w] EXCEPT !.pc = pc, !.seen = run, !.src = year.src, !.plan = run.plan]
    OBVIOUS
  <2>3. x = [pc |-> pc, via |-> ex[w].via, seen |-> run, src |-> year.src, plan |-> run.plan,
             done |-> ex[w].done, made |-> ex[w].made, todo |-> ex[w].todo]
    <3>1. [ex[w] EXCEPT !.pc = pc]
              = [pc |-> pc, via |-> ex[w].via, seen |-> ex[w].seen, src |-> ex[w].src,
                 plan |-> ex[w].plan, done |-> ex[w].done, made |-> ex[w].made,
                 todo |-> ex[w].todo]
      BY <1>1 DEF SlotType
    <3>2. x = [[pc |-> pc, via |-> ex[w].via, seen |-> ex[w].seen, src |-> ex[w].src,
                plan |-> ex[w].plan, done |-> ex[w].done, made |-> ex[w].made,
                todo |-> ex[w].todo]
                  EXCEPT !.seen = run, !.src = year.src, !.plan = run.plan]
      BY <2>2, <3>1
    <3> QED BY <3>2
  <2>4. run.plan \in PlanType
    BY <1>1, <1>8 DEF ExecuteStart, Executable, RunType
  <2>5. SlotOK(x) /\ x.pc = pc
    BY <1>1, <2>3, <2>4, ClaimedAre DEF SlotOK, SlotType, Waiting, Marking
  <2>6. Becomes(w, x) /\ job' = job
    BY <1>8, <2>1, <2>2 DEF ExecuteStart
  <2> QED BY <1>1, <1>2, <1>3, <1>4, <2>5, <2>6, ClaimedAre DEF Moves, Marking
<1>9. CASE ExecuteRefused(w)
  <2>1. Thrown(job) \in JobType /\ RunPart(w, IdleSlot)
    BY <1>1, <1>4, JobsStayJobs, ClaimedAre DEF IdleSlot
  <2> QED BY <1>2, <1>3, <1>9, <2>1, LeaveMoves DEF ExecuteRefused
<1> QED BY <1>5, <1>6, <1>7, <1>8, <1>9

\* Reclaiming and claiming the run.
LEMMA ClaimSteps ==
    ASSUME TypeInv, NEW w \in Executors, Reclaim(w) \/ Claim(w) \/ Begin(w)
    PROVE  RolloverTypeOK' /\ \E x : Moves(w, x) /\ x.pc \notin Marking
<1>1. ex[w] \in SlotType /\ SlotOK(ex[w]) /\ job \in JobType /\ run \in RunType
  BY DEF TypeInv, RolloverTypeOK
<1>2. UNCHANGED <<school, desk, faults, mode, placeable, undoing, regraded, overtaken>>
  BY DEF Reclaim, Claim, Begin, world, ghost
<1>3. job' \in JobType /\ run' \in RunType => RolloverTypeOK'
  BY <1>2 DEF TypeInv, RolloverTypeOK, school
<1>4. CASE Leave(w, Thrown(job)) /\ run' = run
  <2>1. Thrown(job) \in JobType /\ RunPart(w, IdleSlot)
    BY <1>1, <1>4, JobsStayJobs, ClaimedAre DEF IdleSlot, RunPart
  <2> QED BY <1>1, <1>2, <1>3, <1>4, <2>1, LeaveMoves
<1>5. CASE Reclaim(w) /\ Reclaimable(run)
  <2>1. run' = [ex[w].seen EXCEPT !.status = "FAILED", !.stale = FALSE] /\ Goto(w, "claim")
    BY <1>5 DEF Reclaim
  <2>2. PICK x : x = [ex[w] EXCEPT !.pc = "claim"]
    OBVIOUS
  <2>3. SlotOK(x) /\ x.pc = "claim"
    BY <1>1, <1>5, <2>2, SlotFields, ClaimedAre DEF Reclaim, SlotOK, SlotType, Waiting, Marking
  <2>4. run' \in RunType
    BY <1>1, <1>5, <2>1, RunFields DEF Reclaim, SlotOK
  <2>5. RunPart(w, x)
    BY <1>5, <2>3, ClaimedAre DEF RunPart
  <2> QED BY <1>1, <1>2, <1>3, <2>1, <2>2, <2>3, <2>4, <2>5 DEF Goto, Moves, Marking
<1>6. CASE Claim(w) /\ Claimable(run)
  <2>1. run' = [run EXCEPT !.status = "RUNNING", !.stale = FALSE] /\ Goto(w, "begin")
    BY <1>6 DEF Claim
  <2>2. PICK x : x = [ex[w] EXCEPT !.pc = "begin"]
    OBVIOUS
  <2>3. SlotOK(x) /\ x.pc = "begin"
    BY <1>1, <1>6, <2>2, SlotFields, ClaimedAre DEF Claim, SlotOK, SlotType, Waiting, Marking
  <2>4. run' \in RunType /\ run'.status = "RUNNING" /\ run'.stale = FALSE
    BY <1>1, <2>1, RunFields
  <2>5. RunPart(w, x)
    BY <1>6, <2>4 DEF Claim, RunPart
  <2> QED BY <1>1, <1>2, <1>3, <2>1, <2>2, <2>3, <2>4, <2>5 DEF Goto, Moves, Marking
<1>7. CASE Begin(w)
  <2>1. PICK seen \in RunType : seen = ex[w].seen
    BY <1>1, <1>7, ClaimedAre DEF Begin, SlotOK
  <2>2. PICK pc \in Steps \union {"finish"} : pc = NextStep(seen.done)
    BY NextStepIs
  <2>3. NothingMade(ex[w].src) \in MadeType
    <3>1. ex[w].src \in YearStatuses /\ year.cur \in {"src", "tgt"}
      BY <1>1, <1>7, ClaimedAre DEF Begin, SlotOK, TypeInv, RolloverTypeOK
    <3>2. [s \in {} |-> None] \in UNION {[S -> Statuses] : S \in SUBSET Students}
      <4>1. [s \in {} |-> None] \in [{} -> Statuses]
        OBVIOUS
      <4> QED BY <4>1
    <3> QED BY <3>1, <3>2 DEF NothingMade, MadeType
  <2>4. PICK made \in MadeType :
            made = IF seen.made = None THEN NothingMade(ex[w].src) ELSE seen.made
    BY <2>1, <2>3 DEF RunType
  <2>5. PICK x : x = [ex[w] EXCEPT !.pc = pc, !.seen = None, !.done = seen.done, !.made = made]
    OBVIOUS
  <2>6. x = [pc |-> pc, via |-> ex[w].via, seen |-> None, src |-> ex[w].src,
             plan |-> ex[w].plan, done |-> seen.done, made |-> made, todo |-> ex[w].todo]
    <3>1. [ex[w] EXCEPT !.pc = pc]
              = [pc |-> pc, via |-> ex[w].via, seen |-> ex[w].seen, src |-> ex[w].src,
                 plan |-> ex[w].plan, done |-> ex[w].done, made |-> ex[w].made,
                 todo |-> ex[w].todo]
      BY <1>1 DEF SlotType
    <3>2. x = [[pc |-> pc, via |-> ex[w].via, seen |-> ex[w].seen, src |-> ex[w].src,
                plan |-> ex[w].plan, done |-> ex[w].done, made |-> ex[w].made,
                todo |-> ex[w].todo]
                  EXCEPT !.seen = None, !.done = seen.done, !.made = made]
      BY <2>5, <3>1
    <3> QED BY <3>2
  <2>7. SlotOK(x) /\ x.pc = pc
    <3>1. ex[w].plan \in PlanType /\ ex[w].src \in YearStatuses
      BY <1>1, <1>7, ClaimedAre DEF Begin, SlotOK
    <3>2. seen.done \in SUBSET Steps
      BY DEF RunType
    <3>3. x \in SlotType
      BY <1>1, <2>6, <3>2, ClaimedAre, StepsAre DEF SlotType, Waiting
    <3> QED BY <2>6, <3>1, <3>3, ClaimedAre, StepsAre DEF SlotOK, Marking
  <2>8. Becomes(w, x) /\ job' = job /\ run' = run /\ ex[w].pc = "begin"
    BY <1>7, <2>1, <2>2, <2>4, <2>5 DEF Begin
  <2>9. RunPart(w, x)
    BY <2>8, ClaimedAre DEF RunPart
  <2> QED BY <1>1, <1>2, <1>3, <2>7, <2>8, <2>9, StepsAre DEF Moves, Marking
<1> QED BY <1>4, <1>5, <1>6, <1>7 DEF Reclaim, Claim

-----------------------------------------------------------------------------
(* What a step does to the school: rows and alumni only grow, and only the *)
(* students a step works on change their status.                           *)

Growing == rows \subseteq rows' /\ alumni \subseteq alumni'

StatusesKept == \A s \in Students : pupil'[s].status = pupil[s].status

\* A record of what was made, with one part replaced.
LEMMA MadeFields ==
    ASSUME NEW m \in MadeType
    PROVE  /\ \A C \in SUBSET ClassIds : [m EXCEPT !.classes = C] \in MadeType
           /\ \A R \in SUBSET RowType : [m EXCEPT !.rows = R] \in MadeType
           /\ \A y \in YearStatuses : [m EXCEPT !.src = y] \in MadeType
BY DEF MadeType

\* With the old statuses of some students in it.
Remembered == UNION {[S -> Statuses] : S \in SUBSET Students}

LEMMA MadeRemembers ==
    ASSUME NEW m \in MadeType, NEW B \in Remembered
    PROVE  /\ \A A \in SUBSET [who : Students, n : 1..MaxCopies] :
                 [m EXCEPT !.alumni = A, !.before = B] \in MadeType
           /\ \A R \in SUBSET RowType : [m EXCEPT !.rows = R, !.before = B] \in MadeType
<1>1. \A q \in MadeType : [q EXCEPT !.before = B] \in MadeType
  BY DEF MadeType, Remembered
<1>2. ASSUME NEW A \in SUBSET [who : Students, n : 1..MaxCopies]
      PROVE  [m EXCEPT !.alumni = A, !.before = B] \in MadeType
  <2>1. [m EXCEPT !.alumni = A] \in MadeType
    BY DEF MadeType
  <2>2. [m EXCEPT !.alumni = A, !.before = B] = [[m EXCEPT !.alumni = A] EXCEPT !.before = B]
    OBVIOUS
  <2> QED BY <1>1, <2>1, <2>2
<1>3. ASSUME NEW R \in SUBSET RowType
      PROVE  [m EXCEPT !.rows = R, !.before = B] \in MadeType
  <2>1. [m EXCEPT !.rows = R, !.before = B] = [[m EXCEPT !.rows = R] EXCEPT !.before = B]
    OBVIOUS
  <2> QED BY <1>1, <2>1, MadeFields
<1> QED BY <1>2, <1>3

\* The slot of a step that is done.
LEMMA DoneSlot ==
    ASSUME NEW x, SlotOK(x), x.pc \in Claimed \ {"begin"}, NEW step \in Steps, NEW y,
           y = [x EXCEPT !.pc = "persist", !.done = @ \union {step}, !.todo = {}]
    PROVE  SlotOK(y) /\ y.pc = "persist"
<1>1. x \in SlotType /\ x.plan \in PlanType /\ x.src \in YearStatuses /\ x.made \in MadeType
  BY DEF SlotOK
<1>2. PICK done \in SUBSET Steps : done = x.done \union {step}
  BY <1>1 DEF SlotType
<1>3. y = [pc |-> "persist", via |-> x.via, seen |-> x.seen, src |-> x.src, plan |-> x.plan,
           done |-> done, made |-> x.made, todo |-> {}]
  <2>1. [x EXCEPT !.pc = "persist"]
            = [pc |-> "persist", via |-> x.via, seen |-> x.seen, src |-> x.src,
               plan |-> x.plan, done |-> x.done, made |-> x.made, todo |-> x.todo]
    BY <1>1 DEF SlotType
  <2>2. y = [[pc |-> "persist", via |-> x.via, seen |-> x.seen, src |-> x.src,
              plan |-> x.plan, done |-> x.done, made |-> x.made, todo |-> x.todo]
                EXCEPT !.done = done, !.todo = {}]
    BY <1>2, <2>1
  <2> QED BY <2>2
<1> QED BY <1>1, <1>3, ClaimedAre DEF SlotOK, SlotType, Marking

\* A claimed execution goes on: the run is not touched.
LEMMA Working ==
    ASSUME NEW w \in Executors, ex[w].pc \in Claimed, NEW x, SlotOK(x), Becomes(w, x),
           run' = run, UNCHANGED <<desk, mode, placeable, undoing, regraded, overtaken>>
    PROVE  Moves(w, x)
BY DEF Moves, RunPart

\* Steps that end without a write to the school's tables.
LEMMA EmptySteps ==
    ASSUME TypeInv, NEW w \in Executors,
           \/ ClassesCreated(w) \/ CopyCurriculum(w) \/ NothingToDo(w) \/ GraduateLog(w)
           \/ PromoteMarked(w)
    PROVE  RolloverTypeOK' /\ \E x : Moves(w, x) /\ x.pc \notin Marking
<1>1. SlotOK(ex[w])
  BY DEF TypeInv
<1>2. UNCHANGED <<run, school, desk, job, faults, mode, placeable, undoing, regraded, overtaken>>
  BY DEF ClassesCreated, CopyCurriculum, NothingToDo, GraduateLog, PromoteMarked, world, ghost
<1>3. RolloverTypeOK'
  BY <1>2 DEF TypeInv, RolloverTypeOK, school
<1>4. ex[w].pc \in Claimed \ {"begin"}
  BY ClaimedAre DEF ClassesCreated, CopyCurriculum, NothingToDo, GraduateLog, PromoteMarked
<1>5. PICK step \in Steps : StepDone(w, step)
  BY StepsAre DEF ClassesCreated, CopyCurriculum, NothingToDo, GraduateLog, PromoteMarked
<1>6. PICK x : x = [ex[w] EXCEPT !.pc = "persist", !.done = @ \union {step}, !.todo = {}]
  OBVIOUS
<1>7. SlotOK(x) /\ x.pc = "persist"
  BY <1>1, <1>4, <1>6, DoneSlot
<1>8. Becomes(w, x)
  BY <1>5, <1>6 DEF StepDone
<1>9. Moves(w, x)
  BY <1>2, <1>4, <1>7, <1>8, Working
<1> QED BY <1>3, <1>7, <1>9 DEF Marking

\* Closing the old year, opening the new one.
LEMMA YearSteps ==
    ASSUME TypeInv, NEW w \in Executors, CloseSource(w) \/ SetCurrent(w)
    PROVE  RolloverTypeOK' /\ \E x : Moves(w, x) /\ x.pc \notin Marking
<1>1. SlotOK(ex[w]) /\ ex[w] \in SlotType
  BY DEF TypeInv, SlotOK
<1>2. UNCHANGED <<run, pupil, rows, classes, alumni, applied, desk, job, faults, mode,
                  placeable, undoing, regraded, overtaken>>
  BY DEF CloseSource, SetCurrent, StepDone, Goto, world, ghost
<1>3. year' \in [src : YearStatuses, tgt : YearStatuses, cur : {"src", "tgt"}]
  BY DEF CloseSource, SetCurrent, TypeInv, RolloverTypeOK, YearStatuses
<1>4. RolloverTypeOK'
  BY <1>2, <1>3 DEF TypeInv, RolloverTypeOK
<1>5. ex[w].pc \in Claimed \ {"begin"}
  BY ClaimedAre DEF CloseSource, SetCurrent
<1>6. ex[w].plan \in PlanType /\ ex[w].src \in YearStatuses /\ ex[w].made \in MadeType
  BY <1>1, <1>5 DEF SlotOK
<1>7. CASE CloseSource(w)
  <2>1. PICK made \in MadeType : made = [ex[w].made EXCEPT !.src = ex[w].src]
    BY <1>6, MadeFields
  <2>2. PICK done \in SUBSET Steps : done = ex[w].done \union {"close-source"}
    BY <1>1, StepsAre DEF SlotType
  <2>3. PICK x : x = [ex[w] EXCEPT !.pc = "persist", !.done = done, !.made = made]
    OBVIOUS
  <2>4. SlotOK(x) /\ x.pc = "persist"
    BY <1>1, <1>6, <2>3, ClaimedAre, SlotFields DEF SlotOK, SlotType, Marking
  <2>5. Becomes(w, x)
    BY <1>7, <2>1, <2>2, <2>3 DEF CloseSource
  <2>6. Moves(w, x)
    BY <1>2, <1>5, <2>4, <2>5, Working
  <2> QED BY <1>4, <2>4, <2>6 DEF Marking
<1>8. CASE StepDone(w, "set-current")
  <2>1. PICK x : x = [ex[w] EXCEPT !.pc = "persist", !.done = @ \union {"set-current"}, !.todo = {}]
    OBVIOUS
  <2>2. SlotOK(x) /\ x.pc = "persist"
    BY <1>1, <1>5, <2>1, DoneSlot, StepsAre
  <2>3. Becomes(w, x)
    BY <1>8, <2>1 DEF StepDone
  <2>4. Moves(w, x)
    BY <1>2, <1>5, <2>2, <2>3, Working
  <2> QED BY <1>4, <2>2, <2>4 DEF Marking
<1>9. ASSUME NEW pc \in {"open-target", "close-old"}, Goto(w, pc)
      PROVE  \E x : Moves(w, x) /\ x.pc \notin Marking
  <2>1. PICK x : x = [ex[w] EXCEPT !.pc = pc]
    OBVIOUS
  <2>2. SlotOK(x) /\ x.pc = pc
    BY <1>1, <1>6, <2>1, ClaimedAre, SlotFields DEF SlotOK, SlotType, Marking
  <2>3. Becomes(w, x)
    BY <1>9, <2>1 DEF Goto
  <2>4. Moves(w, x)
    BY <1>2, <1>5, <2>2, <2>3, Working
  <2> QED BY <2>2, <2>4 DEF Marking
<1> QED BY <1>4, <1>7, <1>8, <1>9 DEF SetCurrent

-----------------------------------------------------------------------------
(* The steps that write.                                                   *)

Graduating == {"graduate-read", "graduate-mark"}
Promoting  == {"promote-read", "promote-mark"}

\* Whoever is about to be marked has his row, and only those are marked.
Careful(w, x) ==
    /\ \A s \in Students :
          \/ pupil'[s].status = pupil[s].status
          \/ /\ ex[w].pc = "graduate-mark" /\ s \in ex[w].todo
             /\ pupil'[s].status = "GRADUATED"
          \/ /\ ex[w].pc = "promote-mark" /\ s \in ex[w].todo
             /\ pupil'[s].status \in {"PROMOTED", "REPEATED"}
    /\ x.pc \in Graduating => \A s \in x.todo : \/ ex[w].pc \in Graduating /\ s \in ex[w].todo
                                                \/ \E a \in alumni' : a.who = s
    /\ x.pc \in Promoting => \A s \in x.todo : \/ ex[w].pc \in Promoting /\ s \in ex[w].todo
                                               \/ \E r \in rows' : r.who = s

\* A planned student is a student, and his key is a key.
LEMMA PlannedAre ==
    ASSUME NEW plan \in PlanType, NEW actions
    PROVE  /\ Planned(plan, actions) \subseteq Students
           /\ PlanKeys(plan) \subseteq Keys
<1>1. PICK S \in SUBSET Students : plan \in [S -> Decisions]
  BY DEF PlanType
<1>2. Planned(plan, actions) \subseteq Students
  BY <1>1 DEF Planned
<1>3. \A s \in S : plan[s].key \in Keys \union {None}
  BY <1>1 DEF Decisions
<1>4. PlanKeys(plan) \subseteq Keys
  BY <1>1, <1>3 DEF PlanKeys
<1> QED BY <1>2, <1>4

LEMMA UnusedIs ==
    ASSUME NEW used, Room(used)
    PROVE  Unused(used) \in 1..MaxCopies
BY DEF Room, Unused

LEMMA RememberedAre ==
    ASSUME RolloverTypeOK, NEW before \in Remembered, NEW students \in SUBSET Students
    PROVE  Remember(before, students) \in Remembered
<1>1. PICK S \in SUBSET Students : before \in [S -> Statuses]
  BY DEF Remembered
<1>2. \A s \in Students : pupil[s].status \in Statuses
  BY DEF RolloverTypeOK, Pupils
<1>3. Remember(before, students) \in [S \union students -> Statuses]
  BY <1>1, <1>2 DEF Remember
<1>4. S \union students \in SUBSET Students
  OBVIOUS
<1> QED BY <1>3, <1>4 DEF Remembered

LEMMA MarkedAre ==
    ASSUME RolloverTypeOK, NEW students, NEW status \in Statuses, Mark(students, status)
    PROVE  /\ pupil' \in [Students -> Pupils]
           /\ \A s \in Students : pupil'[s].status = IF s \in students THEN status
                                                     ELSE pupil[s].status
<1>1. \A s \in Students : /\ [pupil[s] EXCEPT !.status = status] \in Pupils
                          /\ [pupil[s] EXCEPT !.status = status].status = status
                          /\ pupil[s] \in Pupils
  BY DEF RolloverTypeOK, Pupils
<1>2. pupil' \in [Students -> Pupils]
  BY <1>1 DEF Mark
<1>3. \A s \in Students : pupil'[s] = IF s \in students THEN [pupil[s] EXCEPT !.status = status]
                                      ELSE pupil[s]
  BY DEF Mark
<1> QED BY <1>1, <1>2, <1>3

\* The slot of an execution that goes on with some students to do.
LEMMA TodoSlot ==
    ASSUME NEW x, SlotOK(x), x.pc \in Claimed \ {"begin"},
           NEW pc \in Claimed \ {"begin"}, NEW todo \in SUBSET People, NEW y,
           y = [x EXCEPT !.pc = pc, !.todo = todo],
           pc \in Marking => todo \subseteq Students,
           pc \in {"ppdb-read", "ppdb-mark"} => todo \subseteq Applicants
    PROVE  SlotOK(y)
<1>1. x \in SlotType /\ x.plan \in PlanType /\ x.src \in YearStatuses /\ x.made \in MadeType
  BY DEF SlotOK
<1>2. y = [pc |-> pc, via |-> x.via, seen |-> x.seen, src |-> x.src, plan |-> x.plan,
           done |-> x.done, made |-> x.made, todo |-> todo]
  <2>1. [x EXCEPT !.pc = pc]
            = [pc |-> pc, via |-> x.via, seen |-> x.seen, src |-> x.src,
               plan |-> x.plan, done |-> x.done, made |-> x.made, todo |-> x.todo]
    BY <1>1 DEF SlotType
  <2>2. y = [[pc |-> pc, via |-> x.via, seen |-> x.seen, src |-> x.src,
              plan |-> x.plan, done |-> x.done, made |-> x.made, todo |-> x.todo]
                EXCEPT !.todo = todo]
    BY <2>1
  <2> QED BY <2>2
<1>3. y \in SlotType
  BY <1>1, <1>2 DEF SlotType
<1> QED BY <1>1, <1>2, <1>3, ClaimedAre DEF SlotOK

\* The slot of an execution that has noted what it made.
LEMMA MadeSlot ==
    ASSUME NEW x, SlotOK(x), x.pc \in Claimed \ {"begin"},
           NEW pc \in Claimed \ {"begin"}, NEW made \in MadeType, NEW y,
           y = [x EXCEPT !.pc = pc, !.made = made],
           pc \in Marking => x.todo \subseteq Students,
           pc \in {"ppdb-read", "ppdb-mark"} => x.todo \subseteq Applicants
    PROVE  SlotOK(y)
<1>1. x \in SlotType /\ x.plan \in PlanType /\ x.src \in YearStatuses
  BY DEF SlotOK
<1>2. y = [pc |-> pc, via |-> x.via, seen |-> x.seen, src |-> x.src, plan |-> x.plan,
           done |-> x.done, made |-> made, todo |-> x.todo]
  <2>1. [x EXCEPT !.pc = pc]
            = [pc |-> pc, via |-> x.via, seen |-> x.seen, src |-> x.src,
               plan |-> x.plan, done |-> x.done, made |-> x.made, todo |-> x.todo]
    BY <1>1 DEF SlotType
  <2>2. y = [[pc |-> pc, via |-> x.via, seen |-> x.seen, src |-> x.src,
              plan |-> x.plan, done |-> x.done, made |-> x.made, todo |-> x.todo]
                EXCEPT !.made = made]
    BY <2>1
  <2> QED BY <2>2
<1>3. y \in SlotType
  BY <1>1, <1>2 DEF SlotType
<1> QED BY <1>1, <1>2, <1>3, ClaimedAre DEF SlotOK

\* Classes of the new year.
LEMMA ClassSteps ==
    ASSUME TypeInv, NEW w \in Executors, CreateClass(w)
    PROVE  RolloverTypeOK' /\ \E x : Moves(w, x) /\ x.pc \notin Marking
<1>1. SlotOK(ex[w]) /\ ex[w].pc = "create-classes" /\ ex[w].pc \in Claimed \ {"begin"}
  BY ClaimedAre DEF TypeInv, CreateClass
<1>2. ex[w] \in SlotType /\ ex[w].plan \in PlanType /\ ex[w].made \in MadeType
  BY <1>1 DEF SlotOK
<1>3. PICK k \in MissingKeys(ex[w]) : \E used, new :
          /\ used = {c.n : c \in {d \in classes : d.key = k}}
          /\ new  = [key |-> k, n |-> Unused(used)]
          /\ Room(used)
          /\ classes' = classes \union {new}
          /\ Becomes(w, [ex[w] EXCEPT !.made.classes = @ \union {new}])
  BY Zenon DEF CreateClass
<1>4. PICK used, new :
          /\ new  = [key |-> k, n |-> Unused(used)]
          /\ Room(used)
          /\ classes' = classes \union {new}
          /\ Becomes(w, [ex[w] EXCEPT !.made.classes = @ \union {new}])
  BY <1>3
<1>5. new \in ClassIds
  <2>1. k \in Keys
    BY <1>2, PlannedAre DEF MissingKeys
  <2>2. Unused(used) \in 1..MaxCopies
    BY <1>4, UnusedIs
  <2> QED BY <1>4, <2>1, <2>2 DEF ClassIds
<1>6. PICK made \in MadeType :
          made = [ex[w].made EXCEPT !.classes = ex[w].made.classes \union {new}]
  <2>1. ex[w].made.classes \union {new} \in SUBSET ClassIds
    BY <1>2, <1>5 DEF MadeType
  <2> QED BY <1>2, <2>1, MadeFields
<1>7. PICK x : x = [ex[w] EXCEPT !.made = made]
  OBVIOUS
<1>8. SlotOK(x) /\ x.pc = "create-classes"
  <2>1. x = [ex[w] EXCEPT !.pc = "create-classes", !.made = made]
    BY <1>1, <1>2, <1>7 DEF SlotType
  <2>2. PICK pc : pc = "create-classes"
    OBVIOUS
  <2>3. pc \in Claimed \ {"begin"} /\ pc \notin Marking /\ pc \notin {"ppdb-read", "ppdb-mark"}
    BY <1>1, <2>2 DEF Marking
  <2>4. PICK u : u = ex[w]
    OBVIOUS
  <2>5. SlotOK(u) /\ u.pc \in Claimed \ {"begin"} /\ x = [u EXCEPT !.pc = pc, !.made = made]
    BY <1>1, <2>1, <2>2, <2>4
  <2>6. SlotOK(x)
    BY <2>3, <2>5, MadeSlot
  <2> QED BY <1>1, <1>2, <1>7, <2>6 DEF SlotType
<1>9. Becomes(w, x) /\ classes' = classes \union {new}
  <2>1. Becomes(w, [ex[w] EXCEPT !.made.classes = @ \union {new}])
        /\ classes' = classes \union {new}
    BY <1>4
  <2>2. [ex[w] EXCEPT !.made.classes = @ \union {new}] = x
    <3>1. [ex[w] EXCEPT !.made.classes = @ \union {new}]
              = [ex[w] EXCEPT !.made =
                    [ex[w].made EXCEPT !.classes = ex[w].made.classes \union {new}]]
      OBVIOUS
    <3> QED BY Zenon, <1>6, <1>7, <3>1
  <2> QED BY <2>1, <2>2
<1>10. UNCHANGED <<run, year, pupil, rows, alumni, applied, desk, job, faults, mode, placeable,
                   undoing, regraded, overtaken>>
  BY DEF CreateClass, world, ghost
<1>11. RolloverTypeOK'
  BY <1>5, <1>9, <1>10 DEF TypeInv, RolloverTypeOK
<1>12. Moves(w, x)
  BY <1>1, <1>8, <1>9, <1>10, Working
<1> QED BY <1>8, <1>11, <1>12 DEF Marking

\* Graduates: the alumni rows, the note of what was made, the mark.
LEMMA GraduateSteps ==
    ASSUME TypeInv, NEW w \in Executors,
           GraduateCreate(w) \/ GraduateRead(w) \/ GraduateMark(w)
    PROVE  RolloverTypeOK' /\ \E x : Moves(w, x) /\ Careful(w, x)
<1>1. PICK u : u = ex[w]
  OBVIOUS
<1>2. SlotOK(u) /\ u.pc \in Claimed \ {"begin"}
  BY <1>1, ClaimedAre DEF TypeInv, GraduateCreate, GraduateRead, GraduateMark
<1>3. u \in SlotType /\ u.plan \in PlanType /\ u.made \in MadeType
  BY <1>2 DEF SlotOK
<1>4. ex[w].pc \in Claimed
  BY <1>1, <1>2
<1>5. CASE GraduateCreate(w)
  <2>1. UNCHANGED <<run, year, pupil, rows, classes, applied, desk, job, faults, mode,
                    placeable, undoing, regraded, overtaken>>
    BY <1>5 DEF GraduateCreate, world, ghost
  <2>2. PICK todo \in SUBSET Students : todo = Concerned(u)
    <3>1. u.pc = "graduate"
      BY <1>1, <1>5 DEF GraduateCreate
    <3>2. Concerned(u) = Planned(u.plan, {"GRADUATED"})
      BY <3>1 DEF Concerned
    <3> QED BY <1>3, <3>2, PlannedAre
  <2>3. alumni' = alumni \union {[who |-> s, n |-> Unused(AlumniOf(s))] : s \in todo}
        /\ \A s \in todo : Unused(AlumniOf(s)) \in 1..MaxCopies
    BY <1>1, <1>5, <2>2, UnusedIs DEF GraduateCreate
  <2>4. RolloverTypeOK'
    BY <2>1, <2>3 DEF TypeInv, RolloverTypeOK
  <2>5. PICK x : x = [u EXCEPT !.pc = "graduate-read", !.todo = todo]
    OBVIOUS
  <2>6. SlotOK(x)
    <3>1. PICK pc \in Claimed \ {"begin"} : pc = "graduate-read"
      BY ClaimedAre
    <3>2. x = [u EXCEPT !.pc = pc, !.todo = todo] /\ pc \notin {"ppdb-read", "ppdb-mark"}
      BY <2>5, <3>1
    <3>3. todo \in SUBSET People
      BY DEF People
    <3> QED BY <1>2, <2>2, <3>2, <3>3, TodoSlot
  <2>7. x.pc = "graduate-read" /\ x.todo = todo
    BY <1>3, <2>5 DEF SlotType
  <2>8. Becomes(w, x)
    BY <1>1, <1>5, <2>2, <2>5 DEF GraduateCreate
  <2>9. Moves(w, x)
    BY <1>4, <2>1, <2>6, <2>8, Working
  <2>10. Careful(w, x)
    <3>1. ASSUME NEW s \in todo PROVE \E a \in alumni' : a.who = s
      <4>1. [who |-> s, n |-> Unused(AlumniOf(s))] \in alumni'
        BY <2>3
      <4> QED BY <4>1
    <3> QED BY <2>1, <2>7, <3>1 DEF Careful, Graduating, Promoting
  <2> QED BY <2>4, <2>9, <2>10
<1>6. CASE GraduateRead(w)
  <2>1. UNCHANGED <<run, school, desk, job, faults, mode, placeable, undoing, regraded, overtaken>>
    BY <1>6 DEF GraduateRead, world, ghost
  <2>2. RolloverTypeOK'
    BY <2>1 DEF TypeInv, RolloverTypeOK, school
  <2>3. u.pc = "graduate-read" /\ u.todo \in SUBSET Students
    BY <1>1, <1>2, <1>6 DEF GraduateRead, SlotOK, Marking
  <2>4. PICK A \in SUBSET [who : Students, n : 1..MaxCopies] :
            A = u.made.alumni \union {a \in alumni : a.who \in u.todo}
    BY <1>3 DEF MadeType, TypeInv, RolloverTypeOK
  <2>5. PICK B \in Remembered : B = Remember(u.made.before, u.todo)
    <3>1. u.made.before \in Remembered
      BY <1>3 DEF MadeType, Remembered
    <3> QED BY <2>3, <3>1, RememberedAre DEF TypeInv
  <2>6. PICK made \in MadeType : made = [u.made EXCEPT !.alumni = A, !.before = B]
    <3>1. [u.made EXCEPT !.alumni = A, !.before = B] \in MadeType
      BY <1>3, MadeRemembers
    <3> QED BY <3>1
  <2>7. PICK x : x = [u EXCEPT !.pc = "graduate-mark", !.made = made]
    OBVIOUS
  <2>8. SlotOK(x)
    <3>1. PICK pc \in Claimed \ {"begin"} : pc = "graduate-mark"
      BY ClaimedAre
    <3>2. x = [u EXCEPT !.pc = pc, !.made = made] /\ pc \notin {"ppdb-read", "ppdb-mark"}
      BY <2>7, <3>1
    <3> QED BY <1>2, <2>3, <3>2, MadeSlot
  <2>9. x.pc = "graduate-mark" /\ x.todo = u.todo
    BY <1>3, <2>7 DEF SlotType
  <2>10. Becomes(w, x)
    <3>1. Becomes(w, [u EXCEPT !.pc = "graduate-mark", !.made.alumni = A, !.made.before = B])
      BY <1>1, <1>6, <2>4, <2>5 DEF GraduateRead
    <3>2. [u EXCEPT !.pc = "graduate-mark", !.made.alumni = A, !.made.before = B] =
              [u EXCEPT !.pc = "graduate-mark",
                        !.made = [u.made EXCEPT !.alumni = A, !.before = B]]
      BY <1>3 DEF SlotType
    <3> QED BY <2>6, <2>7, <3>1, <3>2
  <2>11. Moves(w, x)
    BY <1>4, <2>1, <2>8, <2>10, Working
  <2>12. Careful(w, x)
    BY <1>1, <2>1, <2>3, <2>9 DEF Careful, Graduating, Promoting, school
  <2> QED BY <2>2, <2>11, <2>12
<1>7. CASE GraduateMark(w)
  <2>1. UNCHANGED <<run, year, rows, classes, alumni, applied, desk, job, faults, mode,
                    placeable, undoing, regraded, overtaken>>
    BY <1>7 DEF GraduateMark, Goto, world, ghost
  <2>2. /\ pupil' \in [Students -> Pupils]
        /\ \A s \in Students : pupil'[s].status = IF s \in ex[w].todo THEN "GRADUATED"
                                                  ELSE pupil[s].status
    BY <1>7, MarkedAre DEF TypeInv, GraduateMark, Statuses, Actions
  <2>3. RolloverTypeOK'
    BY <2>1, <2>2 DEF TypeInv, RolloverTypeOK
  <2>4. PICK x : x = [u EXCEPT !.pc = "graduate-log"]
    OBVIOUS
  <2>5. SlotOK(x) /\ x.pc = "graduate-log"
    BY <1>2, <1>3, <2>4, ClaimedAre, SlotFields DEF SlotOK, SlotType, Marking
  <2>6. Becomes(w, x)
    BY <1>1, <1>7, <2>4 DEF GraduateMark, Goto
  <2>7. Moves(w, x)
    BY <1>4, <2>1, <2>5, <2>6, Working
  <2>8. Careful(w, x)
    BY <1>7, <2>2, <2>5 DEF Careful, Graduating, Promoting, GraduateMark
  <2> QED BY <2>3, <2>7, <2>8
<1> QED BY <1>5, <1>6, <1>7

\* Promotions: the rows, the note of what was made, the marks.
LEMMA PromoteSteps ==
    ASSUME TypeInv, NEW w \in Executors,
           PromoteCreate(w) \/ PromoteRead(w) \/ PromoteMark(w)
    PROVE  RolloverTypeOK' /\ \E x : Moves(w, x) /\ Careful(w, x)
<1>1. PICK u : u = ex[w]
  OBVIOUS
<1>2. SlotOK(u) /\ u.pc \in Claimed \ {"begin"}
  BY <1>1, ClaimedAre DEF TypeInv, PromoteCreate, PromoteRead, PromoteMark
<1>3. u \in SlotType /\ u.plan \in PlanType /\ u.made \in MadeType
  BY <1>2 DEF SlotOK
<1>4. ex[w].pc \in Claimed
  BY <1>1, <1>2
<1>5. CASE PromoteCreate(w)
  <2>1. UNCHANGED <<run, year, pupil, classes, alumni, applied, desk, job, faults, mode,
                    placeable, undoing, regraded, overtaken>>
    BY <1>5 DEF PromoteCreate, world, ghost
  <2>2. PICK todo \in SUBSET Students : /\ todo = Concerned(u)
                                        /\ todo = Planned(u.plan, {"PROMOTED", "REPEATED"})
    <3>1. u.pc = "promote"
      BY <1>1, <1>5 DEF PromoteCreate
    <3>2. Concerned(u) = Planned(u.plan, {"PROMOTED", "REPEATED"})
      BY <3>1 DEF Concerned
    <3> QED BY <1>3, <3>2, PlannedAre
  <2>3. rows' = rows \union {[who |-> s, class |-> ClassOf(u, s)] : s \in todo}
        /\ \A s \in todo : ClassOf(u, s) \in classes
    BY <1>1, <1>5, <2>2 DEF PromoteCreate, PromotionRows, HasClass
  <2>4. RolloverTypeOK'
    <3>1. \A s \in todo : [who |-> s, class |-> ClassOf(u, s)] \in RowType
      BY <2>3 DEF RowType, People, TypeInv, RolloverTypeOK
    <3> QED BY <2>1, <2>3, <3>1 DEF TypeInv, RolloverTypeOK
  <2>5. PICK x : x = [u EXCEPT !.pc = "promote-read", !.todo = todo]
    OBVIOUS
  <2>6. SlotOK(x)
    <3>1. PICK pc \in Claimed \ {"begin"} : pc = "promote-read"
      BY ClaimedAre
    <3>2. x = [u EXCEPT !.pc = pc, !.todo = todo] /\ pc \notin {"ppdb-read", "ppdb-mark"}
      BY <2>5, <3>1
    <3>3. todo \in SUBSET People
      BY DEF People
    <3> QED BY <1>2, <2>2, <3>2, <3>3, TodoSlot
  <2>7. x.pc = "promote-read" /\ x.todo = todo
    BY <1>3, <2>5 DEF SlotType
  <2>8. Becomes(w, x)
    BY <1>1, <1>5, <2>2, <2>5 DEF PromoteCreate
  <2>9. Moves(w, x)
    BY <1>4, <2>1, <2>6, <2>8, Working
  <2>10. Careful(w, x)
    <3>1. ASSUME NEW s \in todo PROVE \E r \in rows' : r.who = s
      <4>1. [who |-> s, class |-> ClassOf(u, s)] \in rows'
        BY <2>3
      <4> QED BY <4>1
    <3> QED BY <2>1, <2>7, <3>1 DEF Careful, Graduating, Promoting
  <2> QED BY <2>4, <2>9, <2>10
<1>6. CASE PromoteRead(w)
  <2>1. UNCHANGED <<run, school, desk, job, faults, mode, placeable, undoing, regraded, overtaken>>
    BY <1>6 DEF PromoteRead, world, ghost
  <2>2. RolloverTypeOK'
    BY <2>1 DEF TypeInv, RolloverTypeOK, school
  <2>3. u.pc = "promote-read" /\ u.todo \in SUBSET Students
    BY <1>1, <1>2, <1>6 DEF PromoteRead, SlotOK, Marking
  <2>4. PICK R \in SUBSET RowType :
            R = u.made.rows \union {r \in rows : r.who \in u.todo}
    BY <1>3 DEF MadeType, TypeInv, RolloverTypeOK
  <2>5. PICK B \in Remembered : B = Remember(u.made.before, u.todo)
    <3>1. u.made.before \in Remembered
      BY <1>3 DEF MadeType, Remembered
    <3> QED BY <2>3, <3>1, RememberedAre DEF TypeInv
  <2>6. PICK made \in MadeType : made = [u.made EXCEPT !.rows = R, !.before = B]
    <3>1. [u.made EXCEPT !.rows = R, !.before = B] \in MadeType
      BY <1>3, MadeRemembers
    <3> QED BY <3>1
  <2>7. PICK x : x = [u EXCEPT !.pc = "promote-mark", !.made = made]
    OBVIOUS
  <2>8. SlotOK(x)
    <3>1. PICK pc \in Claimed \ {"begin"} : pc = "promote-mark"
      BY ClaimedAre
    <3>2. x = [u EXCEPT !.pc = pc, !.made = made] /\ pc \notin {"ppdb-read", "ppdb-mark"}
      BY <2>7, <3>1
    <3> QED BY <1>2, <2>3, <3>2, MadeSlot
  <2>9. x.pc = "promote-mark" /\ x.todo = u.todo
    BY <1>3, <2>7 DEF SlotType
  <2>10. Becomes(w, x)
    <3>1. Becomes(w, [u EXCEPT !.pc = "promote-mark", !.made.rows = R, !.made.before = B])
      BY <1>1, <1>6, <2>4, <2>5 DEF PromoteRead
    <3>2. [u EXCEPT !.pc = "promote-mark", !.made.rows = R, !.made.before = B] =
              [u EXCEPT !.pc = "promote-mark",
                        !.made = [u.made EXCEPT !.rows = R, !.before = B]]
      BY <1>3 DEF SlotType
    <3> QED BY <2>6, <2>7, <3>1, <3>2
  <2>11. Moves(w, x)
    BY <1>4, <2>1, <2>8, <2>10, Working
  <2>12. Careful(w, x)
    BY <1>1, <2>1, <2>3, <2>9 DEF Careful, Graduating, Promoting, school
  <2> QED BY <2>2, <2>11, <2>12
<1>7. CASE PromoteMark(w)
  <2>1. UNCHANGED <<run, year, rows, classes, alumni, applied, desk, job, faults, mode,
                    placeable, undoing, regraded, overtaken>>
    BY <1>7 DEF PromoteMark, world, ghost
  <2>2. PICK action \in {"PROMOTED", "REPEATED"} : \E batch :
            /\ batch = {s \in ex[w].todo : ex[w].plan[s].action = action}
            /\ Mark(batch, action)
            /\ Becomes(w, [ex[w] EXCEPT !.todo = @ \ batch])
    BY Zenon, <1>7 DEF PromoteMark
  <2>3. PICK batch :
            /\ batch = {s \in ex[w].todo : ex[w].plan[s].action = action}
            /\ Mark(batch, action)
            /\ Becomes(w, [ex[w] EXCEPT !.todo = @ \ batch])
    BY <2>2
  <2>4. /\ pupil' \in [Students -> Pupils]
        /\ \A s \in Students : pupil'[s].status = IF s \in batch THEN action ELSE pupil[s].status
    BY <2>3, MarkedAre DEF TypeInv, Statuses, Actions
  <2>5. RolloverTypeOK'
    BY <2>1, <2>4 DEF TypeInv, RolloverTypeOK
  <2>6. u.pc = "promote-mark" /\ u.todo \subseteq Students
    BY <1>1, <1>2, <1>7 DEF PromoteMark, SlotOK, Marking
  <2>7. PICK todo \in SUBSET Students : todo = u.todo \ batch
    BY <2>6
  <2>8. PICK x : x = [u EXCEPT !.pc = "promote-mark", !.todo = todo]
    OBVIOUS
  <2>9. SlotOK(x)
    <3>1. PICK pc \in Claimed \ {"begin"} : pc = "promote-mark"
      BY ClaimedAre
    <3>2. x = [u EXCEPT !.pc = pc, !.todo = todo] /\ pc \notin {"ppdb-read", "ppdb-mark"}
      BY <2>8, <3>1
    <3>3. todo \in SUBSET People
      BY DEF People
    <3> QED BY <1>2, <3>2, <3>3, TodoSlot
  <2>10. x.pc = "promote-mark" /\ x.todo = todo
    BY <1>3, <2>8 DEF SlotType
  <2>11. Becomes(w, x)
    <3>1. x = [u EXCEPT !.todo = u.todo \ batch]
      BY <1>3, <2>6, <2>7, <2>8 DEF SlotType
    <3> QED BY <1>1, <2>3, <3>1
  <2>12. Moves(w, x)
    BY <1>4, <2>1, <2>9, <2>11, Working
  <2>13. Careful(w, x)
    BY <1>1, <2>3, <2>4, <2>6, <2>7, <2>10 DEF Careful, Graduating, Promoting
  <2> QED BY <2>5, <2>12, <2>13
<1> QED BY <1>5, <1>6, <1>7

\* Applicants become students.
LEMMA PpdbSteps ==
    ASSUME TypeInv, NEW w \in Executors, PpdbCreate(w) \/ PpdbRead(w) \/ PpdbMark(w)
    PROVE  RolloverTypeOK' /\ \E x : Moves(w, x) /\ x.pc \notin Marking
<1>1. PICK u : u = ex[w]
  OBVIOUS
<1>2. SlotOK(u) /\ u.pc \in Claimed \ {"begin"}
  BY <1>1, ClaimedAre DEF TypeInv, PpdbCreate, PpdbRead, PpdbMark
<1>3. u \in SlotType /\ u.plan \in PlanType /\ u.made \in MadeType
  BY <1>2 DEF SlotOK
<1>4. ex[w].pc \in Claimed
  BY <1>1, <1>2
<1>5. CASE PpdbCreate(w)
  <2>1. UNCHANGED <<run, year, pupil, classes, alumni, applied, desk, job, faults, mode,
                    placeable, undoing, regraded, overtaken>>
    BY <1>5 DEF PpdbCreate, world, ghost
  <2>2. PICK todo \in SUBSET Applicants : todo = Concerned(u)
    <3>1. u.pc = "ppdb-enroll"
      BY <1>1, <1>5 DEF PpdbCreate
    <3>2. Concerned(u) = {a \in placeable : applied[a] = "SELECTED"}
      BY <3>1 DEF Concerned
    <3> QED BY <3>2 DEF TypeInv, RolloverTypeOK
  <2>3. rows' = rows \union {[who |-> a, class |-> Intake] : a \in todo}
    BY <1>1, <1>5, <2>2 DEF PpdbCreate
  <2>4. RolloverTypeOK'
    <3>1. \A a \in todo : [who |-> a, class |-> Intake] \in RowType
      BY DEF RowType, People
    <3> QED BY <2>1, <2>3, <3>1 DEF TypeInv, RolloverTypeOK
  <2>5. PICK x : x = [u EXCEPT !.pc = "ppdb-read", !.todo = todo]
    OBVIOUS
  <2>6. SlotOK(x)
    <3>1. PICK pc \in Claimed \ {"begin"} : pc = "ppdb-read"
      BY ClaimedAre
    <3>2. x = [u EXCEPT !.pc = pc, !.todo = todo] /\ pc \notin Marking
      BY <2>5, <3>1 DEF Marking
    <3>3. todo \in SUBSET People
      BY DEF People
    <3> QED BY <1>2, <2>2, <3>2, <3>3, TodoSlot
  <2>7. x.pc = "ppdb-read"
    BY <1>3, <2>5 DEF SlotType
  <2>8. Becomes(w, x)
    BY <1>1, <1>5, <2>2, <2>5 DEF PpdbCreate
  <2>9. Moves(w, x)
    BY <1>4, <2>1, <2>6, <2>8, Working
  <2> QED BY <2>4, <2>7, <2>9 DEF Marking
<1>6. CASE PpdbRead(w)
  <2>1. UNCHANGED <<run, school, desk, job, faults, mode, placeable, undoing, regraded, overtaken>>
    BY <1>6 DEF PpdbRead, world, ghost
  <2>2. RolloverTypeOK'
    BY <2>1 DEF TypeInv, RolloverTypeOK, school
  <2>3. u.pc = "ppdb-read" /\ u.todo \in SUBSET Applicants
    BY <1>1, <1>2, <1>6 DEF PpdbRead, SlotOK
  <2>4. PICK R \in SUBSET RowType :
            R = u.made.rows \union {r \in rows : r.who \in u.todo}
    BY <1>3 DEF MadeType, TypeInv, RolloverTypeOK
  <2>5. PICK made \in MadeType : made = [u.made EXCEPT !.rows = R]
    BY <1>3, MadeFields
  <2>6. PICK x : x = [u EXCEPT !.pc = "ppdb-mark", !.made = made]
    OBVIOUS
  <2>7. SlotOK(x)
    <3>1. PICK pc \in Claimed \ {"begin"} : pc = "ppdb-mark"
      BY ClaimedAre
    <3>2. x = [u EXCEPT !.pc = pc, !.made = made] /\ pc \notin Marking
      BY <2>6, <3>1 DEF Marking
    <3> QED BY <1>2, <2>3, <3>2, MadeSlot
  <2>8. x.pc = "ppdb-mark"
    BY <1>3, <2>6 DEF SlotType
  <2>9. Becomes(w, x)
    <3>1. Becomes(w, [u EXCEPT !.pc = "ppdb-mark", !.made.rows = R])
      BY <1>1, <1>6, <2>4 DEF PpdbRead
    <3>2. [u EXCEPT !.pc = "ppdb-mark", !.made.rows = R] =
              [u EXCEPT !.pc = "ppdb-mark", !.made = [u.made EXCEPT !.rows = R]]
      BY <1>3 DEF SlotType
    <3> QED BY <2>5, <2>6, <3>1, <3>2
  <2>10. Moves(w, x)
    BY <1>4, <2>1, <2>7, <2>9, Working
  <2> QED BY <2>2, <2>8, <2>10 DEF Marking
<1>7. CASE PpdbMark(w)
  <2>1. UNCHANGED <<run, year, pupil, rows, classes, alumni, desk, job, faults, mode, placeable,
                    undoing, regraded, overtaken>>
    BY <1>7 DEF PpdbMark, world, ghost
  <2>2. applied' \in [Applicants -> {"SELECTED", "ENROLLED"}]
    BY <1>7 DEF PpdbMark, TypeInv, RolloverTypeOK
  <2>3. RolloverTypeOK'
    BY <2>1, <2>2 DEF TypeInv, RolloverTypeOK
  <2>4. PICK step \in Steps : step = "ppdb-enroll"
    BY StepsAre
  <2>5. PICK x : x = [u EXCEPT !.pc = "persist", !.done = @ \union {step}, !.todo = {}]
    OBVIOUS
  <2>6. SlotOK(x) /\ x.pc = "persist"
    BY <1>2, <2>5, DoneSlot
  <2>7. Becomes(w, x)
    BY <1>1, <1>7, <2>4, <2>5 DEF PpdbMark, StepDone
  <2>8. Moves(w, x)
    BY <1>4, <2>1, <2>6, <2>7, Working
  <2> QED BY <2>3, <2>6, <2>8 DEF Marking
<1> QED BY <1>5, <1>6, <1>7

\* Saving, and the end of an execution.
LEMMA SavingSteps ==
    ASSUME TypeInv, NEW w \in Executors, Persist(w) \/ Finish(w)
    PROVE  RolloverTypeOK' /\ \E x : Moves(w, x) /\ x.pc \notin Marking
<1>1. ex[w] \in SlotType /\ SlotOK(ex[w]) /\ job \in JobType /\ run \in RunType
  BY DEF TypeInv, RolloverTypeOK
<1>2. UNCHANGED <<school, desk, faults, mode, placeable, undoing, regraded, overtaken>>
  BY DEF Persist, Finish, world, ghost
<1>3. job' \in JobType /\ run' \in RunType => RolloverTypeOK'
  BY <1>2 DEF TypeInv, RolloverTypeOK, school
<1>4. ex[w].pc \in Claimed \ {"begin"}
  BY ClaimedAre DEF Persist, Finish
<1>5. CASE Persist(w)
  <2>1. PICK pc \in Steps \union {"finish"} : pc = NextStep(ex[w].done)
    BY NextStepIs
  <2>2. PICK status \in {"DRAFT", "PREVIEW", "RUNNING", "FAILED", "DONE", "ROLLED_BACK"} :
            status = run.status
    BY <1>1 DEF RunType
  <2>3. run' = Stored(status, ex[w])
    BY <1>5, <2>2 DEF Persist
  <2>4. run' \in RunType /\ run'.status = run.status /\ run'.stale = FALSE
    BY <1>1, <2>2, <2>3, StoredFields
  <2>5. PICK x : x = [ex[w] EXCEPT !.pc = pc]
    OBVIOUS
  <2>6. SlotOK(x) /\ x.pc = pc
    <3>1. pc \in Waiting \union Claimed
      BY ClaimedAre, StepsAre
    <3>2. x = [pc |-> pc, via |-> ex[w].via, seen |-> ex[w].seen, src |-> ex[w].src,
               plan |-> ex[w].plan, done |-> ex[w].done, made |-> ex[w].made,
               todo |-> ex[w].todo]
      BY <1>1, <2>5 DEF SlotType
    <3> QED BY <1>1, <1>4, <3>1, <3>2, ClaimedAre, StepsAre DEF SlotOK, SlotType, Marking
  <2>7. Becomes(w, x) /\ job' = job
    BY <1>5, <2>1, <2>5 DEF Persist, Goto
  <2>8. RunPart(w, x)
    BY <1>4, <2>4 DEF RunPart
  <2>9. Moves(w, x)
    BY <1>2, <2>6, <2>7, <2>8 DEF Moves
  <2> QED BY <1>1, <1>3, <2>4, <2>6, <2>7, <2>9, StepsAre DEF Marking
<1>6. CASE Finish(w)
  <2>1. run' = [run EXCEPT !.status = "DONE", !.stale = FALSE] /\ Leave(w, Completed(job))
    BY <1>6 DEF Finish
  <2>2. run' \in RunType
    BY <1>1, <2>1, RunFields
  <2>3. Completed(job) \in JobType /\ RunPart(w, IdleSlot)
    BY <1>1, <1>4, JobsStayJobs, FreshSlots DEF RunPart
  <2> QED BY <1>2, <1>3, <2>1, <2>2, <2>3, LeaveMoves
<1> QED BY <1>5, <1>6

\* What ends an execution before its time.
LEMMA BrokenSteps ==
    ASSUME TypeInv, NEW w \in Executors, Fail(w) \/ PromoteThrows(w) \/ Crash(w)
    PROVE  RolloverTypeOK' /\ \E x : Moves(w, x) /\ x.pc \notin Marking
<1>1. ex[w] \in SlotType /\ job \in JobType /\ run \in RunType
  BY DEF TypeInv, RolloverTypeOK
<1>2. UNCHANGED <<school, desk, mode, placeable, undoing, regraded, overtaken>> /\ faults' \in Nat
  BY DEF Fail, PromoteThrows, Crash, Fault, world, ghost, TypeInv, RolloverTypeOK
<1>3. job' \in JobType /\ run' \in RunType => RolloverTypeOK'
  BY <1>2 DEF TypeInv, RolloverTypeOK, school
<1>4. run' = run \/ (ex[w].pc \in Claimed /\ run' = Stored("FAILED", ex[w]))
  BY ClaimedAre DEF Fail, Guarded, PromoteThrows, Crash
<1>5. run' \in RunType
  BY <1>1, <1>4, StoredFields
<1>6. RunPart(w, IdleSlot)
  BY <1>4, FreshSlots, ClaimedAre DEF RunPart
<1>7. CASE Leave(w, Thrown(job))
  <2>1. Thrown(job) \in JobType
    BY <1>1, JobsStayJobs
  <2> QED BY <1>2, <1>3, <1>5, <1>6, <1>7, <2>1, LeaveMoves
<1>8. CASE Crash(w)
  <2>1. Becomes(w, IdleSlot) /\ job' = job
    BY <1>8 DEF Crash
  <2>2. SlotOK(IdleSlot) /\ IdleSlot.pc = "idle"
    BY FreshSlots
  <2>3. Moves(w, IdleSlot)
    BY <1>2, <1>6, <2>1, <2>2 DEF Moves
  <2> QED BY <1>1, <1>3, <1>5, <2>1, <2>2, <2>3 DEF Marking
<1> QED BY <1>7, <1>8 DEF Fail, PromoteThrows

\* A job whose lock ran out under a live worker.
LEMMA LostLockSteps ==
    ASSUME TypeInv, NEW w \in Executors, LockLost(w)
    PROVE  RolloverTypeOK' /\ \E x : Moves(w, x) /\ Careful(w, x)
<1>1. ex[w] \in SlotType /\ SlotOK(ex[w]) /\ job \in JobType /\ run \in RunType
  BY DEF TypeInv, RolloverTypeOK
<1>2. UNCHANGED <<run, school, desk, mode, placeable, undoing, regraded,
                  overtaken>> /\ faults' \in Nat
  BY DEF LockLost, Fault, world, ghost, TypeInv, RolloverTypeOK
<1>3. job' \in JobType
  BY <1>1, JobsStayJobs DEF LockLost
<1>4. RolloverTypeOK'
  BY <1>2, <1>3 DEF TypeInv, RolloverTypeOK, school
<1>5. PICK x : x = [ex[w] EXCEPT !.via = None]
  OBVIOUS
<1>6. x = [pc |-> ex[w].pc, via |-> None, seen |-> ex[w].seen, src |-> ex[w].src,
           plan |-> ex[w].plan, done |-> ex[w].done, made |-> ex[w].made, todo |-> ex[w].todo]
  BY <1>1, <1>5 DEF SlotType
<1>7. SlotOK(x)
  BY <1>1, <1>6 DEF SlotOK, SlotType
<1>8. Becomes(w, x)
  BY <1>5 DEF LockLost
<1>9. Moves(w, x)
  BY <1>2, <1>6, <1>7, <1>8 DEF Moves, RunPart
<1>10. Careful(w, x)
  BY <1>2, <1>6 DEF Careful, school
<1> QED BY <1>4, <1>9, <1>10

\* The request that queues an execution, or starts it at once.
LEMMA RequestSteps ==
    ASSUME TypeInv, ExecuteRequest
    PROVE  /\ RolloverTypeOK'
           /\ UNCHANGED <<run, school, desk, mode, placeable, undoing, regraded, overtaken>>
           /\ \/ UNCHANGED ex
              \/ \E w \in Executors : \E x : Moves(w, x) /\ x.pc \notin Marking
<1>1. job \in JobType
  BY DEF TypeInv, RolloverTypeOK
<1>2. UNCHANGED <<run, school, desk, mode, placeable, undoing, regraded, overtaken>>
  BY DEF ExecuteRequest, world, ghost
<1>3. faults' \in Nat
  BY DEF ExecuteRequest, SlotMayStart, Fault, TypeInv, RolloverTypeOK
<1>4. job' \in JobType
  BY <1>1, JobsStayJobs DEF ExecuteRequest
<1>5. RolloverTypeOK'
  BY <1>2, <1>3, <1>4 DEF TypeInv, RolloverTypeOK, school
<1>6. CASE UNCHANGED ex
  BY <1>2, <1>5, <1>6
<1>7. CASE \E w \in Executors : Becomes(w, [IdleSlot EXCEPT !.pc = "picked"])
  <2>1. PICK w \in Executors : Becomes(w, [IdleSlot EXCEPT !.pc = "picked"])
    BY <1>7
  <2>2. PICK x : x = [IdleSlot EXCEPT !.pc = "picked"] /\ SlotOK(x) /\ x.pc = "picked"
    BY FreshSlots
  <2>3. Becomes(w, x)
    BY <2>1, <2>2
  <2>4. RunPart(w, x)
    BY <1>2, <2>2, ClaimedAre DEF RunPart
  <2>5. Moves(w, x) /\ x.pc \notin Marking
    BY <1>2, <2>2, <2>3, <2>4 DEF Moves, Marking
  <2> QED BY <1>2, <1>5, <2>5
<1> QED BY <1>6, <1>7 DEF ExecuteRequest

-----------------------------------------------------------------------------
(* The operator's requests.                                                *)

LEMMA DeskFields ==
    ASSUME NEW d \in DeskType
    PROVE  /\ \A pc \in {"idle", "precheck", "dryrun"} \union Undoing :
                 [d EXCEPT !.pc = pc] = [pc |-> pc, seen |-> d.seen, plan |-> d.plan,
                                         left |-> d.left]
           /\ \A left \in SUBSET Students :
                 [d EXCEPT !.left = left] = [pc |-> d.pc, seen |-> d.seen, plan |-> d.plan,
                                             left |-> left]
BY DEF DeskType

\* The preview.
LEMMA PreviewSteps ==
    ASSUME TypeInv, PrecheckRead \/ PrecheckCommit \/ DryRunRead \/ DryRunCommit \/ DeskFails
    PROVE  /\ RolloverTypeOK' /\ DeskOK' /\ UNCHANGED <<school, ex, job, mode, undoing>>
           /\ desk'.pc \notin Undoing
           /\ RunKept
<1>1. run \in RunType /\ desk \in DeskType
  BY DEF TypeInv, RolloverTypeOK, DeskOK
<1>2. UNCHANGED <<school, ex, job, mode, placeable, undoing, regraded>> /\ faults' \in Nat
  <2>1. DeskMayStart => faults' \in Nat
    BY DEF DeskMayStart, Fault, TypeInv, RolloverTypeOK
  <2> QED BY <2>1 DEF PrecheckRead, PrecheckCommit, DryRunRead, DryRunCommit, DeskFails,
       Fault, world,
                      ghost, TypeInv, RolloverTypeOK
<1>3. run' \in RunType
  <2>1. CASE UNCHANGED run
    BY <1>1, <2>1
  <2>2. CASE PrecheckCommit
    BY <1>1, <2>2, RunFields DEF PrecheckCommit
  <2>3. CASE DryRunCommit
    <3>1. desk.seen \in RunType /\ desk.plan \in PlanType
      BY <2>3 DEF DryRunCommit, TypeInv, DeskOK
    <3>2. run' = [run EXCEPT !.stale = FALSE, !.plan = desk.plan, !.done = desk.seen.done,
                             !.made = desk.seen.made]
      BY <2>3 DEF DryRunCommit
    <3>3. [run EXCEPT !.stale = FALSE] = [status |-> run.status, stale |-> FALSE,
              plan |-> run.plan, done |-> run.done, made |-> run.made]
      <4>1. \A no \in BOOLEAN : [run EXCEPT !.stale = no] = [status |-> run.status,
                stale |-> no, plan |-> run.plan, done |-> run.done, made |-> run.made]
        BY <1>1 DEF RunType
      <4> QED BY Zenon, <4>1
    <3>4. run' = [[status |-> run.status, stale |-> FALSE,
                   plan |-> run.plan, done |-> run.done, made |-> run.made]
                     EXCEPT !.plan = desk.plan, !.done = desk.seen.done,
                            !.made = desk.seen.made]
      BY <3>2, <3>3
    <3>5. run' = [status |-> run.status, stale |-> FALSE, plan |-> desk.plan,
                  done |-> desk.seen.done, made |-> desk.seen.made]
      BY <3>4
    <3> QED BY <1>1, <3>1, <3>5 DEF RunType
  <2> QED BY <2>1, <2>2, <2>3 DEF PrecheckRead, DryRunRead, DeskFails
<1>4. RolloverTypeOK'
  BY <1>2, <1>3 DEF TypeInv, RolloverTypeOK, school
<1>5. IdleDesk \in DeskType /\ IdleDesk.pc = "idle" /\ "idle" \notin Undoing
  BY DEF IdleDesk, DeskType, Undoing
<1>6. DeskOK' /\ desk'.pc \notin Undoing
  <2>1. CASE desk' = IdleDesk
    BY <1>5, <2>1 DEF DeskOK, Undoing, DeskType, RunType, PlanType, MadeType
  <2>2. CASE PrecheckRead
    <3>1. desk' = [pc |-> "precheck", seen |-> None, plan |-> None, left |-> {}]
      BY <2>2 DEF PrecheckRead, IdleDesk
    <3> QED BY <3>1 DEF DeskOK, DeskType, Undoing
  <2>3. CASE DryRunRead
    <3>1. CurrentPlan \in PlanType
      BY PlanOfNow DEF TypeInv
    <3>2. PICK plan \in PlanType : plan = CurrentPlan
      BY <3>1
    <3>3. desk' = [IdleDesk EXCEPT !.pc = "dryrun", !.seen = run, !.plan = plan]
      BY <2>3, <3>2 DEF DryRunRead
    <3>4. desk' = [[pc |-> "idle", seen |-> None, plan |-> None, left |-> {}]
                      EXCEPT !.pc = "dryrun", !.seen = run, !.plan = plan]
      BY <3>3 DEF IdleDesk
    <3>5. desk' = [pc |-> "dryrun", seen |-> run, plan |-> plan, left |-> {}]
      BY <3>4
    <3> QED BY <1>1, <3>5 DEF DeskOK, DeskType, Undoing
  <2> QED BY <2>1, <2>2, <2>3 DEF PrecheckCommit, DryRunCommit, DeskFails, StopDesk
<1>7. RunKept
  <2>1. CASE PrecheckCommit
    BY <2>1 DEF PrecheckCommit, RunKept
  <2>2. CASE DryRunCommit
    <3>1. overtaken' = overtaken /\ run' = [run EXCEPT !.stale = FALSE, !.plan = desk.plan,
                                    !.done = desk.seen.done, !.made = desk.seen.made]
      BY <2>2 DEF DryRunCommit
    <3>2. run'.status = run.status /\ run'.stale = FALSE
      BY <1>1, <3>1 DEF RunType
    <3> QED BY <3>1, <3>2 DEF RunKept
  <2>3. CASE PrecheckRead \/ DryRunRead \/ DeskFails
    BY <2>3 DEF PrecheckRead, DryRunRead, DeskFails, ghost, RunKept
  <2> QED BY <2>1, <2>2, <2>3
<1> QED BY <1>2, <1>4, <1>6, <1>7

\* What a rollback deletes is of the right type, also when the record is lost.
LEMMA UndoneAre ==
    ASSUME RolloverTypeOK
    PROVE  Undone(run) \in MadeType
<1>1. CASE run.made = None
  <2>1. year.cur \in {"src", "tgt"} /\ "CLOSING" \in YearStatuses
    BY DEF RolloverTypeOK, YearStatuses
  <2>2. [s \in {} |-> None] \in Remembered
    <3>1. [s \in {} |-> None] \in [{} -> Statuses]
      OBVIOUS
    <3> QED BY <3>1 DEF Remembered
  <2>3. NothingMade("CLOSING") \in MadeType
    BY <2>1, <2>2 DEF NothingMade, MadeType, Remembered
  <2>4. \A m \in MadeType : [m EXCEPT !.cur = None] \in MadeType
    BY DEF MadeType
  <2> QED BY <1>1, <2>3, <2>4 DEF Undone
<1>2. CASE run.made # None
  BY <1>2 DEF Undone, RolloverTypeOK, RunType
<1> QED BY <1>1, <1>2

\* The rollback begins: what the run says it made is kept by the request.
LEMMA UndoBegins ==
    ASSUME TypeInv, RollbackRead
    PROVE  /\ RolloverTypeOK' /\ DeskOK' /\ UNCHANGED <<run, school, ex, job, mode, placeable,
                                                        undoing, regraded, overtaken>>
           /\ desk'.pc = "undo-rows"
<1>1. run \in RunType
  BY DEF TypeInv, RolloverTypeOK
<1>2. UNCHANGED <<run, school, ex, job, mode, placeable, undoing, regraded,
                  overtaken>> /\ faults' \in Nat
  BY DEF RollbackRead, DeskMayStart, Fault, world, ghost, TypeInv, RolloverTypeOK
<1>3. RolloverTypeOK'
  BY <1>2 DEF TypeInv, RolloverTypeOK, school
<1>4. PICK made \in MadeType : made = Undone(run)
  BY UndoneAre DEF TypeInv
<1>5. PICK S \in SUBSET Students : made.before \in [S -> Statuses]
  BY DEF MadeType
<1>6. PICK r : r = [run EXCEPT !.made = made] /\ r \in RunType /\ r.made = made
  <2>1. [run EXCEPT !.made = made] \in RunType /\ [run EXCEPT !.made = made].made = made
    BY <1>1 DEF RunType
  <2> QED BY <2>1
<1>7. desk' = [IdleDesk EXCEPT !.pc = "undo-rows", !.seen = r, !.left = DOMAIN made.before]
  BY <1>4, <1>6 DEF RollbackRead
<1>8. desk' = [[pc |-> "idle", seen |-> None, plan |-> None, left |-> {}]
                  EXCEPT !.pc = "undo-rows", !.seen = r, !.left = DOMAIN made.before]
  BY <1>7 DEF IdleDesk
<1>9. desk' = [pc |-> "undo-rows", seen |-> r, plan |-> None, left |-> DOMAIN made.before]
  BY <1>8
<1>10. DeskOK'
  BY <1>5, <1>6, <1>9 DEF DeskOK, DeskType, Undoing
<1> QED BY <1>2, <1>3, <1>9, <1>10

\* From one deletion of the rollback to the next.
LEMMA UndoMoves ==
    ASSUME DeskOK, desk.pc \in Undoing, NEW to \in Undoing, desk' = [desk EXCEPT !.pc = to]
    PROVE  DeskOK' /\ desk'.pc = to
<1>1. desk' = [pc |-> to, seen |-> desk.seen, plan |-> desk.plan, left |-> desk.left]
  BY DeskFields DEF DeskOK
<1> QED BY <1>1 DEF DeskOK, DeskType, Undoing

LEMMA UndoSteps ==
    ASSUME TypeInv,
           \/ UndoRows \/ UndoClasses \/ UndoAlumni
           \/ \E s \in Students : UndoStatus(s)
           \/ UndoYears \/ UndoFinish
    PROVE  /\ RolloverTypeOK' /\ DeskOK' /\ UNCHANGED <<ex, job, mode, placeable, regraded>>
           /\ desk.pc \in Undoing /\ RunKept
           /\ undoing' = TRUE \/ (undoing' = undoing /\ desk.pc # "undo-rows")
<1>1. DeskOK /\ desk \in DeskType /\ RolloverTypeOK
  BY DEF TypeInv, DeskOK
<1>2. desk.pc \in Undoing
  BY DEF UndoRows, UndoClasses, UndoAlumni, UndoStatus, UndoYears, UndoFinish, Step, Undoing
<1>3. PICK made \in MadeType : made = desk.seen.made
  BY <1>1, <1>2 DEF DeskOK
<1>4. PICK S \in SUBSET Students : made.before \in [S -> Statuses]
  BY DEF MadeType
<1>5. CASE UndoRows
  <2>1. DeskOK'
    BY <1>1, <1>2, <1>5, UndoMoves DEF UndoRows, Step, Undoing
  <2>2. RolloverTypeOK'
    BY <1>1, <1>5 DEF UndoRows, RolloverTypeOK, world
  <2> QED BY <1>2, <1>5, <2>1, <2>2 DEF UndoRows, RunKept, world
<1>6. CASE UndoClasses
  <2>1. DeskOK'
    BY <1>1, <1>2, <1>6, UndoMoves DEF UndoClasses, Step, Undoing
  <2>2. RolloverTypeOK'
    BY <1>1, <1>6 DEF UndoClasses, RolloverTypeOK, world, ghost
  <2> QED BY <1>2, <1>6, <2>1, <2>2 DEF UndoClasses, Step, RunKept, world, ghost
<1>7. CASE UndoAlumni
  <2>1. DeskOK'
    BY <1>1, <1>2, <1>7, UndoMoves DEF UndoAlumni, Step, Undoing
  <2>2. RolloverTypeOK'
    BY <1>1, <1>7 DEF UndoAlumni, RolloverTypeOK, world, ghost
  <2> QED BY <1>2, <1>7, <2>1, <2>2 DEF UndoAlumni, Step, RunKept, world, ghost
<1>8. CASE \E s \in Students : UndoStatus(s)
  <2>1. PICK s \in Students : UndoStatus(s)
    BY <1>8
  <2>2. s \in S
    BY <1>1, <1>2, <1>3, <1>4, <2>1 DEF UndoStatus, DeskOK
  <2>3. PICK status \in Statuses : status = made.before[s]
    BY <1>4, <2>2
  <2>4. Mark({s}, status)
    BY <1>3, <2>1, <2>3 DEF UndoStatus
  <2>5. pupil' \in [Students -> Pupils]
    BY <1>1, <2>4, MarkedAre
  <2>6. UNCHANGED <<run, year, rows, classes, alumni, applied, ex, job, faults, mode, placeable,
                    undoing, regraded, overtaken>>
    BY <2>1 DEF UndoStatus, world, ghost
  <2>7. RolloverTypeOK'
    BY <1>1, <2>5, <2>6 DEF RolloverTypeOK
  <2>8. PICK left \in SUBSET Students : left = desk.left \ {s}
    BY <1>1 DEF DeskType
  <2>9. desk' = [desk EXCEPT !.left = left]
    BY <2>1, <2>8 DEF UndoStatus
  <2>10. desk' = [pc |-> desk.pc, seen |-> desk.seen, plan |-> desk.plan, left |-> left]
    BY <1>1, <2>9, DeskFields
  <2>11. DeskOK'
    BY <1>1, <1>2, <2>8, <2>10 DEF DeskOK, DeskType, Undoing
  <2> QED BY <1>2, <2>1, <2>6, <2>7, <2>11 DEF UndoStatus, RunKept
<1>9. CASE UndoYears
  <2>1. DeskOK'
    BY <1>1, <1>2, <1>9, UndoMoves DEF UndoYears, Step, Undoing
  <2>2. made.src \in YearStatuses /\ made.cur \in {"src", "tgt"} \union {None}
    BY DEF MadeType
  <2>3. year \in [src : YearStatuses, tgt : YearStatuses, cur : {"src", "tgt"}]
    BY <1>1 DEF RolloverTypeOK
  <2>4. year' \in [src : YearStatuses, tgt : YearStatuses, cur : {"src", "tgt"}]
    <3>1. CASE year' = [year EXCEPT !.src = desk.seen.made.src]
      BY <1>3, <2>2, <2>3, <3>1
    <3>2. CASE year' = [year EXCEPT !.tgt = "DRAFT"]
      BY <2>3, <3>2 DEF YearStatuses
    <3>3. CASE year' = [year EXCEPT !.cur = IF desk.seen.made.cur = None THEN @
                                           ELSE desk.seen.made.cur]
      <4>1. PICK cur \in {"src", "tgt"} :
                cur = IF desk.seen.made.cur = None THEN year.cur ELSE desk.seen.made.cur
        BY <1>3, <2>2, <2>3
      <4> QED BY <2>3, <3>3, <4>1
    <3> QED BY <1>9, <3>1, <3>2, <3>3 DEF UndoYears
  <2>5. UNCHANGED <<run, pupil, rows, classes, alumni, applied, ex, job, faults, mode,
                    placeable, undoing, regraded, overtaken>>
    BY <1>9 DEF UndoYears, world, ghost
  <2>6. RolloverTypeOK'
    BY <1>1, <2>4, <2>5 DEF RolloverTypeOK
  <2> QED BY <1>2, <1>9, <2>1, <2>5, <2>6 DEF UndoYears, Step, RunKept
<1>10. CASE UndoFinish
  <2>1. desk' = IdleDesk
    BY <1>10 DEF UndoFinish, StopDesk
  <2>2. DeskOK'
    BY <2>1 DEF IdleDesk, DeskOK, DeskType, Undoing
  <2>3. run' \in RunType
    BY <1>1, <1>10, RunFields DEF UndoFinish, RolloverTypeOK
  <2>4. /\ UNCHANGED <<school, ex, job, faults, mode, placeable, undoing, regraded>>
        /\ desk.pc = "undo-finish" /\ RunKept
    BY <1>10 DEF UndoFinish, RunKept, world
  <2>5. RolloverTypeOK'
    BY <1>1, <2>3, <2>4 DEF RolloverTypeOK, school
  <2> QED BY <1>2, <2>2, <2>4, <2>5
<1> QED BY <1>5, <1>6, <1>7, <1>8, <1>9, <1>10

-----------------------------------------------------------------------------
(* The rest of the school and the queue.                                   *)

LEMMA WorldSteps ==
    ASSUME TypeInv,
           \/ Redeliver \/ Age \/ EvictJob \/ DeleteInvoice
           \/ \E s \in Students : Regrade(s)
           \/ \E n \in Newcomers, c \in classes : StaffEnrolls(n, c)
    PROVE  /\ RolloverTypeOK' /\ UNCHANGED <<ex, desk, mode, undoing>>
           /\ Growing /\ StatusesKept /\ RunKept
<1>1. RolloverTypeOK
  BY DEF TypeInv
<1>2. CASE Redeliver \/ EvictJob \/ DeleteInvoice
  <2>1. UNCHANGED <<run, school, ex, desk, faults, mode, placeable, undoing, regraded, overtaken>>
    BY <1>2 DEF Redeliver, EvictJob, DeleteInvoice, world, ghost
  <2>2. job' \in JobType
    BY <1>1, <1>2, JobsStayJobs, NoJobType DEF Redeliver, EvictJob, DeleteInvoice, RolloverTypeOK
  <2>3. RolloverTypeOK'
    BY <1>1, <2>1, <2>2 DEF RolloverTypeOK, school
  <2> QED BY <2>1, <2>3 DEF Growing, StatusesKept, RunKept, school
<1>3. CASE Age
  <2>1. /\ UNCHANGED <<school, ex, desk, job, mode, placeable, undoing, regraded>>
        /\ faults' \in Nat
    BY <1>1, <1>3 DEF Age, Fault, world, RolloverTypeOK
  <2>2. run' \in RunType
    BY <1>1, <1>3, RunFields DEF Age, RolloverTypeOK
  <2>3. RolloverTypeOK'
    BY <1>1, <2>1, <2>2 DEF RolloverTypeOK, school
  <2>4. RunKept
    BY <1>3 DEF Age, RunKept
  <2> QED BY <2>1, <2>3, <2>4 DEF Growing, StatusesKept, school
<1>4. CASE \E s \in Students : Regrade(s)
  <2>1. PICK s \in Students : Regrade(s)
    BY <1>4
  <2>2. /\ UNCHANGED <<run, year, rows, classes, alumni, applied, ex, desk, job, mode, placeable,
                        undoing, overtaken>>
        /\ regraded' \subseteq Students /\ faults' \in Nat
    BY <1>1, <2>1 DEF Regrade, Fault, world, RolloverTypeOK
  <2>3. PICK passes \in BOOLEAN : passes = ~pupil[s].passes
    OBVIOUS
  <2>4. pupil' = [pupil EXCEPT ![s] = [pupil[s] EXCEPT !.passes = passes]]
    BY Zenon, <2>1, <2>3 DEF Regrade
  <2>5. PICK p : p = [pupil[s] EXCEPT !.passes = passes]
    OBVIOUS
  <2>6. pupil[s] \in Pupils
    BY <1>1 DEF RolloverTypeOK
  <2>7. p \in Pupils /\ p.status = pupil[s].status
    BY <2>3, <2>5, <2>6 DEF Pupils
  <2>8. pupil' = [pupil EXCEPT ![s] = p]
    BY <2>4, <2>5
  <2>9. pupil' \in [Students -> Pupils] /\ StatusesKept
    BY <1>1, <2>7, <2>8 DEF StatusesKept, RolloverTypeOK
  <2>10. RolloverTypeOK'
    BY <1>1, <2>2, <2>9 DEF RolloverTypeOK
  <2> QED BY <2>2, <2>9, <2>10 DEF Growing, RunKept
<1>5. CASE \E n \in Newcomers, c \in classes : StaffEnrolls(n, c)
  <2>1. PICK n \in Newcomers, c \in classes : StaffEnrolls(n, c)
    BY <1>5
  <2>2. UNCHANGED <<run, year, pupil, classes, alumni, applied, ex, desk, job, faults, mode,
                    placeable, undoing, regraded, overtaken>>
    BY <2>1 DEF StaffEnrolls, world, ghost
  <2>3. rows' = rows \union {[who |-> n, class |-> c]} /\ [who |-> n, class |-> c] \in RowType
    BY <1>1, <2>1 DEF StaffEnrolls, RowType, People, RolloverTypeOK
  <2>4. RolloverTypeOK'
    BY <1>1, <2>2, <2>3 DEF RolloverTypeOK
  <2> QED BY <2>2, <2>3, <2>4 DEF Growing, StatusesKept, RunKept
<1> QED BY <1>2, <1>3, <1>4, <1>5

-----------------------------------------------------------------------------
(* The kinds of step, told by what they may change.                        *)

Executes == \E w \in Executors : \E x : Moves(w, x) /\ Careful(w, x) /\ Growing

Previews == /\ DeskOK' /\ UNCHANGED <<school, ex, mode, undoing>>
            /\ desk'.pc \notin Undoing /\ RunKept

BeginsUndo == DeskOK' /\ UNCHANGED <<run, school, ex, mode, undoing, overtaken>>
              /\ desk'.pc = "undo-rows"

Undoes == /\ DeskOK' /\ UNCHANGED <<ex, mode>> /\ desk.pc \in Undoing /\ RunKept
          /\ undoing' = TRUE \/ (undoing' = undoing /\ desk.pc # "undo-rows")

Elsewhere == UNCHANGED <<ex, desk, mode, undoing>> /\ Growing /\ StatusesKept /\ RunKept

\* Whatever does not mark students is careful.
LEMMA IdleIsCareful ==
    ASSUME NEW w \in Executors, NEW x, x.pc \notin Marking, StatusesKept
    PROVE  Careful(w, x)
BY DEF Careful, StatusesKept, Marking, Graduating, Promoting

LEMMA ExecutorSteps ==
    ASSUME TypeInv, NEW w \in Executors,
           ExecutorStep(w) \/ ExecuteInline(w) \/ TakeJob(w) \/ Fail(w) \/ Crash(w) \/ LockLost(w)
    PROVE  RolloverTypeOK' /\ Executes
<1>1. ASSUME NEW x, Moves(w, x), x.pc \notin Marking, StatusesKept, Growing
      PROVE  Executes
  BY <1>1, IdleIsCareful DEF Executes
<1>2. CASE ExecuteInline(w) \/ TakeJob(w)
  <2>1. PICK x : Moves(w, x) /\ x.pc \notin Marking
    BY <1>2, StartSteps
  <2>2. StatusesKept /\ Growing
    BY <1>2 DEF ExecuteInline, TakeJob, StatusesKept, Growing, school
  <2> QED BY <1>1, <1>2, <2>1, <2>2, StartSteps
<1>3. CASE Picked(w) \/ ExecuteStart(w) \/ ExecuteRefused(w) \/ Reclaim(w) \/ Claim(w)
           \/ Begin(w)
  <2>1. RolloverTypeOK' /\ \E x : Moves(w, x) /\ x.pc \notin Marking
    BY <1>3, StartSteps, ClaimSteps
  <2>2. PICK x : Moves(w, x) /\ x.pc \notin Marking
    BY <2>1
  <2>3. StatusesKept /\ Growing
    BY <1>3 DEF Picked, ExecuteStart, ExecuteRefused, Reclaim, Claim, Begin, StatusesKept,
                Growing, school
  <2> QED BY <1>1, <2>1, <2>2, <2>3
<1>4. CASE CloseSource(w) \/ SetCurrent(w) \/ CreateClass(w) \/ ClassesCreated(w)
           \/ CopyCurriculum(w) \/ NothingToDo(w) \/ GraduateLog(w) \/ PromoteMarked(w)
  <2>1. RolloverTypeOK' /\ \E x : Moves(w, x) /\ x.pc \notin Marking
    BY <1>4, YearSteps, ClassSteps, EmptySteps
  <2>2. PICK x : Moves(w, x) /\ x.pc \notin Marking
    BY <2>1
  <2>3. StatusesKept /\ Growing
    BY <1>4 DEF CloseSource, SetCurrent, CreateClass, ClassesCreated, CopyCurriculum,
                NothingToDo, GraduateLog, PromoteMarked, StatusesKept, Growing, school
  <2> QED BY <1>1, <2>1, <2>2, <2>3
<1>5. CASE PpdbCreate(w) \/ PpdbRead(w) \/ PpdbMark(w) \/ Persist(w) \/ Finish(w)
           \/ Fail(w) \/ PromoteThrows(w) \/ Crash(w)
  <2>1. RolloverTypeOK' /\ \E x : Moves(w, x) /\ x.pc \notin Marking
    BY <1>5, PpdbSteps, SavingSteps, BrokenSteps
  <2>2. PICK x : Moves(w, x) /\ x.pc \notin Marking
    BY <2>1
  <2>3. StatusesKept /\ Growing
    BY <1>5 DEF PpdbCreate, PpdbRead, PpdbMark, Persist, Finish, Fail, PromoteThrows, Crash,
                StatusesKept, Growing, school
  <2> QED BY <1>1, <2>1, <2>2, <2>3
<1>6. CASE GraduateCreate(w) \/ GraduateRead(w) \/ GraduateMark(w)
  <2>1. PICK x : Moves(w, x) /\ Careful(w, x)
    BY <1>6, GraduateSteps
  <2>2. Growing
    BY <1>6 DEF GraduateCreate, GraduateRead, GraduateMark, Growing, school
  <2> QED BY <1>6, <2>1, <2>2, GraduateSteps DEF Executes
<1>7. CASE PromoteCreate(w) \/ PromoteRead(w) \/ PromoteMark(w)
  <2>1. PICK x : Moves(w, x) /\ Careful(w, x)
    BY <1>7, PromoteSteps
  <2>2. Growing
    BY <1>7 DEF PromoteCreate, PromoteRead, PromoteMark, Growing, school
  <2> QED BY <1>7, <2>1, <2>2, PromoteSteps DEF Executes
<1>8. CASE LockLost(w)
  <2>1. PICK x : Moves(w, x) /\ Careful(w, x)
    BY <1>8, LostLockSteps
  <2>2. Growing
    BY <1>8 DEF LockLost, Growing, school
  <2> QED BY <1>8, <2>1, <2>2, LostLockSteps DEF Executes
<1> QED BY <1>2, <1>3, <1>4, <1>5, <1>6, <1>7, <1>8 DEF ExecutorStep

LEMMA EveryStep ==
    ASSUME TypeInv, [Next]_vars
    PROVE  RolloverTypeOK' /\ (Executes \/ Previews \/ BeginsUndo \/ Undoes \/ Elsewhere)
<1>1. CASE UNCHANGED vars
  <2>1. /\ RolloverTypeOK'
        /\ UNCHANGED <<ex, desk, mode, undoing, overtaken, run, rows, alumni, pupil>>
    BY <1>1 DEF vars, TypeInv, RolloverTypeOK
  <2> QED BY <2>1 DEF Elsewhere, Growing, StatusesKept, RunKept
<1>2. CASE \E w \in Executors : \/ ExecutorStep(w) \/ ExecuteInline(w) \/ TakeJob(w)
                                \/ Fail(w) \/ Crash(w) \/ LockLost(w)
  BY <1>2, ExecutorSteps
<1>3. CASE PrecheckRead \/ PrecheckCommit \/ DryRunRead \/ DryRunCommit \/ DeskFails
  BY <1>3, PreviewSteps DEF Previews
<1>4. CASE RollbackRead
  BY <1>4, UndoBegins DEF BeginsUndo
<1>5. CASE UndoRows \/ UndoClasses \/ UndoAlumni \/ (\E s \in Students : UndoStatus(s))
           \/ UndoYears \/ UndoFinish
  BY <1>5, UndoSteps DEF Undoes
<1>6. CASE \/ Redeliver \/ Age \/ EvictJob \/ DeleteInvoice
           \/ \E s \in Students : Regrade(s)
           \/ \E n \in Newcomers, c \in classes : StaffEnrolls(n, c)
  BY <1>6, WorldSteps DEF Elsewhere
<1>7. CASE ExecuteRequest
  <2>1. /\ RolloverTypeOK' /\ UNCHANGED <<run, school, desk, mode, placeable, undoing, regraded,
                                          overtaken>>
        /\ \/ UNCHANGED ex
           \/ \E w \in Executors : \E x : Moves(w, x) /\ x.pc \notin Marking
    BY <1>7, RequestSteps
  <2>2. StatusesKept /\ Growing
    BY <2>1 DEF StatusesKept, Growing, school
  <2>3. CASE UNCHANGED ex
    BY <2>1, <2>2, <2>3 DEF Elsewhere, RunKept
  <2>4. CASE ~(UNCHANGED ex)
    <3>1. PICK w \in Executors : \E x : Moves(w, x) /\ x.pc \notin Marking
      BY <2>1, <2>4
    <3>2. PICK x : Moves(w, x) /\ x.pc \notin Marking
      BY <3>1
    <3>3. Careful(w, x)
      BY <2>2, <3>2, IdleIsCareful
    <3> QED BY <2>1, <2>2, <3>2, <3>3 DEF Executes
  <2> QED BY <2>3, <2>4
<1> QED BY <1>1, <1>2, <1>3, <1>4, <1>5, <1>6, <1>7 DEF Next, DeskStep

-----------------------------------------------------------------------------
(* The invariants.                                                         *)

LEMMA InitTypes == Init => TypeInv
<1> SUFFICES ASSUME Init PROVE TypeInv
  OBVIOUS
<1>1. run \in RunType
  BY DEF Init, RunType
<1>2. PICK c \in Scenarios : /\ faults = c.faults /\ pupil = c.pupil /\ applied = c.applied
                              /\ placeable = IF c.intake THEN c.accounts ELSE {}
  BY DEF Init
<1>3. job \in JobType
  BY NoJobType DEF Init
<1>4. year \in [src : YearStatuses, tgt : YearStatuses, cur : {"src", "tgt"}]
  BY DEF Init, YearStatuses
<1>5. /\ faults \in Nat /\ pupil \in [Students -> Pupils]
      /\ applied \in [Applicants -> {"SELECTED", "ENROLLED"}]
      /\ placeable \subseteq Applicants
  BY <1>2, ScenarioAssumption
<1>6. rows = {} /\ classes = {} /\ alumni = {} /\ regraded = {}
  BY DEF Init
<1>7. RolloverTypeOK
  BY <1>1, <1>3, <1>4, <1>5, <1>6 DEF RolloverTypeOK
<1>8. DeskOK
  <2>1. desk = IdleDesk
    BY DEF Init
  <2> QED BY <2>1 DEF IdleDesk, DeskOK, DeskType, Undoing
<1>9. SlotOK(IdleSlot) /\ IdleSlot \in SlotType
  BY FreshSlots DEF SlotOK
<1>10. ex = [w \in Executors |-> IdleSlot]
  BY DEF Init
<1> QED BY <1>7, <1>8, <1>9, <1>10 DEF TypeInv

\* Slots nobody moves stay what they are.
LEMMA StillTyped ==
    ASSUME TypeInv, UNCHANGED ex, RolloverTypeOK', DeskOK'
    PROVE  TypeInv'
<1>1. \A w \in Executors : SlotOK(ex[w])'
  BY DEF TypeInv, SlotOK, SlotType, RunType, MadeType, PlanType, RowType, Decisions
<1>2. (ex \in [Executors -> SlotType])'
  BY DEF TypeInv
<1> QED BY <1>1, <1>2 DEF TypeInv

LEMMA TypesStay ==
    ASSUME TypeInv, [Next]_vars
    PROVE  TypeInv'
<1>1. RolloverTypeOK' /\ (Executes \/ Previews \/ BeginsUndo \/ Undoes \/ Elsewhere)
  BY EveryStep
<1>2. CASE Executes
  BY <1>1, <1>2, MovesKeepTypes DEF Executes
<1>3. CASE Previews \/ BeginsUndo \/ Undoes
  BY <1>1, <1>3, StillTyped DEF Previews, BeginsUndo, Undoes
<1>4. CASE Elsewhere
  <2>1. UNCHANGED <<ex, desk>>
    BY <1>4 DEF Elsewhere
  <2>2. DeskOK'
    BY <2>1 DEF DeskOK, TypeInv
  <2> QED BY <1>1, <2>1, <2>2, StillTyped
<1> QED BY <1>1, <1>2, <1>3, <1>4

\* The run, the school, the job and the requests keep their types.
THEOREM RolloverTypes == Spec => [](TypeInv /\ RolloverTypeOK)
<1>1. TypeInv /\ [Next]_vars => TypeInv'
  BY TypesStay
<1>2. TypeInv => RolloverTypeOK
  BY DEF TypeInv
<1> QED BY InitTypes, <1>1, <1>2, PTL DEF Spec

\* The claim of the run is a lock: until an execution is overtaken, whoever is past it is
\* alone, the run says so and is not old.
LockInv ==
    overtaken = TRUE \/
        /\ \A v \in Executors : Live(v) => run.status = "RUNNING" /\ run.stale = FALSE
        /\ \A v, w \in Executors : Live(v) /\ Live(w) => v = w

\* A step that is no execution's leaves the lock alone or overtakes it.
LEMMA LockKept ==
    ASSUME LockInv, UNCHANGED ex, RunKept
    PROVE  LockInv'
<1>1. \A v \in Executors : Live(v)' <=> Live(v)
  BY DEF Live
<1>2. CASE overtaken' = TRUE
  BY <1>2 DEF LockInv
<1>3. CASE Overtakes /\ ~(overtaken' = TRUE)
  <2>1. \A v \in Executors : ~Live(v)
    BY Zenon, <1>3 DEF Overtakes
  <2> QED BY <1>1, <2>1 DEF LockInv
<1>4. CASE /\ run'.status = run.status /\ run'.stale \in {run.stale, FALSE}
           /\ overtaken' = overtaken /\ ~(overtaken' = TRUE)
  BY <1>1, <1>4 DEF LockInv
<1> QED BY <1>2, <1>3, <1>4 DEF RunKept

LEMMA LockStays ==
    ASSUME TypeInv, LockInv, [Next]_vars
    PROVE  LockInv'
<1>1. Executes \/ Previews \/ BeginsUndo \/ Undoes \/ Elsewhere
  BY EveryStep
<1>2. CASE Previews \/ Undoes \/ Elsewhere
  BY <1>2, LockKept DEF Previews, Undoes, Elsewhere
<1>3. CASE BeginsUndo
  BY <1>3, LockKept DEF BeginsUndo, RunKept
<1>4. CASE Executes
  <2>1. PICK w \in Executors : \E x : Moves(w, x)
    BY <1>4 DEF Executes
  <2>2. PICK x : Moves(w, x)
    BY <2>1
  <2>3. SUFFICES ASSUME ~(overtaken = TRUE)
                 PROVE  /\ (\A v \in Executors :
                               Live(v) => run.status = "RUNNING" /\ run.stale = FALSE)'
                        /\ (\A v, u \in Executors : Live(v) /\ Live(u) => v = u)'
    BY <2>2 DEF LockInv, Moves
  <2>4. /\ \A v \in Executors : Live(v) => run.status = "RUNNING" /\ run.stale = FALSE
        /\ \A v, u \in Executors : Live(v) /\ Live(u) => v = u
    BY <2>3 DEF LockInv
  <2>5. ex'[w] = x /\ \A v \in Executors : v # w => ex'[v] = ex[v]
    BY <2>2 DEF Moves, Becomes, TypeInv
  <2>6. \A v \in Executors : v # w => (Live(v)' <=> Live(v))
    BY <2>5 DEF Live
  <2>7. Live(w)' <=> x.pc \in Claimed
    BY <2>5 DEF Live
  <2>8. RunPart(w, x)
    BY <2>2 DEF Moves
  <2>9. CASE /\ run'.status = run.status /\ run'.stale \in {run.stale, FALSE}
             /\ x.pc \in Claimed => ex[w].pc \in Claimed
    <3>1. \A v \in Executors : Live(v)' => Live(v)
      BY <2>6, <2>7, <2>9 DEF Live
    <3>2. \A v \in Executors : Live(v)' => run'.status = "RUNNING" /\ run'.stale = FALSE
      BY <2>4, <2>9, <3>1
    <3> QED BY <2>4, <3>1, <3>2
  <2>10. CASE Claimable(run) /\ run'.status = "RUNNING" /\ run'.stale = FALSE
    <3>1. \A v \in Executors : ~Live(v)
      BY <2>4, <2>10 DEF Claimable
    <3> QED BY <2>6, <2>10, <3>1
  <2>11. CASE Reclaimable(run) /\ x.pc \notin Claimed
    <3>1. run.stale # FALSE
      BY Zenon, <2>11 DEF Reclaimable
    <3>2. \A v \in Executors : ~Live(v)
      BY <2>4, <3>1
    <3> QED BY <2>6, <2>7, <2>11, <3>2
  <2>12. CASE ex[w].pc \in Claimed /\ x.pc = "idle"
    <3>1. \A v \in Executors : ~Live(v)'
      BY <2>4, <2>6, <2>7, <2>12, ClaimedAre DEF Live
    <3> QED BY <3>1
  <2> QED BY <2>8, <2>9, <2>10, <2>11, <2>12 DEF RunPart
<1> QED BY <1>1, <1>2, <1>3, <1>4

\* At most one execution is past its claim, whatever starts and ends them, until one
\* outlives its lease or has its status overwritten by the operator's request.
THEOREM OneAtATime == Spec => []OneExecutor
<1>1. Init => LockInv
  BY ClaimedAre DEF Init, LockInv, Live, IdleSlot
<1>2. TypeInv /\ LockInv /\ [Next]_vars => LockInv'
  BY LockStays
<1>3. LockInv => OneExecutor
  <2>1. ASSUME overtaken = TRUE PROVE overtaken
    BY Zenon, <2>1
  <2> QED BY <2>1 DEF LockInv, OneExecutor
<1> QED BY RolloverTypes, <1>1, <1>2, <1>3, PTL DEF Spec

\* Before a rollback, the marked have their rows, and so have those about to
\* be marked.
LostInv ==
    /\ desk.pc \in Undoing \ {"undo-rows"} => undoing = TRUE
    /\ undoing = TRUE \/
          /\ \A s \in Students :
                /\ pupil[s].status \in {"PROMOTED", "REPEATED"} => HasRow(s)
                /\ pupil[s].status = "GRADUATED" => IsAlumni(s)
          /\ \A w \in Executors :
                /\ ex[w].pc \in Graduating => \A s \in ex[w].todo : IsAlumni(s)
                /\ ex[w].pc \in Promoting => \A s \in ex[w].todo : HasRow(s)

\* Statuses that are kept keep their rows while these only grow.
LEMMA RowsStay ==
    ASSUME Growing, NEW s
    PROVE  (HasRow(s) => HasRow(s)') /\ (IsAlumni(s) => IsAlumni(s)')
BY DEF Growing, HasRow, IsAlumni

LEMMA LostStays ==
    ASSUME TypeInv, LostInv, [Next]_vars
    PROVE  LostInv'
<1>1. RolloverTypeOK' /\ (Executes \/ Previews \/ BeginsUndo \/ Undoes \/ Elsewhere)
  BY EveryStep
<1>2. CASE undoing' = TRUE
  BY <1>2 DEF LostInv
<1>3. ASSUME ~(undoing' = TRUE) PROVE ~Undoes
  BY <1>3 DEF Undoes, LostInv
<1>4. ASSUME ~(undoing' = TRUE), undoing' = undoing
      PROVE  /\ \A s \in Students :
                   /\ pupil[s].status \in {"PROMOTED", "REPEATED"} => HasRow(s)
                   /\ pupil[s].status = "GRADUATED" => IsAlumni(s)
             /\ \A w \in Executors :
                   /\ ex[w].pc \in Graduating => \A s \in ex[w].todo : IsAlumni(s)
                   /\ ex[w].pc \in Promoting => \A s \in ex[w].todo : HasRow(s)
             /\ desk.pc \notin Undoing \ {"undo-rows"}
  BY <1>4 DEF LostInv
<1>5. CASE Executes /\ ~(undoing' = TRUE)
  <2>1. PICK w \in Executors : \E x : Moves(w, x) /\ Careful(w, x) /\ Growing
    BY <1>5 DEF Executes
  <2>2. PICK x : Moves(w, x) /\ Careful(w, x) /\ Growing
    BY <2>1
  <2>3. UNCHANGED <<desk, undoing>>
    BY <2>2 DEF Moves
  <2>4. ex'[w] = x /\ \A v \in Executors : v # w => ex'[v] = ex[v]
    BY <2>2 DEF Moves, Becomes, TypeInv
  <2>5. ASSUME NEW s \in Students
        PROVE  /\ pupil'[s].status \in {"PROMOTED", "REPEATED"} => HasRow(s)'
               /\ pupil'[s].status = "GRADUATED" => IsAlumni(s)'
    <3>1. (HasRow(s) => HasRow(s)') /\ (IsAlumni(s) => IsAlumni(s)')
      BY <2>2, RowsStay
    <3>2. CASE pupil'[s].status = pupil[s].status
      BY <1>4, <1>5, <2>3, <3>1, <3>2
    <3>3. CASE /\ ex[w].pc = "graduate-mark" /\ s \in ex[w].todo
               /\ pupil'[s].status = "GRADUATED"
      BY <1>4, <1>5, <2>3, <3>1, <3>3 DEF Graduating
    <3>4. CASE /\ ex[w].pc = "promote-mark" /\ s \in ex[w].todo
               /\ pupil'[s].status \in {"PROMOTED", "REPEATED"}
      BY <1>4, <1>5, <2>3, <3>1, <3>4 DEF Promoting
    <3> QED BY <2>2, <3>2, <3>3, <3>4 DEF Careful
  <2>6. ASSUME NEW v \in Executors
        PROVE  /\ ex'[v].pc \in Graduating => \A s \in ex'[v].todo : IsAlumni(s)'
               /\ ex'[v].pc \in Promoting => \A s \in ex'[v].todo : HasRow(s)'
    <3>1. CASE v # w
      BY <1>4, <1>5, <2>2, <2>3, <2>4, <3>1, RowsStay
    <3>2. CASE v = w
      <4>1. ASSUME x.pc \in Graduating, NEW s \in x.todo PROVE IsAlumni(s)'
        <5>1. IsAlumni(s) => IsAlumni(s)'
          BY <2>2, RowsStay
        <5>2. (\E a \in alumni' : a.who = s) => IsAlumni(s)'
          BY DEF IsAlumni
        <5> QED BY <1>4, <1>5, <2>2, <2>3, <4>1, <5>1, <5>2 DEF Careful
      <4>2. ASSUME x.pc \in Promoting, NEW s \in x.todo PROVE HasRow(s)'
        <5>1. HasRow(s) => HasRow(s)'
          BY <2>2, RowsStay
        <5>2. (\E r \in rows' : r.who = s) => HasRow(s)'
          BY DEF HasRow
        <5> QED BY <1>4, <1>5, <2>2, <2>3, <4>2, <5>1, <5>2 DEF Careful
      <4> QED BY <2>4, <3>2, <4>1, <4>2
    <3> QED BY <3>1, <3>2
  <2>7. (desk.pc \notin Undoing \ {"undo-rows"})'
    BY <1>4, <1>5, <2>3
  <2> QED BY <2>5, <2>6, <2>7 DEF LostInv
<1>6. CASE (Previews \/ BeginsUndo \/ Elsewhere) /\ ~(undoing' = TRUE)
  <2>1. UNCHANGED <<ex, undoing>>
    BY <1>6 DEF Previews, BeginsUndo, Elsewhere
  <2>2. Growing /\ StatusesKept
    BY <1>6 DEF Previews, BeginsUndo, Elsewhere, Growing, StatusesKept, school
  <2>3. (desk.pc \notin Undoing \ {"undo-rows"})'
    BY <1>4, <1>6, <2>1 DEF Previews, BeginsUndo, Elsewhere
  <2>4. ASSUME NEW s \in Students
        PROVE  /\ pupil'[s].status \in {"PROMOTED", "REPEATED"} => HasRow(s)'
               /\ pupil'[s].status = "GRADUATED" => IsAlumni(s)'
    BY <1>4, <1>6, <2>1, <2>2, RowsStay DEF StatusesKept
  <2>5. ASSUME NEW v \in Executors
        PROVE  /\ ex'[v].pc \in Graduating => \A s \in ex'[v].todo : IsAlumni(s)'
               /\ ex'[v].pc \in Promoting => \A s \in ex'[v].todo : HasRow(s)'
    BY <1>4, <1>6, <2>1, <2>2, RowsStay
  <2> QED BY <2>3, <2>4, <2>5 DEF LostInv
<1> QED BY <1>1, <1>2, <1>3, <1>5, <1>6

\* However executions fail, die, resume or overlap, no marked student is
\* without his new row, until a rollback begins.
THEOREM MarkedHaveRows == Spec => []NobodyLost
<1>1. Init => LostInv
  <2> SUFFICES ASSUME Init PROVE LostInv
    OBVIOUS
  <2>1. PICK c \in Scenarios : pupil = c.pupil
    BY DEF Init
  <2>2. \A s \in Students : pupil[s].status \in {"ACTIVE", "TRANSFERRED", "DROPPED"}
    BY <2>1, ScenarioAssumption
  <2>3. \A w \in Executors : ex[w].pc = "idle"
    BY DEF Init, IdleSlot
  <2>4. desk.pc = "idle"
    BY DEF Init, IdleDesk
  <2> QED BY <2>2, <2>3, <2>4 DEF LostInv, Undoing, Graduating, Promoting
<1>2. TypeInv /\ LostInv /\ [Next]_vars => LostInv'
  BY LostStays
<1>3. LostInv => NobodyLost
  <2>1. ASSUME undoing = TRUE PROVE undoing
    BY Zenon, <2>1
  <2> QED BY <2>1 DEF LostInv, NobodyLost
<1> QED BY RolloverTypes, <1>1, <1>2, <1>3, PTL DEF Spec
-----------------------------------------------------------------------------
(* One request at a time: what the run, the school, the operator's request *)
(* and the execution know of each other.  r is the run, x an execution.    *)

\* Between its reads and its end an execution holds a plan; after `begin' it
\* holds the record of what it made.
Planning == {"reclaim", "claim"} \union Claimed
Acting   == Claimed \ {"begin"}
Before   == Steps \ {"set-current"}
Placing  == {"PROMOTED", "REPEATED"}

\* The dry-run named s, an execution marked him.
Marked(s) == shown[s] # None /\ pupil[s].status # "ACTIVE"

\* A rollback that goes by this record undoes all that was done for s.
Recorded(made, s) ==
    /\ made # None /\ s \in DOMAIN made.before
    /\ \A t \in rows : t.who = s => t \in made.rows
    /\ \A a \in alumni : a.who = s => a \in made.alumni

AllRecorded(made) == \A s \in Steady : Marked(s) => Recorded(made, s)

MadeOK(made) ==
    /\ \A c, d \in made.classes : c.key = d.key => c = d
    /\ \A s \in DOMAIN made.before : made.before[s] = "ACTIVE"
    /\ made.src # "CLOSED" /\ made.cur = "src"

\* What the steps in `done' have brought about.
GraduatesDone == \A s \in Steady :
    shown[s] # None /\ shown[s].action = "GRADUATED" => pupil[s].status = "GRADUATED"
PromotesDone == \A s \in Steady :
    shown[s] # None /\ shown[s].action \in Placing => pupil[s].status = shown[s].action
PpdbDone == \A a \in placeable : applied[a] = "ENROLLED"

DoneOK(done) ==
    /\ "graduate" \in done => GraduatesDone
    /\ "promote" \in done => PromotesDone
    /\ "ppdb-enroll" \in done => PpdbDone

\* A new dry-run would say the same of those it named, and names nobody else.
Fresh == \A s \in Steady : shown[s] # None => shown[s] = EvaluateStudent(pupil[s])
EachNamed == \A s \in Students : pupil[s].status = "ACTIVE" => shown[s] # None

MarkedAsShown == \A s \in Students : Marked(s) =>
    /\ shown[s].action \in Placing \union {"GRADUATED"}
    /\ pupil[s].status = shown[s].action

PreviewKnows(r) ==
    /\ r.plan # None => \A s \in DOMAIN r.plan : shown[s] = r.plan[s]
    /\ r.made = None => r.done = {} /\ \A s \in Students : ~Marked(s)
    /\ r.made # None => Fresh /\ MadeOK(r.made)
    /\ r.made # None => undoing = TRUE \/ EachNamed
    /\ undoing = TRUE \/ MarkedAsShown

RowsPlaced(r) == \A t \in rows : t.who \in Students =>
    /\ r.made # None /\ "create-classes" \in r.done /\ t.class \in r.made.classes
    /\ t.who \in Steady => /\ shown[t.who] # None /\ shown[t.who].action \in Placing
                           /\ t.class.key = shown[t.who].key

AlumniPlaced(r) == \A a \in alumni :
    /\ r.made # None
    /\ a.who \in Steady => shown[a.who] # None /\ shown[a.who].action = "GRADUATED"

StepsKnow(r) ==
    /\ undoing = TRUE \/ DoneOK(r.done)
    /\ year.cur = "tgt" \/ year.src = "CLOSED" => Before \subseteq r.done

\* The record of a finished run names every row of a student.
RowsWritten(made) ==
    /\ \A t \in rows : t.who \in Steady => t \in made.rows
    /\ \A a \in alumni : a.who \in Steady => a \in made.alumni
    /\ \A s \in Steady : Marked(s) => s \in DOMAIN made.before

NothingLeft ==
    /\ \A t \in rows : t.who \notin Steady
    /\ \A a \in alumni : a.who \notin Steady
    /\ \A s \in Steady : ~Marked(s)
    /\ year.tgt = "DRAFT" /\ year.cur = "src" /\ year.src # "CLOSED"

RecordKnows(r) ==
    /\ r.plan # None => undoing = TRUE \/ \A s \in Steady :
          Marked(s) /\ s \notin DOMAIN r.plan => Recorded(r.made, s)
    /\ r.status # "RUNNING" => undoing = TRUE \/ AllRecorded(r.made)
    /\ r.status \in {"DONE", "ROLLED_BACK"} => Steps \subseteq r.done /\ RowsWritten(r.made)
    /\ undoing = TRUE => r.status \in {"DONE", "ROLLED_BACK"}
    /\ r.status = "ROLLED_BACK" => undoing = TRUE /\ NothingLeft

SchoolKnows(r) == PreviewKnows(r) /\ RowsPlaced(r) /\ AlumniPlaced(r)
                  /\ StepsKnow(r) /\ RecordKnows(r)

\* The steps before a place are done.
Need(pc) ==
    CASE pc \in {"graduate", "graduate-read", "graduate-mark", "graduate-log"} ->
             {"close-source", "create-classes", "copy-curriculum"}
      [] pc \in {"promote", "promote-read", "promote-mark"} ->
             {"close-source", "create-classes", "copy-curriculum", "graduate"}
      [] pc \in {"ppdb-enroll", "ppdb-read", "ppdb-mark"} -> Before \ {"ppdb-enroll"}
      [] pc \in {"set-current", "open-target", "close-old"} -> Before
      [] pc = "finish" -> Steps
      [] OTHER -> {}

PlanKnows(x, r) ==
    /\ undoing # TRUE
    /\ \A s \in DOMAIN x.plan : shown[s] = x.plan[s]
    /\ \A s \in Students : pupil[s].status = "ACTIVE" => s \in DOMAIN x.plan
    /\ Fresh
    /\ x.src = "CLOSED" => "close-source" \in r.done
    /\ r.plan \in {None, x.plan}

ClaimKnows(x, r) ==
    /\ r.plan = x.plan
    /\ x.seen.done = r.done /\ x.seen.made = r.made
    /\ \A s \in DOMAIN x.plan : pupil[s].status = "ACTIVE"
    /\ x.pc = "reclaim" => x.seen = r /\ r.status = "RUNNING" /\ r.stale = TRUE
    /\ x.pc = "claim" => r.status \in {"PREVIEW", "FAILED"}
    /\ x.pc = "begin" => r.status = "RUNNING"

TodoKnows(x) ==
    /\ x.pc \in {"graduate-read", "graduate-mark"} =>
          x.todo = Planned(x.plan, {"GRADUATED"})
    /\ x.pc = "graduate-log" =>
          \A s \in Planned(x.plan, {"GRADUATED"}) : pupil[s].status = "GRADUATED"
    /\ x.pc = "promote-read" => x.todo = Planned(x.plan, Placing)
    /\ x.pc = "promote-mark" =>
          /\ x.todo \subseteq Planned(x.plan, Placing)
          /\ \A s \in Planned(x.plan, Placing) \ x.todo : pupil[s].status = x.plan[s].action
    /\ x.pc \in {"graduate-read", "promote-read"} =>
          \A s \in x.todo : pupil[s].status = "ACTIVE"
    /\ x.pc \in {"graduate-mark", "promote-mark"} =>
          \A s \in x.todo \ regraded : Recorded(x.made, s)
    /\ x.pc \in {"ppdb-read", "ppdb-mark"} =>
          \A a \in placeable : applied[a] = "SELECTED" => a \in x.todo

\* A planned student who is not ACTIVE any more was marked by this execution.
MarkedByNow(x) ==
    \A s \in DOMAIN x.plan : pupil[s].status # "ACTIVE" =>
       /\ x.plan[s].action = "GRADUATED" => "graduate" \in x.done \/ x.pc = "graduate-log"
       /\ x.plan[s].action \in Placing =>
             "promote" \in x.done \/ (x.pc = "promote-mark" /\ s \notin x.todo)

ActingKnows(x, r) ==
    /\ r.status = "RUNNING"
    /\ r.done \subseteq x.done /\ (x.pc # "persist" => x.done = r.done)
    /\ r.made = None => x.pc \in {"close-source", "persist"}
    /\ DoneOK(x.done) /\ Need(x.pc) \subseteq x.done /\ x.pc \notin x.done
    /\ MadeOK(x.made)
    /\ "create-classes" \in r.done => x.made.classes = r.made.classes
    /\ AllRecorded(x.made)
    /\ MarkedByNow(x) /\ TodoKnows(x)
    /\ x.pc = "finish" => r.made = x.made

SlotKnows(x, r) ==
    /\ x.pc \in Planning => PlanKnows(x, r)
    /\ x.pc \in {"reclaim", "claim", "begin"} => ClaimKnows(x, r)
    /\ x.pc \in Acting => ActingKnows(x, r)

\* What an undo at pc has already undone.
UndoKnows(pc) ==
    /\ pc # "undo-rows" => undoing = TRUE /\ \A t \in rows : t.who \notin Steady
    /\ pc \notin {"undo-rows", "undo-classes", "undo-alumni"} =>
          \A a \in alumni : a.who \notin Steady
    /\ pc \in {"undo-rows", "undo-classes", "undo-alumni", "undo-statuses"} =>
          \A s \in Steady : Marked(s) => s \in desk.left
    /\ pc \in {"undo-target", "undo-current", "undo-finish"} =>
          year.src # "CLOSED" /\ \A s \in Steady : ~Marked(s)
    /\ pc \in {"undo-current", "undo-finish"} => year.tgt = "DRAFT"
    /\ pc = "undo-finish" => year.cur = "src"

DeskKnows ==
    /\ desk.pc = "precheck" => run.status \in {"DRAFT", "PREVIEW", "FAILED"}
    /\ desk.pc = "dryrun" =>
          /\ run.status = "PREVIEW" /\ desk.seen = run
          /\ \A s \in Students : s \in DOMAIN desk.plan <=> pupil[s].status = "ACTIVE"
          /\ run.made # None => \A s \in DOMAIN desk.plan \ regraded :
                                    desk.plan[s] = EvaluateStudent(pupil[s])
    /\ desk.pc \in Undoing =>
          run.status = "DONE" /\ desk.seen.made = run.made /\ UndoKnows(desk.pc)

OneBusy ==
    /\ \A v, w \in Executors : ex[v].pc # "idle" /\ ex[w].pc # "idle" => v = w
    /\ desk.pc # "idle" => Quiet

SerialInv ==
    mode = "serial" =>
        /\ OneBusy /\ SchoolKnows(run) /\ DeskKnows
        /\ \A w \in Executors : SlotKnows(ex[w], run)

-----------------------------------------------------------------------------
(* What does not move.                                                     *)

\* Where an execution can be, by what it holds.
LEMMA PlacesAre ==
    /\ Acting = {"persist", "graduate-read", "graduate-mark", "graduate-log",
                 "promote-read", "promote-mark", "ppdb-read", "ppdb-mark", "open-target",
                 "close-old", "finish", "close-source", "create-classes", "copy-curriculum",
                 "graduate", "promote", "ppdb-enroll", "set-current"}
    /\ Planning = Acting \union {"reclaim", "claim", "begin"}
    /\ Claimed = Acting \union {"begin"}
    /\ Before = {"close-source", "create-classes", "copy-curriculum", "graduate",
                 "promote", "ppdb-enroll"}
BY ClaimedAre, StepsAre DEF Acting, Planning, Before

\* An execution that has read nothing knows nothing.
LEMMA IdleKnows ==
    ASSUME NEW x, NEW r, x.pc \in {"idle", "picked", "start"}
    PROVE  SlotKnows(x, r) /\ SlotKnows(x, r)'
BY PlacesAre DEF SlotKnows

\* While the school stays, what is known of it stays.
LEMMA SchoolStays ==
    ASSUME NEW r, SchoolKnows(r),
           UNCHANGED <<year, pupil, rows, alumni, applied, placeable, shown, undoing, regraded>>
    PROVE  SchoolKnows(r)'
<1>1. UNCHANGED <<year, pupil, rows, alumni, applied, shown, undoing, regraded, placeable>>
  OBVIOUS
<1>2. PreviewKnows(r)'
  BY <1>1 DEF SchoolKnows, PreviewKnows, Fresh, EachNamed, MarkedAsShown, Marked, Steady
<1>3. RowsPlaced(r)' /\ AlumniPlaced(r)'
  BY <1>1 DEF SchoolKnows, RowsPlaced, AlumniPlaced, Steady
<1>4. StepsKnow(r)'
  BY <1>1 DEF SchoolKnows, StepsKnow, DoneOK, GraduatesDone, PromotesDone, PpdbDone, Steady
<1>5. RecordKnows(r)'
  BY <1>1 DEF SchoolKnows, RecordKnows, Marked, Recorded, AllRecorded, RowsWritten,
                NothingLeft, Steady
<1> QED BY <1>2, <1>3, <1>4, <1>5 DEF SchoolKnows

LEMMA SlotStays ==
    ASSUME NEW x, NEW r, SlotKnows(x, r),
           UNCHANGED <<pupil, rows, alumni, applied, world, ghost>>
    PROVE  SlotKnows(x, r)'
<1>1. UNCHANGED <<pupil, rows, alumni, applied, shown, undoing, regraded, placeable>>
  BY DEF world, ghost
<1>2. PlanKnows(x, r) => PlanKnows(x, r)'
  BY <1>1 DEF PlanKnows, Fresh, Steady
<1>3. ClaimKnows(x, r) => ClaimKnows(x, r)'
  BY <1>1 DEF ClaimKnows
<1>4. ActingKnows(x, r) => ActingKnows(x, r)'
  <2>1. TodoKnows(x) => TodoKnows(x)'
    BY <1>1 DEF TodoKnows, Recorded
  <2>2. MarkedByNow(x) => MarkedByNow(x)'
    BY <1>1 DEF MarkedByNow
  <2>3. AllRecorded(x.made) => AllRecorded(x.made)'
    BY <1>1 DEF AllRecorded, Marked, Recorded, Steady
  <2>4. DoneOK(x.done) => DoneOK(x.done)'
    BY <1>1 DEF DoneOK, GraduatesDone, PromotesDone, PpdbDone, Steady
  <2> QED BY <2>1, <2>2, <2>3, <2>4 DEF ActingKnows
<1> QED BY <1>2, <1>3, <1>4 DEF SlotKnows

\* One execution goes from ex[w] to x, the run to r; the others are idle, and so
\* is the operator.
LEMMA OneMoves ==
    ASSUME TypeInv, OneBusy, NEW w \in Executors, NEW x, NEW r, Becomes(w, x), run' = r,
           ex[w].pc # "idle" \/ Quiet, desk.pc = "idle", desk' = desk,
           SchoolKnows(r)', SlotKnows(x, r)'
    PROVE  SerialInv'
<1>1. ex'[w] = x /\ \A v \in Executors : v # w => ex'[v] = ex[v] /\ ex[v].pc = "idle"
  BY DEF Becomes, TypeInv, OneBusy, Quiet
<1>2. OneBusy'
  BY <1>1 DEF OneBusy
<1>3. DeskKnows'
  BY DEF DeskKnows, Undoing
<1>4. SchoolKnows(run)'
  BY DEF SchoolKnows
<1>5. ASSUME NEW v \in Executors PROVE SlotKnows(ex[v], run)'
  <2>1. PICK y : y = ex'[v]
    OBVIOUS
  <2>2. SlotKnows(y, r)'
    BY <1>1, <2>1, IdleKnows
  <2> QED BY <2>1, <2>2
<1> QED BY <1>2, <1>3, <1>4, <1>5 DEF SerialInv

\* A step of an execution that touches neither the school nor the operator.
LEMMA RunMoves ==
    ASSUME TypeInv, OneBusy, NEW w \in Executors, NEW x, NEW r, Becomes(w, x), run' = r,
           ex[w].pc # "idle" \/ Quiet, desk.pc = "idle", desk' = desk,
           UNCHANGED <<year, pupil, rows, alumni, applied, world, ghost>>,
           SchoolKnows(r), SlotKnows(x, r)
    PROVE  SerialInv'
BY OneMoves, SchoolStays, SlotStays DEF world, ghost

-----------------------------------------------------------------------------
(* The run is claimed, saved and finished.                                 *)

\* The next step has its predecessors done and is not done itself.
LEMMA NextStepFits ==
    ASSUME NEW done \in SUBSET Steps
    PROVE  /\ NextStep(done) \in Acting /\ NextStep(done) \notin done
           /\ Need(NextStep(done)) \subseteq done
           /\ NextStep(done) \in Steps \union {"finish"}
           /\ done = {} => NextStep(done) = "close-source"
<1>1. /\ StepNames[1] = "close-source" /\ StepNames[2] = "create-classes"
      /\ StepNames[3] = "copy-curriculum" /\ StepNames[4] = "graduate"
      /\ StepNames[5] = "promote" /\ StepNames[6] = "ppdb-enroll"
      /\ StepNames[7] = "set-current"
  BY DEF StepNames
<1>2. CASE Steps \subseteq done
  <2>1. NextStep(done) = "finish" /\ Need("finish") = Steps
    BY <1>2 DEF NextStep, Need
  <2> QED BY <1>2, <2>1, StepsAre, PlacesAre
<1>3. CASE ~(Steps \subseteq done)
  <2> DEFINE First(i) == /\ StepNames[i] \notin done
                         /\ \A j \in 1..(i - 1) : StepNames[j] \in done
  <2>1. NextStep(done) = StepNames[CHOOSE i \in 1..7 : First(i)]
    BY <1>3 DEF NextStep
  <2>2. \E i \in 1..7 : First(i)
    <3> SUFFICES ASSUME \A i \in 1..7 : ~First(i) PROVE FALSE
      OBVIOUS
    <3>1. \A j \in 1..0 : FALSE
      OBVIOUS
    <3>2. StepNames[1] \in done
      BY <3>1
    <3>3. StepNames[2] \in done
      <4>1. \A j \in 1..(2 - 1) : j = 1
        OBVIOUS
      <4> QED BY <3>2, <4>1
    <3>4. StepNames[3] \in done
      <4>1. \A j \in 1..(3 - 1) : j = 1 \/ j = 2
        OBVIOUS
      <4> QED BY <3>2, <3>3, <4>1
    <3>5. StepNames[4] \in done
      <4>1. \A j \in 1..(4 - 1) : j = 1 \/ j = 2 \/ j = 3
        OBVIOUS
      <4> QED BY <3>2, <3>3, <3>4, <4>1
    <3>6. StepNames[5] \in done
      <4>1. \A j \in 1..(5 - 1) : j = 1 \/ j = 2 \/ j = 3 \/ j = 4
        OBVIOUS
      <4> QED BY <3>2, <3>3, <3>4, <3>5, <4>1
    <3>7. StepNames[6] \in done
      <4>1. \A j \in 1..(6 - 1) : j = 1 \/ j = 2 \/ j = 3 \/ j = 4 \/ j = 5
        OBVIOUS
      <4> QED BY <3>2, <3>3, <3>4, <3>5, <3>6, <4>1
    <3>8. StepNames[7] \in done
      <4>1. \A j \in 1..(7 - 1) : j = 1 \/ j = 2 \/ j = 3 \/ j = 4 \/ j = 5 \/ j = 6
        OBVIOUS
      <4> QED BY <3>2, <3>3, <3>4, <3>5, <3>6, <3>7, <4>1
    <3> QED BY <1>1, <1>3, <3>2, <3>3, <3>4, <3>5, <3>6, <3>7, <3>8, StepsAre
  <2>3. PICK k \in 1..7 : First(k) /\ NextStep(done) = StepNames[k]
    BY <2>1, <2>2
  <2>4. k = 1 \/ k = 2 \/ k = 3 \/ k = 4 \/ k = 5 \/ k = 6 \/ k = 7
    OBVIOUS
  <2>5. Need(StepNames[k]) \subseteq {StepNames[j] : j \in 1..(k - 1)}
    <3>1. CASE k = 1 \/ k = 2 \/ k = 3
      BY <1>1, <3>1 DEF Need
    <3>2. CASE k = 4
      <4>1. 1 \in 1..(k - 1) /\ 2 \in 1..(k - 1) /\ 3 \in 1..(k - 1)
        BY <3>2
      <4> QED BY <1>1, <3>2, <4>1 DEF Need
    <3>3. CASE k = 5
      <4>1. 1 \in 1..(k - 1) /\ 2 \in 1..(k - 1) /\ 3 \in 1..(k - 1) /\ 4 \in 1..(k - 1)
        BY <3>3
      <4> QED BY <1>1, <3>3, <4>1 DEF Need
    <3>4. CASE k = 6
      <4>1. /\ 1 \in 1..(k - 1) /\ 2 \in 1..(k - 1) /\ 3 \in 1..(k - 1) /\ 4 \in 1..(k - 1)
            /\ 5 \in 1..(k - 1)
        BY <3>4
      <4> QED BY <1>1, <3>4, <4>1, PlacesAre DEF Need
    <3>5. CASE k = 7
      <4>1. /\ 1 \in 1..(k - 1) /\ 2 \in 1..(k - 1) /\ 3 \in 1..(k - 1) /\ 4 \in 1..(k - 1)
            /\ 5 \in 1..(k - 1) /\ 6 \in 1..(k - 1)
        BY <3>5
      <4> QED BY <1>1, <3>5, <4>1, PlacesAre DEF Need
    <3> QED BY <2>4, <3>1, <3>2, <3>3, <3>4, <3>5
  <2>6. NextStep(done) \in Steps
    BY <2>3 DEF Steps
  <2>7. done = {} => k = 1
    <3> SUFFICES ASSUME done = {}, k # 1 PROVE FALSE
      OBVIOUS
    <3>1. 1 \in 1..(k - 1)
      OBVIOUS
    <3> QED BY <2>3, <3>1
  <2> QED BY <1>1, <2>3, <2>5, <2>6, <2>7, StepsAre, PlacesAre
<1> QED BY <1>2, <1>3

\* A planned student has a decision, so null is none; and so with the record.
LEMMA NullIsNothing ==
    /\ \A plan \in PlanType : plan # None /\ \A s \in DOMAIN plan : plan[s] # None
    /\ \A made \in MadeType : made # None
<1>1. ASSUME NEW plan \in PlanType, NEW s \in DOMAIN plan PROVE plan[s] # None
  <2>1. PICK S \in SUBSET Students : plan \in [S -> Decisions]
    BY DEF PlanType
  <2> QED BY <2>1, NullAssumption
<1> QED BY <1>1, NullAssumption

\* A student an execution does not plan is not ACTIVE, and was marked as shown.
LEMMA OthersMarked ==
    ASSUME NEW x, NEW r, PlanKnows(x, r), PreviewKnows(r), NEW s \in Students,
           shown[s] # None, s \notin DOMAIN x.plan
    PROVE  Marked(s) /\ pupil[s].status = shown[s].action
BY DEF PlanKnows, PreviewKnows, Marked, MarkedAsShown

\* An execution saves what it has done and made, or gives up with it.
LEMMA StoreKeeps ==
    ASSUME NEW x, SlotOK(x), NEW r, SchoolKnows(r), x.pc \in Acting, PlanKnows(x, r),
           ActingKnows(x, r), NEW status \in {"RUNNING", "FAILED"}
    PROVE  SchoolKnows(Stored(status, x))
<1>1. PICK q : q = Stored(status, x)
  OBVIOUS
<1>2. q.status = status /\ q.plan = None /\ q.done = x.done /\ q.made = x.made
  BY <1>1 DEF Stored
<1>3. x.made \in MadeType /\ x.made # None /\ x.plan \in PlanType
  BY NullIsNothing DEF SlotOK, Acting
<1>4. undoing # TRUE /\ r.done \subseteq x.done
  BY DEF PlanKnows, ActingKnows
<1>5. PreviewKnows(q)
  <2>1. EachNamed
    BY <1>3, NullIsNothing DEF PlanKnows, EachNamed
  <2> QED BY <1>2, <1>3, <2>1 DEF PreviewKnows, SchoolKnows, PlanKnows, ActingKnows
<1>6. RowsPlaced(q) /\ AlumniPlaced(q)
  BY <1>2, <1>3, <1>4 DEF SchoolKnows, RowsPlaced, AlumniPlaced, ActingKnows, Steady
<1>7. StepsKnow(q)
  BY <1>2, <1>4 DEF SchoolKnows, StepsKnow, ActingKnows
<1>8. RecordKnows(q)
  BY <1>2, <1>4 DEF RecordKnows, ActingKnows, Steady
<1> QED BY <1>1, <1>5, <1>6, <1>7, <1>8 DEF SchoolKnows

\* What holds of the slot and the run when an execution takes a step.
Serial(w) ==
    /\ TypeInv /\ SerialInv /\ mode = "serial" /\ w \in Executors

LEMMA SerialHas ==
    ASSUME NEW w, Serial(w)
    PROVE  /\ SlotOK(ex[w]) /\ ex[w] \in SlotType /\ run \in RunType
           /\ OneBusy /\ SchoolKnows(run) /\ DeskKnows /\ SlotKnows(ex[w], run)
           /\ ex[w].pc # "idle" => desk.pc = "idle"
           /\ ex[w].pc \in Planning => PlanKnows(ex[w], run)
           /\ ex[w].pc \in {"reclaim", "claim", "begin"} => ClaimKnows(ex[w], run)
           /\ ex[w].pc \in Acting => ActingKnows(ex[w], run)
<1>1. /\ SlotOK(ex[w]) /\ run \in RunType /\ OneBusy /\ SchoolKnows(run) /\ DeskKnows
      /\ SlotKnows(ex[w], run) /\ w \in Executors
  BY DEF Serial, TypeInv, RolloverTypeOK, SerialInv
<1> QED BY <1>1 DEF SlotOK, OneBusy, Quiet, SlotKnows

\* What an execution becomes when it only moves on.
LEMMA GotoSlot ==
    ASSUME NEW x \in SlotType, NEW pc
    PROVE  /\ [x EXCEPT !.pc = pc].pc = pc /\ [x EXCEPT !.pc = pc].seen = x.seen
           /\ [x EXCEPT !.pc = pc].src = x.src /\ [x EXCEPT !.pc = pc].plan = x.plan
           /\ [x EXCEPT !.pc = pc].done = x.done /\ [x EXCEPT !.pc = pc].made = x.made
           /\ [x EXCEPT !.pc = pc].todo = x.todo
BY DEF SlotType

LEMMA RunStatus ==
    ASSUME NEW r \in RunType, NEW s
    PROVE  /\ [r EXCEPT !.status = s, !.stale = FALSE].status = s
           /\ [r EXCEPT !.status = s, !.stale = FALSE].plan = r.plan
           /\ [r EXCEPT !.status = s, !.stale = FALSE].done = r.done
           /\ [r EXCEPT !.status = s, !.stale = FALSE].made = r.made
BY DEF RunType

\* A run with another status.
LEMMA StatusKeeps ==
    ASSUME NEW r, NEW q, SchoolKnows(r),
           q.plan = r.plan, q.done = r.done, q.made = r.made, RecordKnows(q)
    PROVE  SchoolKnows(q)
BY DEF SchoolKnows, PreviewKnows, RowsPlaced, AlumniPlaced, StepsKnow, Steady

LEMMA PersistSerial ==
    ASSUME NEW w, Serial(w), Persist(w)
    PROVE  SerialInv'
<1>1. PICK x : x = ex[w]
  OBVIOUS
<1>2. /\ SlotOK(x) /\ x \in SlotType /\ SchoolKnows(run) /\ OneBusy /\ desk.pc = "idle"
      /\ PlanKnows(x, run) /\ ActingKnows(x, run) /\ x.pc = "persist"
  BY <1>1, SerialHas, PlacesAre DEF Persist
<1>3. PICK r : r = Stored(run.status, x)
  OBVIOUS
<1>4. r.status = "RUNNING" /\ r.plan = None /\ r.done = x.done /\ r.made = x.made
  BY <1>2, <1>3 DEF Stored, ActingKnows
<1>5. SchoolKnows(r)
  BY <1>2, <1>3, StoreKeeps, PlacesAre DEF ActingKnows
<1>6. PICK y : y = [x EXCEPT !.pc = NextStep(x.done)]
  OBVIOUS
<1>7. /\ y.pc = NextStep(x.done) /\ y.plan = x.plan /\ y.done = x.done /\ y.made = x.made
      /\ y.src = x.src /\ x.done \in SUBSET Steps
  BY <1>2, <1>6, GotoSlot DEF SlotType
<1>8. /\ y.pc \in Acting /\ y.pc \notin y.done /\ Need(y.pc) \subseteq y.done
      /\ y.pc \in Steps \union {"finish"}
  BY <1>7, NextStepFits
<1>9. y.pc \in {"close-source", "create-classes", "copy-curriculum", "graduate", "promote",
                "ppdb-enroll", "set-current", "finish"}
  BY <1>8, StepsAre
<1>10. PlanKnows(y, r)
  BY <1>2, <1>4, <1>7 DEF PlanKnows, ActingKnows
<1>11. ActingKnows(y, r)
  <2>1. MarkedByNow(y) /\ TodoKnows(y)
    BY <1>2, <1>7, <1>9 DEF MarkedByNow, TodoKnows, ActingKnows
  <2>2. r.made # None
    BY <1>2, <1>4, NullIsNothing, PlacesAre DEF SlotOK
  <2> QED BY <1>2, <1>4, <1>7, <1>8, <2>1, <2>2 DEF ActingKnows
<1>12. SlotKnows(y, r)
  BY <1>8, <1>9, <1>10, <1>11 DEF SlotKnows
<1>13. /\ Becomes(w, y) /\ run' = r /\ desk' = desk
       /\ UNCHANGED <<year, pupil, rows, alumni, applied, world, ghost>>
  BY <1>1, <1>3, <1>6 DEF Persist, Goto, school
<1> QED BY <1>1, <1>2, <1>5, <1>12, <1>13, RunMoves DEF Serial

\* A finished run has recorded every row it made.
LEMMA FinishKeeps ==
    ASSUME RolloverTypeOK, NEW x, SlotOK(x), NEW r, SchoolKnows(r), x.pc = "finish",
           PlanKnows(x, r), ActingKnows(x, r)
    PROVE  Steps \subseteq r.done /\ AllRecorded(r.made) /\ RowsWritten(r.made)
<1>1. r.made = x.made /\ x.done = r.done /\ Steps \subseteq x.done /\ DoneOK(x.done)
      /\ AllRecorded(x.made)
  BY DEF ActingKnows, Need
<1>2. GraduatesDone /\ PromotesDone
  BY <1>1, StepsAre DEF DoneOK
<1>3. ASSUME NEW t \in rows, t.who \in Steady PROVE t \in r.made.rows
  <2>1. shown[t.who] # None /\ shown[t.who].action \in Placing
    BY <1>3 DEF SchoolKnows, RowsPlaced, Steady
  <2>2. Marked(t.who)
    BY <1>2, <1>3, <2>1 DEF Marked, PromotesDone, Placing, Steady
  <2> QED BY <1>1, <1>3, <2>2 DEF AllRecorded, Recorded, Steady
<1>4. ASSUME NEW a \in alumni, a.who \in Steady PROVE a \in r.made.alumni
  <2>1. /\ shown[a.who] # None /\ shown[a.who].action = "GRADUATED"
        /\ a.who \in Students
    BY <1>4 DEF SchoolKnows, AlumniPlaced, RolloverTypeOK, Steady
  <2>2. Marked(a.who)
    BY <1>2, <1>4, <2>1 DEF Marked, GraduatesDone, Steady
  <2> QED BY <1>1, <1>4, <2>1, <2>2 DEF AllRecorded, Recorded, Steady
<1>5. ASSUME NEW s \in Steady, Marked(s) PROVE s \in DOMAIN r.made.before
  BY <1>1, <1>5 DEF AllRecorded, Recorded, Steady
<1> QED BY <1>1, <1>3, <1>4, <1>5 DEF RowsWritten, Steady

LEMMA FinishSerial ==
    ASSUME NEW w, Serial(w), Finish(w)
    PROVE  SerialInv'
<1>1. PICK x : x = ex[w]
  OBVIOUS
<1>2. /\ SlotOK(x) /\ x \in SlotType /\ SchoolKnows(run) /\ OneBusy /\ desk.pc = "idle"
      /\ PlanKnows(x, run) /\ ActingKnows(x, run) /\ x.pc = "finish" /\ run \in RunType
  BY <1>1, SerialHas, PlacesAre DEF Finish
<1>3. PICK r : r = [run EXCEPT !.status = "DONE", !.stale = FALSE]
  OBVIOUS
<1>4. r.status = "DONE" /\ r.plan = run.plan /\ r.done = run.done /\ r.made = run.made
  BY <1>2, <1>3, RunStatus
<1>5. Steps \subseteq run.done /\ AllRecorded(run.made) /\ RowsWritten(run.made)
  BY <1>2, FinishKeeps DEF Serial, TypeInv
<1>6. RecordKnows(r)
  BY <1>2, <1>4, <1>5 DEF RecordKnows, PlanKnows, SchoolKnows, Steady
<1>7. SchoolKnows(r)
  BY <1>2, <1>4, <1>6, StatusKeeps
<1>8. PICK y : y = IdleSlot
  OBVIOUS
<1>9. SlotKnows(y, r)
  BY <1>8, IdleKnows, FreshSlots
<1>10. /\ Becomes(w, y) /\ run' = r /\ desk' = desk
       /\ UNCHANGED <<year, pupil, rows, alumni, applied, world, ghost>>
  BY <1>1, <1>3, <1>8 DEF Finish, Leave, school
<1> QED BY <1>1, <1>2, <1>7, <1>9, <1>10, RunMoves DEF Serial

\* An execution that ends leaves the run as it is, or saves it as FAILED.
LEMMA EndsSerial ==
    ASSUME NEW w, Serial(w), ex[w].pc # "idle", Becomes(w, IdleSlot), desk' = desk,
           UNCHANGED <<year, pupil, rows, alumni, applied, world, ghost>>,
           run' = run \/ (ex[w].pc \in Acting /\ run' = Stored("FAILED", ex[w]))
    PROVE  SerialInv'
<1>1. PICK x : x = ex[w]
  OBVIOUS
<1>2. /\ SlotOK(x) /\ SchoolKnows(run) /\ OneBusy /\ desk.pc = "idle"
      /\ x.pc \in Acting => PlanKnows(x, run) /\ ActingKnows(x, run)
  BY <1>1, SerialHas, PlacesAre
<1>3. PICK r : r = run'
  OBVIOUS
<1>4. SchoolKnows(r)
  <2>1. CASE run' = run
    BY <1>2, <1>3, <2>1
  <2>2. CASE x.pc \in Acting /\ run' = Stored("FAILED", x)
    BY <1>2, <1>3, <2>2, StoreKeeps
  <2> QED BY <1>1, <2>1, <2>2
<1>5. PICK y : y = IdleSlot
  OBVIOUS
<1>6. SlotKnows(y, r)
  BY <1>5, IdleKnows, FreshSlots
<1> QED BY <1>1, <1>2, <1>3, <1>4, <1>5, <1>6, RunMoves DEF Serial

LEMMA BrokenSerial ==
    ASSUME NEW w, Serial(w),
           Fail(w) \/ PromoteThrows(w) \/ Crash(w) \/ ExecuteRefused(w)
    PROVE  SerialInv'
<1>1. /\ ex[w].pc # "idle" /\ Becomes(w, IdleSlot) /\ desk' = desk
      /\ UNCHANGED <<year, pupil, rows, alumni, applied, world, ghost>>
  BY DEF Fail, PromoteThrows, Crash, ExecuteRefused, Leave, school
<1>2. run' = run \/ (ex[w].pc \in Acting /\ run' = Stored("FAILED", ex[w]))
  BY PlacesAre DEF Fail, PromoteThrows, Crash, ExecuteRefused, Guarded
<1> QED BY <1>1, <1>2, EndsSerial

\* A request begins, or is answered that the run is taken.
LEMMA BeginsSerial ==
    ASSUME NEW w, Serial(w), NEW x, Becomes(w, x), x.pc \in {"idle", "picked", "start"},
           run' = run, desk.pc = "idle", desk' = desk, ex[w].pc # "idle" \/ Quiet,
           UNCHANGED <<year, pupil, rows, alumni, applied, world, ghost>>
    PROVE  SerialInv'
<1>1. PICK r : r = run
  OBVIOUS
<1>2. SchoolKnows(r) /\ OneBusy /\ SlotKnows(x, r)
  BY <1>1, SerialHas, IdleKnows
<1> QED BY <1>1, <1>2, RunMoves DEF Serial

LEMMA StartSerial ==
    ASSUME NEW w, Serial(w), ExecuteInline(w) \/ TakeJob(w) \/ Picked(w)
    PROVE  SerialInv'
<1>1. /\ run' = run /\ desk' = desk
      /\ UNCHANGED <<year, pupil, rows, alumni, applied, world, ghost>>
  BY DEF ExecuteInline, TakeJob, Picked, school
<1>2. desk.pc = "idle" /\ (ex[w].pc # "idle" \/ Quiet)
  <2>1. CASE ExecuteInline(w) \/ TakeJob(w)
    BY <2>1 DEF ExecuteInline, TakeJob, SlotMayStart, Serial
  <2>2. CASE Picked(w)
    BY <2>2, SerialHas DEF Picked
  <2> QED BY <2>1, <2>2
<1>3. \E x : Becomes(w, x) /\ x.pc \in {"idle", "picked", "start"}
  <2>1. CASE ExecuteInline(w)
    BY <2>1, FreshSlots DEF ExecuteInline
  <2>2. CASE TakeJob(w)
    BY <2>2, FreshSlots DEF TakeJob
  <2>3. CASE Picked(w)
    <3>1. [ex[w] EXCEPT !.pc = "start"].pc = "start"
      BY SerialHas, GotoSlot
    <3> QED BY <2>3, <3>1, FreshSlots DEF Picked, Leave, Goto
  <2> QED BY <2>1, <2>2, <2>3
<1>4. PICK x : Becomes(w, x) /\ x.pc \in {"idle", "picked", "start"}
  BY <1>3
<1> QED BY <1>1, <1>2, <1>4, BeginsSerial

\* While the plan is the plan of the moment, whoever it does not name was
\* marked and recorded.
LEMMA OthersRecorded ==
    ASSUME NEW r, SchoolKnows(r), undoing # TRUE, r.plan # None,
           \A s \in DOMAIN r.plan : pupil[s].status = "ACTIVE"
    PROVE  AllRecorded(r.made)
BY DEF SchoolKnows, RecordKnows, AllRecorded, Marked, Steady

LEMMA ReclaimSerial ==
    ASSUME NEW w, Serial(w), Reclaim(w)
    PROVE  SerialInv'
<1>1. PICK x : x = ex[w]
  OBVIOUS
<1>2. /\ SlotOK(x) /\ x \in SlotType /\ SchoolKnows(run) /\ OneBusy /\ desk.pc = "idle"
      /\ PlanKnows(x, run) /\ ClaimKnows(x, run) /\ x.pc = "reclaim" /\ run \in RunType
      /\ x.plan \in PlanType
  BY <1>1, SerialHas, PlacesAre DEF Reclaim, SlotOK
<1>3. /\ desk' = desk /\ UNCHANGED <<year, pupil, rows, alumni, applied, world, ghost>>
  BY DEF Reclaim, school
<1>4. CASE Leave(w, Thrown(job)) /\ UNCHANGED run
  BY <1>1, <1>2, <1>3, <1>4, EndsSerial DEF Leave
<1>5. CASE run' = [x.seen EXCEPT !.status = "FAILED", !.stale = FALSE] /\ Goto(w, "claim")
  <2>1. PICK r : r = [run EXCEPT !.status = "FAILED", !.stale = FALSE]
    OBVIOUS
  <2>2. r.status = "FAILED" /\ r.plan = run.plan /\ r.done = run.done /\ r.made = run.made
    BY <1>2, <2>1, RunStatus
  <2>3. run' = r
    BY <1>2, <1>5, <2>1 DEF ClaimKnows
  <2>4. AllRecorded(run.made)
    BY <1>2, OthersRecorded, NullIsNothing DEF ClaimKnows, PlanKnows
  <2>5. SchoolKnows(r)
    <3>1. RecordKnows(r)
      BY <1>2, <2>2, <2>4 DEF RecordKnows, SchoolKnows, PlanKnows, Steady
    <3> QED BY <1>2, <2>2, <3>1, StatusKeeps
  <2>6. PICK y : y = [x EXCEPT !.pc = "claim"]
    OBVIOUS
  <2>7. y.pc = "claim" /\ y.plan = x.plan /\ y.seen = x.seen /\ y.src = x.src
    BY <1>2, <2>6, GotoSlot
  <2>8. PlanKnows(y, r)
    BY <1>2, <2>2, <2>7 DEF PlanKnows
  <2>9. ClaimKnows(y, r)
    <3>1. y.seen.done = run.done /\ y.seen.made = run.made
      BY <1>2, <2>7 DEF ClaimKnows
    <3> QED BY <1>2, <2>2, <2>7, <3>1 DEF ClaimKnows
  <2>10. SlotKnows(y, r)
    BY <2>7, <2>8, <2>9, PlacesAre DEF SlotKnows
  <2>11. Becomes(w, y)
    BY <1>1, <1>5, <2>6 DEF Goto
  <2> QED BY <1>1, <1>2, <1>3, <2>3, <2>5, <2>10, <2>11, RunMoves DEF Serial
<1> QED BY <1>1, <1>4, <1>5 DEF Reclaim

LEMMA ClaimSerial ==
    ASSUME NEW w, Serial(w), Claim(w)
    PROVE  SerialInv'
<1>1. PICK x : x = ex[w]
  OBVIOUS
<1>2. /\ SlotOK(x) /\ x \in SlotType /\ SchoolKnows(run) /\ OneBusy /\ desk.pc = "idle"
      /\ PlanKnows(x, run) /\ ClaimKnows(x, run) /\ x.pc = "claim" /\ run \in RunType
  BY <1>1, SerialHas, PlacesAre DEF Claim
<1>3. /\ desk' = desk /\ UNCHANGED <<year, pupil, rows, alumni, applied, world, ghost>>
  BY DEF Claim, school
<1>4. CASE Leave(w, Thrown(job)) /\ UNCHANGED run
  BY <1>1, <1>2, <1>3, <1>4, EndsSerial DEF Leave
<1>5. CASE run' = [run EXCEPT !.status = "RUNNING", !.stale = FALSE] /\ Goto(w, "begin")
  <2>1. PICK r : r = [run EXCEPT !.status = "RUNNING", !.stale = FALSE]
    OBVIOUS
  <2>2. r.status = "RUNNING" /\ r.plan = run.plan /\ r.done = run.done /\ r.made = run.made
    BY <1>2, <2>1, RunStatus
  <2>3. SchoolKnows(r)
    <3>1. RecordKnows(r)
      BY <1>2, <2>2 DEF RecordKnows, SchoolKnows, PlanKnows, Steady
    <3> QED BY <1>2, <2>2, <3>1, StatusKeeps
  <2>4. PICK y : y = [x EXCEPT !.pc = "begin"]
    OBVIOUS
  <2>5. y.pc = "begin" /\ y.plan = x.plan /\ y.seen = x.seen /\ y.src = x.src
    BY <1>2, <2>4, GotoSlot
  <2>6. PlanKnows(y, r) /\ ClaimKnows(y, r)
    BY <1>2, <2>2, <2>5 DEF PlanKnows, ClaimKnows
  <2>7. SlotKnows(y, r)
    BY <2>5, <2>6, PlacesAre DEF SlotKnows
  <2>8. Becomes(w, y)
    BY <1>1, <1>5, <2>4 DEF Goto
  <2> QED BY <1>1, <1>2, <1>3, <1>5, <2>1, <2>3, <2>7, <2>8, RunMoves DEF Serial
<1> QED BY <1>1, <1>4, <1>5 DEF Claim

LEMMA ExecuteStartSerial ==
    ASSUME NEW w, Serial(w), ExecuteStart(w)
    PROVE  SerialInv'
<1>1. PICK x : x = ex[w]
  OBVIOUS
<1>2. /\ SlotOK(x) /\ x \in SlotType /\ SchoolKnows(run) /\ OneBusy /\ desk.pc = "idle"
      /\ run \in RunType /\ x.pc = "start"
  BY <1>1, SerialHas DEF ExecuteStart
<1>3. PICK pc \in {"reclaim", "claim"} : pc = IF run.status = "RUNNING" THEN "reclaim" ELSE "claim"
  OBVIOUS
<1>4. PICK y : y = [x EXCEPT !.pc = pc, !.seen = run, !.src = year.src, !.plan = run.plan]
  OBVIOUS
<1>5. y.pc = pc /\ y.seen = run /\ y.src = year.src /\ y.plan = run.plan
  BY <1>2, <1>4 DEF SlotType
<1>6. MayExecute(run) /\ run.plan # None /\ run.plan = CurrentPlan
  BY DEF ExecuteStart, Executable
<1>7. /\ DOMAIN run.plan = {s \in Students : pupil[s].status = "ACTIVE"}
      /\ \A s \in DOMAIN run.plan : run.plan[s] = EvaluateStudent(pupil[s])
  BY <1>6 DEF CurrentPlan
<1>8. run.status \in {"PREVIEW", "FAILED"} \/ (run.status = "RUNNING" /\ run.stale = TRUE)
  <2>1. run.stale \in BOOLEAN
    BY <1>2 DEF RunType
  <2> QED BY Zenon, <1>6, <2>1 DEF MayExecute
<1>9. undoing # TRUE
  BY <1>2, <1>8 DEF SchoolKnows, RecordKnows, Steady
<1>10. Fresh
  <2>1. CASE run.made # None
    BY <1>2, <2>1 DEF SchoolKnows, PreviewKnows
  <2>2. CASE run.made = None
    BY <1>2, <1>6, <1>7, <2>2 DEF SchoolKnows, PreviewKnows, Marked, Fresh, Steady
  <2> QED BY <2>1, <2>2
<1>11. PlanKnows(y, run)
  BY <1>2, <1>5, <1>6, <1>7, <1>9, <1>10, PlacesAre
     DEF PlanKnows, SchoolKnows, PreviewKnows, StepsKnow
<1>12. ClaimKnows(y, run)
  BY <1>3, <1>5, <1>7, <1>8 DEF ClaimKnows
<1>13. SlotKnows(y, run)
  BY <1>5, <1>11, <1>12, PlacesAre DEF SlotKnows
<1>14. PICK r : r = run
  OBVIOUS
<1>15. /\ Becomes(w, y) /\ run' = r /\ desk' = desk
       /\ UNCHANGED <<year, pupil, rows, alumni, applied, world, ghost>>
  BY <1>1, <1>3, <1>4, <1>14 DEF ExecuteStart, school
<1> QED BY <1>1, <1>2, <1>13, <1>14, <1>15, RunMoves DEF Serial

-----------------------------------------------------------------------------
(* The steps that write nothing to the school.                             *)

LEMMA BeginSerial ==
    ASSUME NEW w, Serial(w), Begin(w)
    PROVE  SerialInv'
<1>1. PICK x : x = ex[w]
  OBVIOUS
<1>2. /\ SlotOK(x) /\ x \in SlotType /\ SchoolKnows(run) /\ OneBusy /\ desk.pc = "idle"
      /\ PlanKnows(x, run) /\ ClaimKnows(x, run) /\ x.pc = "begin" /\ run \in RunType
  BY <1>1, SerialHas, PlacesAre DEF Begin
<1>3. x.plan \in PlanType /\ x.plan # None /\ run.done \in SUBSET Steps
  BY <1>2, PlacesAre, NullIsNothing DEF SlotOK, RunType
<1>4. /\ run.plan = x.plan /\ x.seen.done = run.done /\ x.seen.made = run.made
      /\ run.status = "RUNNING" /\ \A s \in DOMAIN x.plan : pupil[s].status = "ACTIVE"
  BY <1>2 DEF ClaimKnows
<1>5. PICK made : made = IF run.made = None THEN NothingMade(x.src) ELSE run.made
  OBVIOUS
<1>6. PICK y : y = [x EXCEPT !.pc = NextStep(run.done), !.seen = None, !.done = run.done,
                             !.made = made]
  OBVIOUS
<1>7. /\ y.pc = NextStep(run.done) /\ y.done = run.done /\ y.made = made
      /\ y.plan = x.plan /\ y.src = x.src
  BY <1>2, <1>6 DEF SlotType
<1>8. /\ y.pc \in Acting /\ y.pc \notin y.done /\ Need(y.pc) \subseteq y.done
      /\ y.pc \in Steps \union {"finish"}
      /\ run.done = {} => y.pc = "close-source"
  BY <1>3, <1>7, NextStepFits
<1>9. y.pc \in {"close-source", "create-classes", "copy-curriculum", "graduate", "promote",
                "ppdb-enroll", "set-current", "finish"}
  BY <1>8, StepsAre
<1>10. PlanKnows(y, run)
  BY <1>2, <1>7 DEF PlanKnows
<1>11. AllRecorded(run.made)
  BY <1>2, <1>3, <1>4, OthersRecorded DEF PlanKnows
<1>12. MadeOK(made) /\ AllRecorded(made)
  <2>1. CASE run.made # None
    BY <1>2, <1>5, <1>11, <2>1 DEF SchoolKnows, PreviewKnows
  <2>2. CASE run.made = None
    <3>1. run.done = {} /\ \A s \in Students : ~Marked(s)
      BY <1>2, <2>2 DEF SchoolKnows, PreviewKnows
    <3>2. year.cur # "tgt" /\ x.src # "CLOSED"
      BY <1>2, <3>1, PlacesAre DEF SchoolKnows, StepsKnow, PlanKnows
    <3>3. year.cur = "src"
      BY <3>2 DEF Serial, TypeInv, RolloverTypeOK
    <3>4. MadeOK(made)
      BY <1>5, <2>2, <3>2, <3>3 DEF NothingMade, MadeOK
    <3> QED BY <3>1, <3>4 DEF AllRecorded, Steady
  <2> QED BY <2>1, <2>2
<1>13. ActingKnows(y, run)
  <2>1. MarkedByNow(y) /\ TodoKnows(y)
    BY <1>4, <1>7, <1>9 DEF MarkedByNow, TodoKnows
  <2>2. run.made = None => y.pc = "close-source"
    BY <1>2, <1>8 DEF SchoolKnows, PreviewKnows
  <2>3. DoneOK(y.done)
    BY <1>2, <1>7 DEF SchoolKnows, StepsKnow, PlanKnows
  <2>4. run.made = None => "create-classes" \notin run.done /\ y.pc # "finish"
    BY <1>2, <1>9, <2>2 DEF SchoolKnows, PreviewKnows
  <2>5. run.made # None => y.made = run.made
    BY <1>5, <1>7
  <2> QED BY <1>4, <1>7, <1>8, <1>12, <2>1, <2>2, <2>3, <2>4, <2>5 DEF ActingKnows
<1>14. SlotKnows(y, run)
  BY <1>8, <1>9, <1>10, <1>13 DEF SlotKnows
<1>15. PICK r : r = run
  OBVIOUS
<1>16. /\ Becomes(w, y) /\ run' = r /\ desk' = desk
       /\ UNCHANGED <<year, pupil, rows, alumni, applied, world, ghost>>
  BY <1>1, <1>4, <1>5, <1>6, <1>15 DEF Begin, school
<1> QED BY <1>1, <1>2, <1>14, <1>15, <1>16, RunMoves DEF Serial

\* A slot whose step is done.
LEMMA DoneFields ==
    ASSUME NEW x \in SlotType, NEW done
    PROVE  [x EXCEPT !.pc = "persist", !.done = done, !.todo = {}]
              = [pc |-> "persist", via |-> x.via, seen |-> x.seen, src |-> x.src,
                 plan |-> x.plan, done |-> done, made |-> x.made, todo |-> {}]
<1>1. [x EXCEPT !.pc = "persist"]
         = [pc |-> "persist", via |-> x.via, seen |-> x.seen, src |-> x.src,
            plan |-> x.plan, done |-> x.done, made |-> x.made, todo |-> x.todo]
  BY DEF SlotType
<1>2. PICK y : y = [x EXCEPT !.pc = "persist", !.done = done, !.todo = {}]
  OBVIOUS
<1>3. y = [[pc |-> "persist", via |-> x.via, seen |-> x.seen, src |-> x.src,
            plan |-> x.plan, done |-> x.done, made |-> x.made, todo |-> x.todo]
              EXCEPT !.done = done, !.todo = {}]
  BY <1>1, <1>2
<1>4. y = [pc |-> "persist", via |-> x.via, seen |-> x.seen, src |-> x.src,
           plan |-> x.plan, done |-> done, made |-> x.made, todo |-> {}]
  BY <1>3
<1> QED BY <1>2, <1>4

\* What is known after a step, given that the step has done its work.
LEMMA StepIsDone ==
    ASSUME NEW x, NEW r, SlotOK(x), x.pc \in Acting, x.pc # "persist", PlanKnows(x, r),
           ActingKnows(x, r), NEW step \in Steps, NEW y,
           y.pc = "persist", y.done = x.done \union {step}, y.plan = x.plan, y.src = x.src,
           y.made.classes = x.made.classes, MadeOK(y.made), AllRecorded(y.made),
           DoneOK(y.done),
           x.pc = "graduate-log" => step = "graduate",
           x.pc = "promote-mark" => step = "promote"
    PROVE  SlotKnows(y, r)
<1>1. PlanKnows(y, r)
  BY DEF PlanKnows
<1>2. MarkedByNow(y)
  BY DEF ActingKnows, MarkedByNow
<1>3. TodoKnows(y)
  BY DEF TodoKnows
<1>4. Need(y.pc) = {}
  BY DEF Need
<1>5. x.done = r.done
  BY DEF ActingKnows
<1>6. "persist" # step /\ "persist" \notin x.done
  BY StepsAre DEF SlotOK, SlotType
<1>7. ActingKnows(y, r)
  BY <1>2, <1>3, <1>4, <1>5, <1>6 DEF ActingKnows
<1> QED BY <1>1, <1>7, PlacesAre DEF SlotKnows

\* A step ends: nothing moves but the slot.
LEMMA StepSerial ==
    ASSUME NEW w, Serial(w), NEW step \in Steps, StepDone(w, step),
           ex[w].pc \in Acting, ex[w].pc # "persist",
           DoneOK(ex[w].done \union {step}),
           ex[w].pc = "graduate-log" => step = "graduate",
           ex[w].pc = "promote-mark" => step = "promote",
           run' = run, desk' = desk, UNCHANGED <<year, pupil, rows, alumni, applied, world, ghost>>
    PROVE  SerialInv'
<1>1. PICK x : x = ex[w]
  OBVIOUS
<1>2. /\ SlotOK(x) /\ x \in SlotType /\ SchoolKnows(run) /\ OneBusy /\ desk.pc = "idle"
      /\ PlanKnows(x, run) /\ ActingKnows(x, run) /\ x.pc # "idle"
  BY <1>1, SerialHas, PlacesAre
<1>3. PICK done : done = x.done \union {step}
  OBVIOUS
<1>4. PICK y : y = [x EXCEPT !.pc = "persist", !.done = done, !.todo = {}]
  OBVIOUS
<1>5. y.pc = "persist" /\ y.done = done /\ y.plan = x.plan /\ y.src = x.src /\ y.made = x.made
  <2>1. y = [pc |-> "persist", via |-> x.via, seen |-> x.seen, src |-> x.src,
             plan |-> x.plan, done |-> done, made |-> x.made, todo |-> {}]
    BY <1>2, <1>4, DoneFields
  <2> QED BY <2>1
<1>6. SlotKnows(y, run)
  <2>1. MadeOK(y.made) /\ AllRecorded(y.made) /\ y.made.classes = x.made.classes
    BY <1>2, <1>5 DEF ActingKnows
  <2> QED BY <1>1, <1>2, <1>3, <1>5, <2>1, StepIsDone
<1>7. PICK r : r = run
  OBVIOUS
<1>8. Becomes(w, y) /\ run' = r
  BY <1>1, <1>3, <1>4, <1>7 DEF StepDone
<1> QED BY <1>1, <1>2, <1>6, <1>7, <1>8, RunMoves DEF Serial

\* Whoever the dry-run named is planned as it said, or was marked as it said.
LEMMA NamedOrMarked ==
    ASSUME NEW x, NEW r, PlanKnows(x, r), PreviewKnows(r), NEW s \in Students,
           shown[s] # None
    PROVE  \/ s \in DOMAIN x.plan /\ x.plan[s] = shown[s]
           \/ pupil[s].status = shown[s].action
BY OthersMarked DEF PlanKnows

LEMMA EmptySerial ==
    ASSUME NEW w, Serial(w),
           \/ ClassesCreated(w) \/ CopyCurriculum(w) \/ NothingToDo(w) \/ GraduateLog(w)
           \/ PromoteMarked(w)
    PROVE  SerialInv'
<1>1. PICK x : x = ex[w]
  OBVIOUS
<1>2. x.pc \in {"create-classes", "copy-curriculum", "graduate", "promote", "ppdb-enroll",
                "graduate-log", "promote-mark"}
  BY <1>1 DEF ClassesCreated, CopyCurriculum, NothingToDo, GraduateLog, PromoteMarked
<1>3. x.pc \in Acting /\ x.pc # "persist" /\ x.pc \in Planning
  BY <1>2, PlacesAre
<1>4. /\ SlotOK(x) /\ PlanKnows(x, run) /\ ActingKnows(x, run) /\ PreviewKnows(run)
  BY <1>1, <1>3, SerialHas DEF SchoolKnows
<1>5. PICK step \in Steps : /\ StepDone(w, step)
                            /\ x.pc = "graduate-log" => step = "graduate"
                            /\ x.pc = "promote-mark" => step = "promote"
                            /\ x.pc \in Steps => step = x.pc
  BY <1>1, <1>2, StepsAre
     DEF ClassesCreated, CopyCurriculum, NothingToDo, GraduateLog, PromoteMarked
<1>6. /\ run' = run /\ desk' = desk
      /\ UNCHANGED <<year, pupil, rows, alumni, applied, world, ghost>>
  BY DEF ClassesCreated, CopyCurriculum, NothingToDo, GraduateLog, PromoteMarked, school
<1>7. DoneOK(x.done)
  BY <1>4 DEF ActingKnows
<1>8. ASSUME step = "graduate" PROVE GraduatesDone
  <2>1. \A s \in Planned(x.plan, {"GRADUATED"}) : pupil[s].status = "GRADUATED"
    <3>1. CASE x.pc = "graduate-log"
      BY <1>4, <3>1 DEF ActingKnows, TodoKnows
    <3>2. CASE x.pc = "graduate"
      BY <1>1, <3>2 DEF ClassesCreated, CopyCurriculum, NothingToDo, GraduateLog, PromoteMarked,
                        Concerned
    <3> QED BY <1>2, <1>5, <1>8, <3>1, <3>2, StepsAre
  <2> QED BY <1>4, <2>1, NamedOrMarked DEF GraduatesDone, Planned, Steady
<1>9. ASSUME step = "promote" PROVE PromotesDone
  <2>1. \A s \in Planned(x.plan, Placing) : pupil[s].status = x.plan[s].action
    <3>1. CASE x.pc = "promote-mark"
      <4>1. x.todo = {}
        BY <1>1, <3>1 DEF ClassesCreated, CopyCurriculum, NothingToDo, GraduateLog, PromoteMarked
      <4> QED BY <1>4, <3>1, <4>1 DEF ActingKnows, TodoKnows
    <3>2. CASE x.pc = "promote"
      BY <1>1, <3>2 DEF ClassesCreated, CopyCurriculum, NothingToDo, GraduateLog, PromoteMarked,
                        Concerned, Placing
    <3> QED BY <1>2, <1>5, <1>9, <3>1, <3>2, StepsAre
  <2> QED BY <1>4, <2>1, NamedOrMarked DEF PromotesDone, Planned, Steady
<1>10. ASSUME step = "ppdb-enroll" PROVE PpdbDone
  <2>1. x.pc = "ppdb-enroll"
    BY <1>2, <1>5, <1>10, StepsAre
  <2>2. {a \in placeable : applied[a] = "SELECTED"} = {}
    BY <1>1, <2>1 DEF ClassesCreated, CopyCurriculum, NothingToDo, GraduateLog, PromoteMarked,
                      Concerned
  <2> QED BY <2>2 DEF PpdbDone, Serial, TypeInv, RolloverTypeOK
<1>11. DoneOK(x.done \union {step})
  BY <1>7, <1>8, <1>9, <1>10 DEF DoneOK
<1> QED BY <1>1, <1>3, <1>5, <1>6, <1>11, StepSerial

-----------------------------------------------------------------------------
(* The record of what was made grows.                                      *)

LEMMA RecordGrows ==
    ASSUME NEW made, NEW more, more # None, DOMAIN made.before \subseteq DOMAIN more.before,
           made.rows \subseteq more.rows, made.alumni \subseteq more.alumni
    PROVE  /\ \A s : Recorded(made, s) => Recorded(more, s)
           /\ AllRecorded(made) => AllRecorded(more)
BY DEF Recorded, AllRecorded, Steady

\* What is known after an execution has noted what it made.
LEMMA NotedIsKnown ==
    ASSUME NEW x, NEW r, x.pc \in Acting \ {"persist", "finish"}, PlanKnows(x, r),
           ActingKnows(x, r), NEW y, y.pc \in Acting \ {"persist", "finish"},
           y.plan = x.plan, y.src = x.src, y.done = x.done,
           Need(y.pc) = Need(x.pc), y.pc \notin x.done,
           r.made = None => y.pc = "close-source",
           MadeOK(y.made), AllRecorded(y.made),
           "create-classes" \in r.done => y.made.classes = x.made.classes,
           MarkedByNow(y), TodoKnows(y)
    PROVE  SlotKnows(y, r)
<1>1. PlanKnows(y, r)
  BY DEF PlanKnows
<1>2. ActingKnows(y, r)
  BY DEF ActingKnows
<1> QED BY <1>1, <1>2, PlacesAre DEF SlotKnows

LEMMA MadeParts ==
    ASSUME NEW m \in MadeType
    PROVE  /\ \A R : [m EXCEPT !.rows = R] = [classes |-> m.classes, rows |-> R,
                  alumni |-> m.alumni, before |-> m.before, src |-> m.src, cur |-> m.cur]
           /\ \A A, B : [m EXCEPT !.alumni = A, !.before = B] = [classes |-> m.classes,
                  rows |-> m.rows, alumni |-> A, before |-> B, src |-> m.src, cur |-> m.cur]
           /\ \A R, B : [m EXCEPT !.rows = R, !.before = B] = [classes |-> m.classes,
                  rows |-> R, alumni |-> m.alumni, before |-> B, src |-> m.src, cur |-> m.cur]
           /\ \A C : [m EXCEPT !.classes = C] = [classes |-> C, rows |-> m.rows,
                  alumni |-> m.alumni, before |-> m.before, src |-> m.src, cur |-> m.cur]
           /\ \A y : [m EXCEPT !.src = y] = [classes |-> m.classes, rows |-> m.rows,
                  alumni |-> m.alumni, before |-> m.before, src |-> y, cur |-> m.cur]
<1>1. ASSUME NEW R PROVE [m EXCEPT !.rows = R] = [classes |-> m.classes, rows |-> R,
                  alumni |-> m.alumni, before |-> m.before, src |-> m.src, cur |-> m.cur]
  BY DEF MadeType
<1>2. ASSUME NEW A PROVE [m EXCEPT !.alumni = A] = [classes |-> m.classes, rows |-> m.rows,
                  alumni |-> A, before |-> m.before, src |-> m.src, cur |-> m.cur]
  BY DEF MadeType
<1>3. ASSUME NEW A, NEW B
      PROVE  [m EXCEPT !.alumni = A, !.before = B] = [classes |-> m.classes,
                  rows |-> m.rows, alumni |-> A, before |-> B, src |-> m.src, cur |-> m.cur]
  <2>1. [m EXCEPT !.alumni = A, !.before = B] = [[classes |-> m.classes, rows |-> m.rows,
           alumni |-> A, before |-> m.before, src |-> m.src, cur |-> m.cur] EXCEPT !.before = B]
    BY <1>2
  <2> QED BY <2>1
<1>4. ASSUME NEW R, NEW B
      PROVE  [m EXCEPT !.rows = R, !.before = B] = [classes |-> m.classes,
                  rows |-> R, alumni |-> m.alumni, before |-> B, src |-> m.src, cur |-> m.cur]
  <2>1. [m EXCEPT !.rows = R, !.before = B] = [[classes |-> m.classes, rows |-> R,
           alumni |-> m.alumni, before |-> m.before, src |-> m.src, cur |-> m.cur]
              EXCEPT !.before = B]
    BY <1>1
  <2> QED BY <2>1
<1>5. ASSUME NEW C PROVE [m EXCEPT !.classes = C] = [classes |-> C, rows |-> m.rows,
                  alumni |-> m.alumni, before |-> m.before, src |-> m.src, cur |-> m.cur]
  BY DEF MadeType
<1>6. ASSUME NEW y PROVE [m EXCEPT !.src = y] = [classes |-> m.classes, rows |-> m.rows,
                  alumni |-> m.alumni, before |-> m.before, src |-> y, cur |-> m.cur]
  BY DEF MadeType
<1> QED BY <1>1, <1>3, <1>4, <1>5, <1>6

\* A slot that has moved on with another record.
LEMMA NotedFields ==
    ASSUME NEW x \in SlotType, NEW pc, NEW made
    PROVE  [x EXCEPT !.pc = pc, !.made = made]
              = [pc |-> pc, via |-> x.via, seen |-> x.seen, src |-> x.src,
                 plan |-> x.plan, done |-> x.done, made |-> made, todo |-> x.todo]
<1>1. [x EXCEPT !.pc = pc]
         = [pc |-> pc, via |-> x.via, seen |-> x.seen, src |-> x.src,
            plan |-> x.plan, done |-> x.done, made |-> x.made, todo |-> x.todo]
  BY DEF SlotType
<1>2. [x EXCEPT !.pc = pc, !.made = made]
         = [[pc |-> pc, via |-> x.via, seen |-> x.seen, src |-> x.src,
             plan |-> x.plan, done |-> x.done, made |-> x.made, todo |-> x.todo]
              EXCEPT !.made = made]
  BY <1>1
<1> QED BY <1>2

LEMMA GraduateReadSerial ==
    ASSUME NEW w, Serial(w), GraduateRead(w)
    PROVE  SerialInv'
<1>1. PICK x : x = ex[w]
  OBVIOUS
<1>2. /\ SlotOK(x) /\ x \in SlotType /\ SchoolKnows(run) /\ OneBusy /\ desk.pc = "idle"
      /\ PlanKnows(x, run) /\ ActingKnows(x, run) /\ x.pc = "graduate-read"
  BY <1>1, SerialHas, PlacesAre DEF GraduateRead
<1>3. PICK m : m = x.made
  OBVIOUS
<1>4. m \in MadeType /\ m # None /\ MadeOK(m) /\ AllRecorded(m)
  BY <1>2, <1>3, PlacesAre, NullIsNothing DEF SlotOK, ActingKnows
<1>5. /\ x.todo = Planned(x.plan, {"GRADUATED"}) /\ \A s \in x.todo : pupil[s].status = "ACTIVE"
      /\ x.todo \subseteq Students
  BY <1>2 DEF ActingKnows, TodoKnows, SlotOK, Marking
<1>6. PICK A, B : /\ A = m.alumni \union {a \in alumni : a.who \in x.todo}
                  /\ B = Remember(m.before, x.todo)
  OBVIOUS
<1>7. DOMAIN B = DOMAIN m.before \union x.todo /\ \A s \in DOMAIN B : B[s] = "ACTIVE"
  <2>1. \A s \in DOMAIN m.before : m.before[s] = "ACTIVE"
    BY <1>4 DEF MadeOK
  <2> QED BY <1>5, <1>6, <2>1 DEF Remember
<1>8. PICK made : made = [m EXCEPT !.alumni = A, !.before = B]
  OBVIOUS
<1>9. made = [classes |-> m.classes, rows |-> m.rows, alumni |-> A, before |-> B, src |-> m.src,
              cur |-> m.cur]
  BY <1>4, <1>8, MadeParts
<1>10. made # None
  <2>1. B \in Remembered /\ A \in SUBSET [who : Students, n : 1..MaxCopies]
    BY <1>4, <1>5, <1>6, RememberedAre DEF Serial, TypeInv, RolloverTypeOK, MadeType, Remembered
  <2> QED BY <1>4, <1>8, <2>1, MadeRemembers, NullIsNothing
<1>11. MadeOK(made) /\ AllRecorded(made) /\ \A s : Recorded(m, s) => Recorded(made, s)
  <2>1. MadeOK(made)
    BY <1>4, <1>7, <1>9 DEF MadeOK
  <2>2. /\ DOMAIN m.before \subseteq DOMAIN made.before /\ m.rows \subseteq made.rows
        /\ m.alumni \subseteq made.alumni
    BY <1>6, <1>7, <1>9
  <2> QED BY <1>4, <1>10, <2>1, <2>2, RecordGrows
<1>12. ASSUME NEW s \in x.todo \ regraded PROVE Recorded(made, s)
  <2>1. s \in Students /\ shown[s].action = "GRADUATED"
    BY <1>2, <1>5, <1>12 DEF PlanKnows, Planned
  <2>2. \A t \in rows : t.who # s
    BY <1>2, <2>1 DEF SchoolKnows, RowsPlaced, Placing, Steady
  <2> QED BY <1>6, <1>7, <1>9, <1>10, <1>12, <2>2 DEF Recorded
<1>13. PICK y : y = [x EXCEPT !.pc = "graduate-mark", !.made = made]
  OBVIOUS
<1>14. y = [pc |-> "graduate-mark", via |-> x.via, seen |-> x.seen, src |-> x.src,
            plan |-> x.plan, done |-> x.done, made |-> made, todo |-> x.todo]
  BY <1>2, <1>13, NotedFields
<1>15. SlotKnows(y, run)
  <2>1. MarkedByNow(y)
    BY <1>2, <1>14 DEF ActingKnows, MarkedByNow
  <2>2. TodoKnows(y)
    BY <1>5, <1>12, <1>14 DEF TodoKnows
  <2>3. Need(y.pc) = Need(x.pc)
    BY <1>2, <1>14 DEF Need
  <2>4. "graduate-mark" \notin x.done
    BY <1>2, StepsAre DEF SlotType
  <2>5. run.made # None
    BY <1>2 DEF ActingKnows
  <2>6. "create-classes" \in run.done => y.made.classes = x.made.classes
    BY <1>3, <1>9, <1>14
  <2> QED BY <1>2, <1>11, <1>14, <2>1, <2>2, <2>3, <2>4, <2>5, <2>6, PlacesAre, NotedIsKnown
<1>16. PICK r : r = run
  OBVIOUS
<1>17. /\ Becomes(w, y) /\ run' = r /\ desk' = desk
       /\ UNCHANGED <<year, pupil, rows, alumni, applied, world, ghost>>
  BY <1>1, <1>3, <1>6, <1>8, <1>13, <1>16 DEF GraduateRead, school
<1> QED BY <1>1, <1>2, <1>15, <1>16, <1>17, RunMoves DEF Serial

LEMMA PromoteReadSerial ==
    ASSUME NEW w, Serial(w), PromoteRead(w)
    PROVE  SerialInv'
<1>1. PICK x : x = ex[w]
  OBVIOUS
<1>2. /\ SlotOK(x) /\ x \in SlotType /\ SchoolKnows(run) /\ OneBusy /\ desk.pc = "idle"
      /\ PlanKnows(x, run) /\ ActingKnows(x, run) /\ x.pc = "promote-read"
  BY <1>1, SerialHas, PlacesAre DEF PromoteRead
<1>3. PICK m : m = x.made
  OBVIOUS
<1>4. m \in MadeType /\ m # None /\ MadeOK(m) /\ AllRecorded(m)
  BY <1>2, <1>3, PlacesAre, NullIsNothing DEF SlotOK, ActingKnows
<1>5. /\ x.todo = Planned(x.plan, Placing) /\ \A s \in x.todo : pupil[s].status = "ACTIVE"
      /\ x.todo \subseteq Students
  BY <1>2 DEF ActingKnows, TodoKnows, SlotOK, Marking
<1>6. PICK R, B : /\ R = m.rows \union {t \in rows : t.who \in x.todo}
                  /\ B = Remember(m.before, x.todo)
  OBVIOUS
<1>7. DOMAIN B = DOMAIN m.before \union x.todo /\ \A s \in DOMAIN B : B[s] = "ACTIVE"
  <2>1. \A s \in DOMAIN m.before : m.before[s] = "ACTIVE"
    BY <1>4 DEF MadeOK
  <2> QED BY <1>5, <1>6, <2>1 DEF Remember
<1>8. PICK made : made = [m EXCEPT !.rows = R, !.before = B]
  OBVIOUS
<1>9. made = [classes |-> m.classes, rows |-> R, alumni |-> m.alumni, before |-> B,
              src |-> m.src, cur |-> m.cur]
  BY <1>4, <1>8, MadeParts
<1>10. made # None
  <2>1. B \in Remembered /\ R \in SUBSET RowType
    BY <1>4, <1>5, <1>6, RememberedAre DEF Serial, TypeInv, RolloverTypeOK, MadeType, Remembered
  <2> QED BY <1>4, <1>8, <2>1, MadeRemembers, NullIsNothing
<1>11. MadeOK(made) /\ AllRecorded(made) /\ \A s : Recorded(m, s) => Recorded(made, s)
  <2>1. MadeOK(made)
    BY <1>4, <1>7, <1>9 DEF MadeOK
  <2>2. /\ DOMAIN m.before \subseteq DOMAIN made.before /\ m.rows \subseteq made.rows
        /\ m.alumni \subseteq made.alumni
    BY <1>6, <1>7, <1>9
  <2> QED BY <1>4, <1>10, <2>1, <2>2, RecordGrows
<1>12. ASSUME NEW s \in x.todo \ regraded PROVE Recorded(made, s)
  <2>1. s \in Students /\ shown[s].action \in Placing
    BY <1>2, <1>5, <1>12 DEF PlanKnows, Planned
  <2>2. \A a \in alumni : a.who # s
    BY <1>2, <2>1 DEF SchoolKnows, AlumniPlaced, Placing, Steady
  <2> QED BY <1>6, <1>7, <1>9, <1>10, <1>12, <2>2 DEF Recorded
<1>13. PICK y : y = [x EXCEPT !.pc = "promote-mark", !.made = made]
  OBVIOUS
<1>14. y = [pc |-> "promote-mark", via |-> x.via, seen |-> x.seen, src |-> x.src,
            plan |-> x.plan, done |-> x.done, made |-> made, todo |-> x.todo]
  BY <1>2, <1>13, NotedFields
<1>15. SlotKnows(y, run)
  <2>1. MarkedByNow(y)
    BY <1>2, <1>14 DEF ActingKnows, MarkedByNow
  <2>2. TodoKnows(y)
    BY <1>5, <1>12, <1>14 DEF TodoKnows
  <2>3. Need(y.pc) = Need(x.pc)
    BY <1>2, <1>14 DEF Need
  <2>4. "promote-mark" \notin x.done
    BY <1>2, StepsAre DEF SlotType
  <2>5. run.made # None
    BY <1>2 DEF ActingKnows
  <2>6. "create-classes" \in run.done => y.made.classes = x.made.classes
    BY <1>3, <1>9, <1>14
  <2> QED BY <1>2, <1>11, <1>14, <2>1, <2>2, <2>3, <2>4, <2>5, <2>6, PlacesAre, NotedIsKnown
<1>16. PICK r : r = run
  OBVIOUS
<1>17. /\ Becomes(w, y) /\ run' = r /\ desk' = desk
       /\ UNCHANGED <<year, pupil, rows, alumni, applied, world, ghost>>
  BY <1>1, <1>3, <1>6, <1>8, <1>13, <1>16 DEF PromoteRead, school
<1> QED BY <1>1, <1>2, <1>15, <1>16, <1>17, RunMoves DEF Serial

LEMMA PpdbReadSerial ==
    ASSUME NEW w, Serial(w), PpdbRead(w)
    PROVE  SerialInv'
<1>1. PICK x : x = ex[w]
  OBVIOUS
<1>2. /\ SlotOK(x) /\ x \in SlotType /\ SchoolKnows(run) /\ OneBusy /\ desk.pc = "idle"
      /\ PlanKnows(x, run) /\ ActingKnows(x, run) /\ x.pc = "ppdb-read"
  BY <1>1, SerialHas, PlacesAre DEF PpdbRead
<1>3. PICK m : m = x.made
  OBVIOUS
<1>4. m \in MadeType /\ m # None /\ MadeOK(m) /\ AllRecorded(m)
  BY <1>2, <1>3, PlacesAre, NullIsNothing DEF SlotOK, ActingKnows
<1>5. PICK R : R = m.rows \union {t \in rows : t.who \in x.todo}
  OBVIOUS
<1>6. PICK made : made = [m EXCEPT !.rows = R]
  OBVIOUS
<1>7. made = [classes |-> m.classes, rows |-> R, alumni |-> m.alumni, before |-> m.before,
              src |-> m.src, cur |-> m.cur]
  BY <1>4, <1>6, MadeParts
<1>8. made # None
  <2>1. R \in SUBSET RowType
    BY <1>4, <1>5 DEF Serial, TypeInv, RolloverTypeOK, MadeType
  <2> QED BY <1>4, <1>6, <2>1, MadeFields, NullIsNothing
<1>9. MadeOK(made) /\ AllRecorded(made)
  <2>1. MadeOK(made)
    BY <1>4, <1>7 DEF MadeOK
  <2>2. /\ DOMAIN m.before \subseteq DOMAIN made.before /\ m.rows \subseteq made.rows
        /\ m.alumni \subseteq made.alumni
    BY <1>5, <1>7
  <2> QED BY <1>4, <1>8, <2>1, <2>2, RecordGrows
<1>10. PICK y : y = [x EXCEPT !.pc = "ppdb-mark", !.made = made]
  OBVIOUS
<1>11. y = [pc |-> "ppdb-mark", via |-> x.via, seen |-> x.seen, src |-> x.src,
            plan |-> x.plan, done |-> x.done, made |-> made, todo |-> x.todo]
  BY <1>2, <1>10, NotedFields
<1>12. SlotKnows(y, run)
  <2>1. MarkedByNow(y)
    BY <1>2, <1>11 DEF ActingKnows, MarkedByNow
  <2>2. TodoKnows(y)
    BY <1>2, <1>11 DEF TodoKnows, ActingKnows
  <2>3. Need(y.pc) = Need(x.pc)
    BY <1>2, <1>11 DEF Need
  <2>4. "ppdb-mark" \notin x.done
    BY <1>2, StepsAre DEF SlotType
  <2>5. run.made # None
    BY <1>2 DEF ActingKnows
  <2>6. "create-classes" \in run.done => y.made.classes = x.made.classes
    BY <1>3, <1>7, <1>11
  <2> QED BY <1>2, <1>9, <1>11, <2>1, <2>2, <2>3, <2>4, <2>5, <2>6, PlacesAre, NotedIsKnown
<1>13. PICK r : r = run
  OBVIOUS
<1>14. /\ Becomes(w, y) /\ run' = r /\ desk' = desk
       /\ UNCHANGED <<year, pupil, rows, alumni, applied, world, ghost>>
  BY <1>1, <1>3, <1>5, <1>6, <1>10, <1>13 DEF PpdbRead, school
<1> QED BY <1>1, <1>2, <1>12, <1>13, <1>14, RunMoves DEF Serial

\* A new class has a key no class of this run has.
LEMMA CreateClassSerial ==
    ASSUME NEW w, Serial(w), CreateClass(w)
    PROVE  SerialInv'
<1>1. PICK x : x = ex[w]
  OBVIOUS
<1>2. /\ SlotOK(x) /\ x \in SlotType /\ SchoolKnows(run) /\ OneBusy /\ desk.pc = "idle"
      /\ PlanKnows(x, run) /\ ActingKnows(x, run) /\ x.pc = "create-classes"
  BY <1>1, SerialHas, PlacesAre DEF CreateClass
<1>3. PICK m : m = x.made
  OBVIOUS
<1>4. m \in MadeType /\ m # None /\ MadeOK(m) /\ AllRecorded(m) /\ x.plan \in PlanType
  BY <1>2, <1>3, PlacesAre, NullIsNothing DEF SlotOK, ActingKnows
<1>5. PICK k \in MissingKeys(x), n \in 1..MaxCopies :
          /\ Becomes(w, [x EXCEPT !.made.classes = @ \union {[key |-> k, n |-> n]}])
  <2>1. PICK k \in MissingKeys(x) :
             LET used == {c.n : c \in {d \in classes : d.key = k}}
                 new  == [key |-> k, n |-> Unused(used)] IN
             /\ Room(used)
             /\ Becomes(w, [x EXCEPT !.made.classes = @ \union {new}])
    BY <1>1 DEF CreateClass
  <2> QED BY <2>1, UnusedIs
<1>6. k \in Keys /\ k \notin ClassKeys(m)
  BY <1>3, <1>4, <1>5, PlannedAre DEF MissingKeys
<1>7. PICK new : new = [key |-> k, n |-> n]
  OBVIOUS
<1>8. PICK C : C = m.classes \union {new}
  OBVIOUS
<1>9. PICK made : made = [m EXCEPT !.classes = C]
  OBVIOUS
<1>10. made = [classes |-> C, rows |-> m.rows, alumni |-> m.alumni, before |-> m.before,
              src |-> m.src, cur |-> m.cur]
  BY <1>4, <1>9, MadeParts
<1>11. made # None
  <2>1. C \in SUBSET ClassIds
    BY <1>4, <1>6, <1>7, <1>8 DEF MadeType, ClassIds
  <2> QED BY <1>4, <1>9, <2>1, MadeFields, NullIsNothing
<1>12. MadeOK(made) /\ AllRecorded(made)
  <2>1. \A c, d \in C : c.key = d.key => c = d
    BY <1>4, <1>6, <1>7, <1>8 DEF MadeOK, ClassKeys
  <2>2. MadeOK(made)
    BY <1>4, <1>10, <2>1 DEF MadeOK
  <2> QED BY <1>4, <1>10, <1>11, <2>2, RecordGrows
<1>13. PICK y : y = [x EXCEPT !.made = made]
  OBVIOUS
<1>14. y = [pc |-> "create-classes", via |-> x.via, seen |-> x.seen, src |-> x.src,
            plan |-> x.plan, done |-> x.done, made |-> made, todo |-> x.todo]
  BY <1>2, <1>13 DEF SlotType
<1>15. SlotKnows(y, run)
  <2>1. MarkedByNow(y)
    BY <1>2, <1>14 DEF ActingKnows, MarkedByNow
  <2>2. TodoKnows(y)
    BY <1>14 DEF TodoKnows
  <2>3. "create-classes" \notin run.done /\ "create-classes" \notin x.done
    BY <1>2 DEF ActingKnows
  <2>4. run.made # None
    BY <1>2 DEF ActingKnows
  <2> QED BY <1>2, <1>12, <1>14, <2>1, <2>2, <2>3, <2>4, PlacesAre, NotedIsKnown
<1>16. PICK r : r = run
  OBVIOUS
<1>17. Becomes(w, y)
  BY <1>3, <1>5, <1>7, <1>8, <1>9, <1>13
<1>18. run' = r /\ desk' = desk /\ UNCHANGED <<year, pupil, rows, alumni, applied, world, ghost>>
  BY <1>16 DEF CreateClass
<1> QED BY <1>1, <1>2, <1>15, <1>16, <1>17, <1>18, RunMoves DEF Serial

-----------------------------------------------------------------------------
(* The years.                                                              *)

\* A year is closed, or becomes the current one, when all that comes before is
\* done.
LEMMA YearKeeps ==
    ASSUME NEW r, SchoolKnows(r), undoing # TRUE,
           UNCHANGED <<pupil, rows, alumni, applied, world, ghost>>, r.status = "RUNNING",
           year'.cur = "tgt" \/ year'.src = "CLOSED" => Before \subseteq r.done
    PROVE  SchoolKnows(r)'
<1>1. UNCHANGED <<pupil, rows, alumni, applied, shown, undoing, regraded, placeable>>
  BY DEF world, ghost
<1>2. PreviewKnows(r)'
  BY <1>1 DEF SchoolKnows, PreviewKnows, Fresh, EachNamed, MarkedAsShown, Marked, Steady
<1>3. RowsPlaced(r)' /\ AlumniPlaced(r)'
  BY <1>1 DEF SchoolKnows, RowsPlaced, AlumniPlaced, Steady
<1>4. StepsKnow(r)'
  BY <1>1 DEF SchoolKnows, StepsKnow, DoneOK, GraduatesDone, PromotesDone, PpdbDone, Steady
<1>5. RecordKnows(r)'
  BY <1>1 DEF SchoolKnows, RecordKnows, Marked, Recorded, AllRecorded, Steady
<1> QED BY <1>2, <1>3, <1>4, <1>5 DEF SchoolKnows

LEMMA CloseSourceSerial ==
    ASSUME NEW w, Serial(w), CloseSource(w)
    PROVE  SerialInv'
<1>1. PICK x : x = ex[w]
  OBVIOUS
<1>2. /\ SlotOK(x) /\ x \in SlotType /\ SchoolKnows(run) /\ OneBusy /\ desk.pc = "idle"
      /\ PlanKnows(x, run) /\ ActingKnows(x, run) /\ x.pc = "close-source"
  BY <1>1, SerialHas, PlacesAre DEF CloseSource
<1>3. PICK m : m = x.made
  OBVIOUS
<1>4. m \in MadeType /\ m # None /\ MadeOK(m) /\ AllRecorded(m) /\ x.src \in YearStatuses
  BY <1>2, <1>3, PlacesAre, NullIsNothing DEF SlotOK, ActingKnows
<1>5. PICK made : made = [m EXCEPT !.src = x.src]
  OBVIOUS
<1>6. made = [classes |-> m.classes, rows |-> m.rows, alumni |-> m.alumni, before |-> m.before,
              src |-> x.src, cur |-> m.cur]
  BY <1>4, <1>5, MadeParts
<1>7. made # None
  BY <1>4, <1>5, MadeFields, NullIsNothing
<1>8. x.src # "CLOSED"
  BY <1>2 DEF PlanKnows, ActingKnows
<1>9. MadeOK(made) /\ AllRecorded(made)
  <2>1. MadeOK(made)
    BY <1>4, <1>6, <1>8 DEF MadeOK
  <2> QED BY <1>4, <1>6, <1>7, <2>1, RecordGrows
<1>10. PICK done : done = x.done \union {"close-source"}
  OBVIOUS
<1>11. PICK y : y = [x EXCEPT !.pc = "persist", !.done = done, !.made = made]
  OBVIOUS
<1>12. y = [pc |-> "persist", via |-> x.via, seen |-> x.seen, src |-> x.src,
            plan |-> x.plan, done |-> done, made |-> made, todo |-> x.todo]
  <2>1. [x EXCEPT !.pc = "persist"]
           = [pc |-> "persist", via |-> x.via, seen |-> x.seen, src |-> x.src,
              plan |-> x.plan, done |-> x.done, made |-> x.made, todo |-> x.todo]
    BY <1>2 DEF SlotType
  <2>2. y = [[pc |-> "persist", via |-> x.via, seen |-> x.seen, src |-> x.src,
              plan |-> x.plan, done |-> x.done, made |-> x.made, todo |-> x.todo]
                EXCEPT !.done = done, !.made = made]
    BY <1>11, <2>1
  <2> QED BY <2>2
<1>13. SlotKnows(y, run)
  <2>1. DoneOK(y.done)
    BY <1>2, <1>10, <1>12 DEF ActingKnows, DoneOK
  <2>2. y.pc = "persist" /\ y.done = x.done \union {"close-source"} /\ y.plan = x.plan
        /\ y.src = x.src /\ y.made = made /\ y.made.classes = x.made.classes
    BY <1>3, <1>6, <1>10, <1>12
  <2> QED BY <1>2, <1>9, <2>1, <2>2, StepIsDone, StepsAre, PlacesAre
<1>14. PICK r : r = run
  OBVIOUS
<1>15. Becomes(w, y)
  BY <1>1, <1>3, <1>5, <1>10, <1>11 DEF CloseSource
<1>16. /\ run' = r /\ desk' = desk /\ UNCHANGED <<pupil, rows, alumni, applied, world, ghost>>
       /\ year'.cur = year.cur /\ year'.src = "CLOSING"
  BY <1>14 DEF CloseSource, Serial, TypeInv, RolloverTypeOK
<1>17. SchoolKnows(r)'
  <2>1. year'.cur = "tgt" \/ year'.src = "CLOSED" => Before \subseteq r.done
    BY <1>2, <1>14, <1>16 DEF SchoolKnows, StepsKnow
  <2> QED BY <1>2, <1>14, <1>16, <2>1, YearKeeps DEF PlanKnows, ActingKnows
<1>18. SlotKnows(y, r)'
  BY <1>13, <1>14, <1>16, SlotStays
<1> QED BY <1>1, <1>2, <1>15, <1>16, <1>17, <1>18, OneMoves DEF Serial

LEMMA SetCurrentSerial ==
    ASSUME NEW w, Serial(w), SetCurrent(w)
    PROVE  SerialInv'
<1>1. PICK x : x = ex[w]
  OBVIOUS
<1>2. x.pc \in {"set-current", "open-target", "close-old"}
  BY <1>1 DEF SetCurrent
<1>3. /\ SlotOK(x) /\ x \in SlotType /\ SchoolKnows(run) /\ OneBusy /\ desk.pc = "idle"
      /\ PlanKnows(x, run) /\ ActingKnows(x, run) /\ x.pc # "idle"
  BY <1>1, <1>2, SerialHas, PlacesAre
<1>4. Before \subseteq x.done /\ x.done = run.done /\ run.status = "RUNNING"
  BY <1>2, <1>3 DEF ActingKnows, Need
<1>5. PICK r : r = run
  OBVIOUS
<1>6. run' = r /\ desk' = desk /\ UNCHANGED <<pupil, rows, alumni, applied, world, ghost>>
  BY <1>5 DEF SetCurrent
<1>7. SchoolKnows(r)'
  BY <1>3, <1>4, <1>5, <1>6, YearKeeps DEF PlanKnows
<1>8. \E y : Becomes(w, y) /\ SlotKnows(y, run)
  <2>1. ASSUME NEW pc \in {"open-target", "close-old"}, Goto(w, pc)
        PROVE  \E y : Becomes(w, y) /\ SlotKnows(y, run)
    <3>1. PICK y : y = [x EXCEPT !.pc = pc]
      OBVIOUS
    <3>2. /\ y.pc = pc /\ y.plan = x.plan /\ y.src = x.src /\ y.done = x.done
          /\ y.made = x.made
      BY <1>3, <3>1, GotoSlot
    <3>3. Becomes(w, y)
      BY <1>1, <2>1, <3>1 DEF Goto
    <3>4. MarkedByNow(y) /\ TodoKnows(y)
      BY <1>2, <1>3, <3>2 DEF ActingKnows, MarkedByNow, TodoKnows
    <3>5. Need(y.pc) = Need(x.pc)
      BY <1>2, <3>2 DEF Need
    <3>6. y.pc \notin x.done
      BY <1>3, <3>2, StepsAre DEF SlotType
    <3>7. run.made # None /\ MadeOK(y.made) /\ AllRecorded(y.made)
          /\ x.pc \in Acting \ {"persist", "finish"} /\ y.pc \in Acting \ {"persist", "finish"}
      BY <1>2, <1>3, <3>2, PlacesAre DEF ActingKnows
    <3>8. SlotKnows(y, run)
      BY <1>3, <3>2, <3>4, <3>5, <3>6, <3>7, NotedIsKnown
    <3> QED BY <3>3, <3>8
  <2>2. CASE x.pc = "close-old" /\ StepDone(w, "set-current")
    <3>1. PICK done : done = x.done \union {"set-current"}
      OBVIOUS
    <3>2. PICK y : y = [x EXCEPT !.pc = "persist", !.done = done, !.todo = {}]
      OBVIOUS
    <3>3. y = [pc |-> "persist", via |-> x.via, seen |-> x.seen, src |-> x.src,
               plan |-> x.plan, done |-> done, made |-> x.made, todo |-> {}]
      BY <1>3, <3>2, DoneFields
    <3>4. Becomes(w, y)
      BY <1>1, <2>2, <3>1, <3>2 DEF StepDone
    <3>5. /\ y.pc = "persist" /\ y.done = x.done \union {"set-current"} /\ y.plan = x.plan
          /\ y.src = x.src /\ y.made = x.made
      BY <3>1, <3>3
    <3>6. DoneOK(y.done) /\ MadeOK(y.made) /\ AllRecorded(y.made)
      BY <1>3, <3>5 DEF ActingKnows, DoneOK
    <3>7. SlotKnows(y, run)
      BY <1>3, <2>2, <3>5, <3>6, StepIsDone, StepsAre, PlacesAre
    <3> QED BY <3>4, <3>7
  <2> QED BY <1>1, <2>1, <2>2 DEF SetCurrent
<1>9. PICK y : Becomes(w, y) /\ SlotKnows(y, run)
  BY <1>8
<1>10. SlotKnows(y, r)'
  BY <1>5, <1>6, <1>9, SlotStays
<1> QED BY <1>1, <1>3, <1>6, <1>7, <1>9, <1>10, OneMoves DEF Serial

-----------------------------------------------------------------------------
(* New rows and new alumni.                                                *)

\* A row that is new is that of a student the plan places, who is still ACTIVE.
NewRow(t, r) == t.who \in Students =>
    /\ r.made # None /\ "create-classes" \in r.done /\ t.class \in r.made.classes
    /\ shown[t.who] # None /\ shown[t.who].action \in Placing
    /\ t.class.key = shown[t.who].key
    /\ pupil[t.who].status = "ACTIVE"

NewAlumnus(a, r) ==
    /\ r.made # None /\ shown[a.who] # None /\ shown[a.who].action = "GRADUATED"
    /\ pupil[a.who].status = "ACTIVE"

LEMMA RowsKeep ==
    ASSUME NEW r, SchoolKnows(r), undoing # TRUE, r.status = "RUNNING",
           UNCHANGED <<year, pupil, applied, world, ghost>>,
           \A t \in rows' : t \in rows \/ NewRow(t, r),
           \A a \in alumni' : a \in alumni \/ NewAlumnus(a, r)
    PROVE  /\ SchoolKnows(r)'
           /\ \A made : AllRecorded(made) => AllRecorded(made)'
<1>1. UNCHANGED <<year, pupil, applied, shown, undoing, regraded, placeable>>
  BY DEF world, ghost
<1>2. PreviewKnows(r)'
  BY <1>1 DEF SchoolKnows, PreviewKnows, Fresh, EachNamed, MarkedAsShown, Marked, Steady
<1>3. RowsPlaced(r)'
  BY <1>1 DEF SchoolKnows, RowsPlaced, NewRow, Steady
<1>4. AlumniPlaced(r)'
  BY <1>1 DEF SchoolKnows, AlumniPlaced, NewAlumnus, Steady
<1>5. StepsKnow(r)'
  BY <1>1 DEF SchoolKnows, StepsKnow, DoneOK, GraduatesDone, PromotesDone, PpdbDone, Steady
<1>6. ASSUME NEW made, NEW s \in Students, Recorded(made, s), Marked(s)
      PROVE  Recorded(made, s)'
  <2>1. \A t \in rows' : t.who = s => t \in rows
    BY <1>6 DEF NewRow, Marked
  <2>2. \A a \in alumni' : a.who = s => a \in alumni
    BY <1>6 DEF NewAlumnus, Marked
  <2> QED BY <1>6, <2>1, <2>2 DEF Recorded
<1>7. \A s \in Students : Marked(s)' = Marked(s)
  BY <1>1 DEF Marked
<1>8. RecordKnows(r)'
  BY <1>1, <1>6, <1>7 DEF SchoolKnows, RecordKnows, Steady
<1>9. \A made : AllRecorded(made) => AllRecorded(made)'
  BY <1>1, <1>6, <1>7 DEF AllRecorded, Steady
<1> QED BY <1>2, <1>3, <1>4, <1>5, <1>8, <1>9 DEF SchoolKnows

\* After the rows are written they are read, for those in `todo'.
LEMMA TodoFields ==
    ASSUME NEW x \in SlotType, NEW pc, NEW todo
    PROVE  [x EXCEPT !.pc = pc, !.todo = todo]
              = [pc |-> pc, via |-> x.via, seen |-> x.seen, src |-> x.src,
                 plan |-> x.plan, done |-> x.done, made |-> x.made, todo |-> todo]
<1>1. [x EXCEPT !.pc = pc]
         = [pc |-> pc, via |-> x.via, seen |-> x.seen, src |-> x.src,
            plan |-> x.plan, done |-> x.done, made |-> x.made, todo |-> x.todo]
  BY DEF SlotType
<1>2. [x EXCEPT !.pc = pc, !.todo = todo]
         = [[pc |-> pc, via |-> x.via, seen |-> x.seen, src |-> x.src,
             plan |-> x.plan, done |-> x.done, made |-> x.made, todo |-> x.todo]
              EXCEPT !.todo = todo]
  BY <1>1
<1> QED BY <1>2

LEMMA ReadingKnows ==
    ASSUME NEW y, NEW r, SlotKnows(y, r),
           y.pc \in {"graduate-read", "promote-read", "ppdb-read"},
           UNCHANGED <<pupil, applied, world, ghost>>, AllRecorded(y.made)'
    PROVE  SlotKnows(y, r)'
<1>1. UNCHANGED <<pupil, applied, shown, undoing, regraded, placeable>>
  BY DEF world, ghost
<1>2. PlanKnows(y, r) => PlanKnows(y, r)'
  BY <1>1 DEF PlanKnows, Fresh, Steady
<1>3. ActingKnows(y, r) => ActingKnows(y, r)'
  <2>1. TodoKnows(y) => TodoKnows(y)'
    BY <1>1 DEF TodoKnows
  <2>2. MarkedByNow(y) => MarkedByNow(y)'
    BY <1>1 DEF MarkedByNow
  <2>3. DoneOK(y.done) => DoneOK(y.done)'
    BY <1>1 DEF DoneOK, GraduatesDone, PromotesDone, PpdbDone, Steady
  <2> QED BY <2>1, <2>2, <2>3 DEF ActingKnows
<1> QED BY <1>2, <1>3, PlacesAre DEF SlotKnows

\* A step begins to write rows for those concerned.
LEMMA CreateSerial ==
    ASSUME NEW w, Serial(w), NEW x, x = ex[w], NEW pc, NEW todo, NEW y, Becomes(w, y),
           y = [pc |-> pc, via |-> x.via, seen |-> x.seen, src |-> x.src, plan |-> x.plan,
                done |-> x.done, made |-> x.made, todo |-> todo],
           \/ /\ x.pc = "graduate" /\ pc = "graduate-read"
              /\ todo = Planned(x.plan, {"GRADUATED"})
           \/ x.pc = "promote" /\ pc = "promote-read" /\ todo = Planned(x.plan, Placing)
           \/ /\ x.pc = "ppdb-enroll" /\ pc = "ppdb-read"
              /\ \A a \in placeable : applied[a] = "SELECTED" => a \in todo,
           run' = run, desk' = desk, UNCHANGED <<year, pupil, applied, world, ghost>>,
           \A t \in rows' : t \in rows \/ NewRow(t, run),
           \A a \in alumni' : a \in alumni \/ NewAlumnus(a, run)
    PROVE  SerialInv'
<1>1. /\ x.pc \in {"graduate", "promote", "ppdb-enroll"}
      /\ pc \in {"graduate-read", "promote-read", "ppdb-read"}
      /\ pc = "graduate-read" => x.pc = "graduate"
      /\ pc = "promote-read" => x.pc = "promote"
      /\ pc = "ppdb-read" => x.pc = "ppdb-enroll"
  OBVIOUS
<1>2. /\ pc = "graduate-read" => todo = Planned(x.plan, {"GRADUATED"})
      /\ pc = "promote-read" => todo = Planned(x.plan, Placing)
      /\ pc = "ppdb-read" => \A a \in placeable : applied[a] = "SELECTED" => a \in todo
  OBVIOUS
<1>3. /\ x.pc \in Acting \ {"persist", "finish"} /\ pc \in Acting \ {"persist", "finish"}
      /\ x.pc # "idle" /\ x.pc \in Planning
  BY <1>1, PlacesAre
<1>4. /\ SlotOK(x) /\ x \in SlotType /\ SchoolKnows(run) /\ OneBusy /\ desk.pc = "idle"
      /\ PlanKnows(x, run) /\ ActingKnows(x, run)
  BY <1>3, SerialHas
<1>5. \A s \in Students : s \in DOMAIN x.plan /\ s \in todo /\ pc # "ppdb-read" =>
           pupil[s].status = "ACTIVE"
  BY <1>2, <1>1, <1>4 DEF ActingKnows, MarkedByNow, Planned
<1>6. x.plan \in PlanType
  BY <1>3, <1>4, PlacesAre DEF SlotOK
<1>7. TodoKnows(y)
  <2>1. pc # "ppdb-read" => \A s \in todo : s \in DOMAIN x.plan /\ s \in Students
    <3>1. CASE pc = "graduate-read"
      BY <1>2, <1>6, <3>1, PlannedAre DEF Planned
    <3>2. CASE pc = "promote-read"
      BY <1>2, <1>6, <3>2, PlannedAre DEF Planned
    <3> QED BY <1>1, <3>1, <3>2
  <2> QED BY <1>2, <1>1, <1>5, <2>1 DEF TodoKnows
<1>8. MarkedByNow(y)
  BY <1>1, <1>4 DEF ActingKnows, MarkedByNow
<1>9. SlotKnows(y, run)
  <2>1. Need(y.pc) = Need(x.pc)
    BY <1>1 DEF Need
  <2>2. y.pc \notin x.done
    BY <1>1, <1>4, StepsAre DEF SlotType
  <2>3. run.made # None /\ MadeOK(y.made) /\ AllRecorded(y.made)
    BY <1>1, <1>4 DEF ActingKnows
  <2>4. y.pc \in Acting \ {"persist", "finish"}
    BY <1>3
  <2> QED BY <1>3, <1>4, <1>7, <1>8, <2>1, <2>2, <2>3, <2>4, NotedIsKnown
<1>10. PICK r : r = run
  OBVIOUS
<1>11. undoing # TRUE /\ run.status = "RUNNING" /\ AllRecorded(y.made)
  BY <1>4 DEF PlanKnows, ActingKnows
<1>12. SchoolKnows(r)' /\ AllRecorded(y.made)'
  BY <1>4, <1>10, <1>11, RowsKeep
<1>13. SlotKnows(y, r)'
  BY <1>1, <1>9, <1>10, <1>12, ReadingKnows
<1> QED BY <1>3, <1>4, <1>10, <1>12, <1>13, OneMoves DEF Serial

LEMMA GraduateCreateSerial ==
    ASSUME NEW w, Serial(w), GraduateCreate(w)
    PROVE  SerialInv'
<1>1. PICK x : x = ex[w]
  OBVIOUS
<1>2. x.pc = "graduate" /\ PlanKnows(x, run) /\ ActingKnows(x, run) /\ SlotOK(x)
  BY <1>1, SerialHas, PlacesAre DEF GraduateCreate
<1>3. Concerned(x) = Planned(x.plan, {"GRADUATED"})
  BY <1>2 DEF Concerned
<1>4. x.plan \in PlanType /\ run.made # None
  BY <1>2, PlacesAre DEF SlotOK, ActingKnows
<1>5. ASSUME NEW s \in Planned(x.plan, {"GRADUATED"}), NEW a, a.who = s
      PROVE  NewAlumnus(a, run)
  <2>1. /\ s \in Students /\ s \in DOMAIN x.plan /\ x.plan[s].action = "GRADUATED"
        /\ x.plan[s] # None
    BY <1>4, <1>5, PlannedAre, NullIsNothing DEF Planned
  <2>2. pupil[s].status = "ACTIVE"
    BY <1>2, <2>1 DEF ActingKnows, MarkedByNow
  <2> QED BY <1>2, <1>4, <1>5, <2>1, <2>2 DEF NewAlumnus, PlanKnows
<1>6. \A a \in alumni' : a \in alumni \/ NewAlumnus(a, run)
  <2>1. \A a \in alumni' : a \in alumni \/ \E s \in Planned(x.plan, {"GRADUATED"}) : a.who = s
    BY <1>1, <1>3 DEF GraduateCreate
  <2> QED BY <1>5, <2>1
<1>7. PICK todo : todo = Planned(x.plan, {"GRADUATED"})
  OBVIOUS
<1>8. PICK y : y = [x EXCEPT !.pc = "graduate-read", !.todo = todo]
  OBVIOUS
<1>9. y = [pc |-> "graduate-read", via |-> x.via, seen |-> x.seen, src |-> x.src,
           plan |-> x.plan, done |-> x.done, made |-> x.made, todo |-> todo]
  BY <1>2, <1>8, TodoFields DEF SlotOK
<1>10. Becomes(w, y)
  BY <1>1, <1>3, <1>7, <1>8 DEF GraduateCreate
<1>11. /\ run' = run /\ desk' = desk /\ rows' = rows
       /\ UNCHANGED <<year, pupil, applied, world, ghost>>
  BY DEF GraduateCreate
<1> QED BY <1>1, <1>2, <1>6, <1>7, <1>9, <1>10, <1>11, CreateSerial

LEMMA PromoteCreateSerial ==
    ASSUME NEW w, Serial(w), PromoteCreate(w)
    PROVE  SerialInv'
<1>1. PICK x : x = ex[w]
  OBVIOUS
<1>2. x.pc = "promote" /\ PlanKnows(x, run) /\ ActingKnows(x, run) /\ SlotOK(x)
  BY <1>1, SerialHas, PlacesAre DEF PromoteCreate
<1>3. Concerned(x) = Planned(x.plan, Placing)
  BY <1>2 DEF Concerned, Placing
<1>4. x.plan \in PlanType /\ run.made # None
  BY <1>2, PlacesAre DEF SlotOK, ActingKnows
<1>5. "create-classes" \in run.done /\ x.made.classes = run.made.classes
  BY <1>2 DEF ActingKnows, Need
<1>6. ASSUME NEW s \in Planned(x.plan, Placing), NEW t, t.who = s, t.class = ClassOf(x, s)
      PROVE  NewRow(t, run)
  <2>1. /\ s \in Students /\ s \in DOMAIN x.plan /\ x.plan[s].action \in Placing
        /\ x.plan[s] # None
    BY <1>4, <1>6, PlannedAre, NullIsNothing DEF Planned
  <2>2. pupil[s].status = "ACTIVE"
    BY <1>2, <2>1 DEF ActingKnows, MarkedByNow
  <2>3. x.plan[s].key \in ClassKeys(x.made)
    BY <1>1, <1>3, <1>6 DEF PromoteCreate, HasClass
  <2>4. \E c \in x.made.classes : c.key = x.plan[s].key
    BY <2>3 DEF ClassKeys
  <2>5. t.class \in x.made.classes /\ t.class.key = x.plan[s].key
    BY <1>6, <2>4 DEF ClassOf
  <2> QED BY <1>2, <1>4, <1>5, <1>6, <2>1, <2>2, <2>5 DEF NewRow, PlanKnows
<1>7. \A t \in rows' : t \in rows \/ NewRow(t, run)
  <2>1. \A t \in rows' : t \in rows \/ \E s \in Planned(x.plan, Placing) :
                                            t.who = s /\ t.class = ClassOf(x, s)
    BY <1>1 DEF PromoteCreate, PromotionRows, Placing
  <2> QED BY <1>6, <2>1
<1>8. PICK todo : todo = Planned(x.plan, Placing)
  OBVIOUS
<1>9. PICK y : y = [x EXCEPT !.pc = "promote-read", !.todo = todo]
  OBVIOUS
<1>10. y = [pc |-> "promote-read", via |-> x.via, seen |-> x.seen, src |-> x.src,
            plan |-> x.plan, done |-> x.done, made |-> x.made, todo |-> todo]
  BY <1>2, <1>9, TodoFields DEF SlotOK
<1>11. Becomes(w, y)
  BY <1>1, <1>3, <1>8, <1>9 DEF PromoteCreate
<1>12. /\ run' = run /\ desk' = desk /\ UNCHANGED <<year, pupil, applied, world, ghost>>
       /\ alumni' = alumni
  BY DEF PromoteCreate
<1> QED BY <1>1, <1>2, <1>7, <1>8, <1>10, <1>11, <1>12, CreateSerial

LEMMA PpdbCreateSerial ==
    ASSUME NEW w, Serial(w), PpdbCreate(w)
    PROVE  SerialInv'
<1>1. PICK x : x = ex[w]
  OBVIOUS
<1>2. x.pc = "ppdb-enroll" /\ x \in SlotType
  BY <1>1, SerialHas DEF PpdbCreate
<1>3. Concerned(x) = {a \in placeable : applied[a] = "SELECTED"}
  BY <1>2 DEF Concerned
<1>4. \A t \in rows' : t \in rows \/ NewRow(t, run)
  <2>1. \A t \in rows' : t \in rows \/ t.who \in Applicants
    BY <1>1, <1>3 DEF PpdbCreate, Serial, TypeInv, RolloverTypeOK
  <2> QED BY <2>1, PeopleAssumption DEF NewRow
<1>5. PICK todo : todo = {a \in placeable : applied[a] = "SELECTED"}
  OBVIOUS
<1>6. PICK y : y = [x EXCEPT !.pc = "ppdb-read", !.todo = todo]
  OBVIOUS
<1>7. y = [pc |-> "ppdb-read", via |-> x.via, seen |-> x.seen, src |-> x.src,
           plan |-> x.plan, done |-> x.done, made |-> x.made, todo |-> todo]
  BY <1>2, <1>6, TodoFields
<1>8. Becomes(w, y)
  BY <1>1, <1>3, <1>5, <1>6 DEF PpdbCreate
<1>9. /\ run' = run /\ desk' = desk /\ UNCHANGED <<year, pupil, applied, world, ghost>>
      /\ alumni' = alumni
  BY DEF PpdbCreate
<1> QED BY <1>1, <1>2, <1>4, <1>5, <1>7, <1>8, <1>9, CreateSerial

-----------------------------------------------------------------------------
(* Students and applicants are marked.                                     *)

\* A status is no ground of a decision.
LEMMA MarkEvaluates ==
    ASSUME RolloverTypeOK, NEW students, NEW status \in Statuses, Mark(students, status)
    PROVE  \A s \in Students : EvaluateStudent(pupil'[s]) = EvaluateStudent(pupil[s])
<1>1. ASSUME NEW s \in Students PROVE EvaluateStudent(pupil'[s]) = EvaluateStudent(pupil[s])
  <2>1. pupil[s] \in Pupils
    BY DEF RolloverTypeOK
  <2>2. PICK p : p = [pupil[s] EXCEPT !.status = status]
    OBVIOUS
  <2>3. p.final = pupil[s].final /\ p.passes = pupil[s].passes /\ p.override = pupil[s].override
    BY <2>1, <2>2 DEF Pupils
  <2>4. pupil'[s] = p \/ pupil'[s] = pupil[s]
    BY <2>2 DEF Mark
  <2> QED BY <2>3, <2>4 DEF EvaluateStudent
<1> QED BY <1>1

\* An execution marks planned students as planned.
LEMMA MarkKeeps ==
    ASSUME RolloverTypeOK, NEW r, SchoolKnows(r), NEW x, PlanKnows(x, r), NEW batch,
           NEW action \in Placing \union {"GRADUATED"}, Mark(batch, action),
           \A s \in batch : /\ s \in Students /\ s \in DOMAIN x.plan
                            /\ x.plan[s] # None /\ x.plan[s].action = action,
           UNCHANGED <<year, rows, alumni, applied, world, ghost>>,
           r.status = "RUNNING", r.made # None
    PROVE  /\ SchoolKnows(r)' /\ PlanKnows(x, r)'
           /\ \A done : DoneOK(done) => DoneOK(done)'
           /\ \A made, s : Recorded(made, s) => Recorded(made, s)'
           /\ \A made : AllRecorded(made) /\ (\A s \in batch \ regraded : Recorded(made, s))
                           => AllRecorded(made)'
           /\ \A s \in Students : pupil'[s].status = IF s \in batch THEN action
                                                     ELSE pupil[s].status
<1>1. /\ UNCHANGED <<year, rows, alumni, applied, shown, undoing, regraded, placeable>>
      /\ undoing # TRUE
  BY DEF world, ghost, PlanKnows
<1>2. action \in Statuses /\ action # "ACTIVE"
  BY DEF Placing, Statuses, Actions
<1>3. \A s \in Students : pupil'[s].status = IF s \in batch THEN action ELSE pupil[s].status
  BY <1>2, MarkedAre
<1>4. \A s \in Students : EvaluateStudent(pupil'[s]) = EvaluateStudent(pupil[s])
  BY <1>2, MarkEvaluates
<1>5. \A s \in batch : s \in Students /\ shown[s] # None /\ shown[s].action = action
  BY DEF PlanKnows
<1>6. Fresh'
  BY <1>1, <1>4 DEF Fresh, PlanKnows, Steady
<1>7. PreviewKnows(r)'
  <2>1. EachNamed => EachNamed'
    BY <1>1, <1>2, <1>3 DEF EachNamed
  <2>2. MarkedAsShown => MarkedAsShown'
    BY <1>1, <1>3, <1>5 DEF MarkedAsShown, Marked
  <2> QED BY <1>1, <1>6, <2>1, <2>2 DEF SchoolKnows, PreviewKnows
<1>8. RowsPlaced(r)' /\ AlumniPlaced(r)'
  BY <1>1 DEF SchoolKnows, RowsPlaced, AlumniPlaced, Steady
<1>9. ASSUME NEW done, DoneOK(done) PROVE DoneOK(done)'
  <2>1. GraduatesDone => GraduatesDone'
    BY <1>1, <1>3, <1>5 DEF GraduatesDone, Steady
  <2>2. PromotesDone => PromotesDone'
    BY <1>1, <1>3, <1>5 DEF PromotesDone, Steady
  <2>3. PpdbDone => PpdbDone'
    BY <1>1 DEF PpdbDone
  <2> QED BY <1>9, <2>1, <2>2, <2>3 DEF DoneOK
<1>10. StepsKnow(r)'
  BY <1>1, <1>9 DEF SchoolKnows, StepsKnow
<1>11. ASSUME NEW made, NEW s, Recorded(made, s) PROVE Recorded(made, s)'
  BY <1>1, <1>11 DEF Recorded
<1>12. \A s \in Students : Marked(s)' => Marked(s) \/ s \in batch
  BY <1>1, <1>3 DEF Marked
<1>13. \A made : AllRecorded(made) /\ (\A s \in batch \ regraded : Recorded(made, s))
                  => AllRecorded(made)'
  BY <1>1, <1>11, <1>12 DEF AllRecorded, Steady
<1>14. RecordKnows(r)'
  <2>1. ASSUME r.plan # None, NEW s \in Steady, Marked(s)', s \notin DOMAIN r.plan
        PROVE  Recorded(r.made, s)'
    <3>1. Marked(s)
      BY <1>12, <2>1 DEF PlanKnows, Steady
    <3> QED BY <1>1, <1>11, <2>1, <3>1 DEF SchoolKnows, RecordKnows, Steady
  <2> QED BY <1>1, <2>1 DEF RecordKnows, Steady
<1>15. PlanKnows(x, r)'
  BY <1>1, <1>2, <1>3, <1>6 DEF PlanKnows
<1> QED BY <1>3, <1>7, <1>8, <1>9, <1>10, <1>11, <1>13, <1>14, <1>15 DEF SchoolKnows

LEMMA GraduateMarkSerial ==
    ASSUME NEW w, Serial(w), GraduateMark(w)
    PROVE  SerialInv'
<1>1. PICK x : x = ex[w]
  OBVIOUS
<1>2. /\ SlotOK(x) /\ x \in SlotType /\ SchoolKnows(run) /\ OneBusy /\ desk.pc = "idle"
      /\ PlanKnows(x, run) /\ ActingKnows(x, run) /\ x.pc = "graduate-mark"
  BY <1>1, SerialHas, PlacesAre DEF GraduateMark
<1>3. x.plan \in PlanType /\ x.plan # None
  BY <1>2, PlacesAre, NullIsNothing DEF SlotOK
<1>4. /\ x.todo = Planned(x.plan, {"GRADUATED"}) /\ \A s \in x.todo \ regraded : Recorded(x.made, s)
      /\ run.status = "RUNNING" /\ run.made # None /\ DoneOK(x.done) /\ AllRecorded(x.made)
  BY <1>2 DEF ActingKnows, TodoKnows
<1>5. \A s \in x.todo : /\ s \in Students /\ s \in DOMAIN x.plan
                        /\ x.plan[s] # None /\ x.plan[s].action = "GRADUATED"
  BY <1>3, <1>4, PlannedAre, NullIsNothing DEF Planned
<1>6. PICK r : r = run
  OBVIOUS
<1>7. PICK batch : batch = x.todo
  OBVIOUS
<1>8. /\ Mark(batch, "GRADUATED") /\ run' = r /\ desk' = desk
      /\ UNCHANGED <<year, rows, alumni, applied, world, ghost>>
  BY <1>1, <1>6, <1>7 DEF GraduateMark
<1>9. /\ SchoolKnows(r)' /\ PlanKnows(x, r)'
      /\ DoneOK(x.done)' /\ AllRecorded(x.made)'
      /\ \A s \in Students : pupil'[s].status = IF s \in batch THEN "GRADUATED"
                                                ELSE pupil[s].status
  <2>1. \A s \in batch : /\ s \in Students /\ s \in DOMAIN x.plan
                         /\ x.plan[s] # None /\ x.plan[s].action = "GRADUATED"
    BY <1>5, <1>7
  <2>2. SchoolKnows(r) /\ PlanKnows(x, r) /\ r.status = "RUNNING" /\ r.made # None
    BY <1>2, <1>4, <1>6
  <2> QED BY <1>4, <1>7, <1>8, <2>1, <2>2, MarkKeeps DEF Serial, TypeInv
<1>10. PICK y : y = [x EXCEPT !.pc = "graduate-log"]
  OBVIOUS
<1>11. /\ y.pc = "graduate-log" /\ y.plan = x.plan /\ y.src = x.src /\ y.done = x.done
       /\ y.made = x.made /\ y.todo = x.todo
  BY <1>2, <1>10, GotoSlot
<1>12. Becomes(w, y)
  BY <1>1, <1>10 DEF GraduateMark, Goto
<1>13. PlanKnows(y, r)'
  BY <1>9, <1>11 DEF PlanKnows
<1>14. MarkedByNow(y)'
  BY <1>2, <1>3, <1>5, <1>7, <1>9, <1>11 DEF ActingKnows, MarkedByNow, Placing, PlanKnows, PlanType
<1>15. TodoKnows(y)'
  BY <1>4, <1>5, <1>7, <1>9, <1>11 DEF TodoKnows
<1>16. ActingKnows(y, r)'
  <2>1. Need(y.pc) \subseteq y.done
    BY <1>2, <1>11 DEF ActingKnows, Need
  <2>2. y.pc \notin y.done
    BY <1>2, <1>11, StepsAre DEF SlotType
  <2>3. /\ r.done \subseteq y.done /\ y.done = r.done /\ MadeOK(y.made)
        /\ "create-classes" \in r.done => y.made.classes = r.made.classes
    BY <1>2, <1>6, <1>11 DEF ActingKnows
  <2> QED BY <1>4, <1>6, <1>9, <1>11, <1>14, <1>15, <2>1, <2>2, <2>3 DEF ActingKnows, MadeOK
<1>17. SlotKnows(y, r)'
  BY <1>11, <1>13, <1>16, PlacesAre DEF SlotKnows
<1> QED BY <1>1, <1>2, <1>8, <1>9, <1>12, <1>17, OneMoves DEF Serial

LEMMA PromoteMarkSerial ==
    ASSUME NEW w, Serial(w), PromoteMark(w)
    PROVE  SerialInv'
<1>1. PICK x : x = ex[w]
  OBVIOUS
<1>2. /\ SlotOK(x) /\ x \in SlotType /\ SchoolKnows(run) /\ OneBusy /\ desk.pc = "idle"
      /\ PlanKnows(x, run) /\ ActingKnows(x, run) /\ x.pc = "promote-mark"
  BY <1>1, SerialHas, PlacesAre DEF PromoteMark
<1>3. x.plan \in PlanType /\ x.plan # None
  BY <1>2, PlacesAre, NullIsNothing DEF SlotOK
<1>4. /\ x.todo \subseteq Planned(x.plan, Placing)
      /\ \A s \in x.todo \ regraded : Recorded(x.made, s)
      /\ \A s \in Planned(x.plan, Placing) \ x.todo : pupil[s].status = x.plan[s].action
      /\ run.status = "RUNNING" /\ run.made # None /\ DoneOK(x.done) /\ AllRecorded(x.made)
  BY <1>2 DEF ActingKnows, TodoKnows
<1>5. PICK action \in Placing :
          LET batch == {s \in x.todo : x.plan[s].action = action}
          IN  Mark(batch, action) /\ Becomes(w, [x EXCEPT !.todo = @ \ batch])
  BY <1>1 DEF PromoteMark, Placing
<1>6. PICK batch : batch = {s \in x.todo : x.plan[s].action = action}
  OBVIOUS
<1>7. \A s \in batch : /\ s \in Students /\ s \in DOMAIN x.plan
                       /\ x.plan[s] # None /\ x.plan[s].action = action
  BY <1>3, <1>4, <1>6, PlannedAre, NullIsNothing DEF Planned
<1>8. PICK r : r = run
  OBVIOUS
<1>9. /\ Mark(batch, action) /\ run' = r /\ desk' = desk
      /\ UNCHANGED <<year, rows, alumni, applied, world, ghost>>
  BY <1>5, <1>6, <1>8 DEF PromoteMark
<1>10. /\ SchoolKnows(r)' /\ PlanKnows(x, r)'
       /\ DoneOK(x.done)' /\ AllRecorded(x.made)'
       /\ regraded' = regraded /\ \A s \in x.todo \ regraded : Recorded(x.made, s)'
       /\ \A s \in Students : pupil'[s].status = IF s \in batch THEN action
                                                 ELSE pupil[s].status
  <2>1. SchoolKnows(r) /\ PlanKnows(x, r) /\ r.status = "RUNNING" /\ r.made # None
    BY <1>2, <1>4, <1>8
  <2>2. /\ SchoolKnows(r)' /\ PlanKnows(x, r)'
        /\ \A done : DoneOK(done) => DoneOK(done)'
        /\ \A made, s : Recorded(made, s) => Recorded(made, s)'
        /\ \A made : AllRecorded(made) /\ (\A s \in batch \ regraded : Recorded(made, s))
                        => AllRecorded(made)'
        /\ \A s \in Students : pupil'[s].status = IF s \in batch THEN action
                                                  ELSE pupil[s].status
    BY <1>7, <1>9, <2>1, MarkKeeps DEF Serial, TypeInv
  <2>3. \A s \in batch \ regraded : Recorded(x.made, s)
    BY <1>4, <1>6
  <2>4. regraded' = regraded
    BY <1>9 DEF ghost
  <2> QED BY <1>4, <2>2, <2>3, <2>4
<1>11. PICK todo : todo = x.todo \ batch
  OBVIOUS
<1>12. PICK y : y = [x EXCEPT !.todo = todo]
  OBVIOUS
<1>13. /\ y.pc = "promote-mark" /\ y.plan = x.plan /\ y.src = x.src /\ y.done = x.done
       /\ y.made = x.made /\ y.todo = todo
  BY <1>2, <1>12 DEF SlotType
<1>14. Becomes(w, y)
  BY <1>5, <1>6, <1>11, <1>12
<1>15. PlanKnows(y, r)'
  BY <1>10, <1>13 DEF PlanKnows
<1>16. MarkedByNow(y)'
  <2>1. \A s \in DOMAIN x.plan : s \in Students
    BY <1>3 DEF PlanType
  <2> QED BY <1>2, <1>7, <1>10, <1>11, <1>13, <2>1 DEF ActingKnows, MarkedByNow, Placing
<1>17. TodoKnows(y)'
  <2>1. y.todo \subseteq Planned(y.plan, Placing) /\ regraded' = regraded
        /\ \A s \in y.todo \ regraded : Recorded(y.made, s)'
    BY <1>4, <1>10, <1>11, <1>13
  <2>2. ASSUME NEW s \in Planned(y.plan, Placing) \ y.todo
        PROVE  pupil'[s].status = y.plan[s].action
    <3>1. s \in Students
      BY <1>3, <1>13, PlannedAre DEF Planned
    <3> QED BY <1>4, <1>7, <1>10, <1>11, <1>13, <2>2, <3>1
  <2> QED BY <1>13, <2>1, <2>2 DEF TodoKnows
<1>18. ActingKnows(y, r)'
  <2>1. Need(y.pc) \subseteq y.done
    BY <1>2, <1>13 DEF ActingKnows
  <2>2. y.pc \notin y.done
    BY <1>2, <1>13 DEF ActingKnows
  <2>3. /\ r.done \subseteq y.done /\ y.done = r.done /\ MadeOK(y.made)
        /\ "create-classes" \in r.done => y.made.classes = r.made.classes
    BY <1>2, <1>8, <1>13 DEF ActingKnows
  <2> QED BY <1>4, <1>8, <1>10, <1>13, <1>16, <1>17, <2>1, <2>2, <2>3 DEF ActingKnows, MadeOK
<1>19. SlotKnows(y, r)'
  BY <1>13, <1>15, <1>18, PlacesAre DEF SlotKnows
<1> QED BY <1>1, <1>2, <1>9, <1>10, <1>14, <1>19, OneMoves DEF Serial

LEMMA PpdbMarkSerial ==
    ASSUME NEW w, Serial(w), PpdbMark(w)
    PROVE  SerialInv'
<1>1. PICK x : x = ex[w]
  OBVIOUS
<1>2. /\ SlotOK(x) /\ x \in SlotType /\ SchoolKnows(run) /\ OneBusy /\ desk.pc = "idle"
      /\ PlanKnows(x, run) /\ ActingKnows(x, run) /\ x.pc = "ppdb-mark"
  BY <1>1, SerialHas, PlacesAre DEF PpdbMark
<1>3. PpdbDone'
  <2>1. \A a \in placeable : a \notin x.todo => applied[a] = "ENROLLED"
    BY <1>2 DEF ActingKnows, TodoKnows, Serial, TypeInv, RolloverTypeOK
  <2>2. placeable' = placeable /\ placeable \subseteq Applicants
    BY DEF PpdbMark, world, Serial, TypeInv, RolloverTypeOK
  <2> QED BY <1>1, <2>1, <2>2 DEF PpdbMark, PpdbDone
<1>4. PICK r : r = run
  OBVIOUS
<1>5. /\ run' = r /\ desk' = desk
      /\ UNCHANGED <<year, pupil, rows, alumni, shown, undoing, regraded, placeable>>
  BY <1>4 DEF PpdbMark, world, ghost
<1>6. \A done : DoneOK(done) => DoneOK(done \union {"ppdb-enroll"})' /\ DoneOK(done)'
  BY <1>3, <1>5 DEF DoneOK, GraduatesDone, PromotesDone, Steady
<1>7. SchoolKnows(r)'
  <2>1. PreviewKnows(r)'
    BY <1>2, <1>4, <1>5 DEF SchoolKnows, PreviewKnows, Fresh, EachNamed, MarkedAsShown, Marked,
                                Steady
  <2>2. RowsPlaced(r)' /\ AlumniPlaced(r)'
    BY <1>2, <1>4, <1>5 DEF SchoolKnows, RowsPlaced, AlumniPlaced, Steady
  <2>3. StepsKnow(r)'
    BY <1>2, <1>4, <1>5, <1>6 DEF SchoolKnows, StepsKnow
  <2>4. RecordKnows(r)'
    BY <1>2, <1>4, <1>5
       DEF SchoolKnows, RecordKnows, Marked, Recorded, AllRecorded, RowsWritten, NothingLeft, Steady
  <2> QED BY <2>1, <2>2, <2>3, <2>4 DEF SchoolKnows
<1>8. PICK done : done = x.done \union {"ppdb-enroll"}
  OBVIOUS
<1>9. PICK y : y = [x EXCEPT !.pc = "persist", !.done = done, !.todo = {}]
  OBVIOUS
<1>10. y = [pc |-> "persist", via |-> x.via, seen |-> x.seen, src |-> x.src,
            plan |-> x.plan, done |-> done, made |-> x.made, todo |-> {}]
  BY <1>2, <1>9, DoneFields
<1>11. Becomes(w, y)
  BY <1>1, <1>8, <1>9 DEF PpdbMark, StepDone
<1>12. PlanKnows(y, r)'
  BY <1>2, <1>4, <1>5, <1>10 DEF PlanKnows, Fresh, Steady
<1>13. ActingKnows(y, r)'
  <2>1. MarkedByNow(y)'
    BY <1>2, <1>5, <1>8, <1>10 DEF ActingKnows, MarkedByNow
  <2>2. TodoKnows(y)'
    BY <1>10 DEF TodoKnows
  <2>3. AllRecorded(y.made)'
    BY <1>2, <1>5, <1>10 DEF ActingKnows, AllRecorded, Marked, Recorded, Steady
  <2>4. DoneOK(y.done)'
    BY <1>2, <1>6, <1>8, <1>10 DEF ActingKnows
  <2>5. Need(y.pc) = {} /\ y.pc = "persist"
    BY <1>10 DEF Need
  <2>6. y.pc \notin y.done
    BY <1>2, <1>8, <1>10, StepsAre DEF SlotType
  <2>7. /\ r.done \subseteq y.done /\ MadeOK(y.made) /\ r.status = "RUNNING"
        /\ "create-classes" \in r.done => y.made.classes = r.made.classes
    BY <1>2, <1>4, <1>8, <1>10 DEF ActingKnows
  <2> QED BY <2>1, <2>2, <2>3, <2>4, <2>5, <2>6, <2>7 DEF ActingKnows, MadeOK
<1>14. SlotKnows(y, r)'
  BY <1>10, <1>12, <1>13, PlacesAre DEF SlotKnows
<1> QED BY <1>1, <1>2, <1>5, <1>7, <1>11, <1>14, OneMoves DEF Serial

-----------------------------------------------------------------------------
(* The operator's requests.                                                *)

OneByOne == TypeInv /\ SerialInv /\ mode = "serial"

LEMMA DeskHas ==
    ASSUME OneByOne
    PROVE  /\ RolloverTypeOK /\ run \in RunType /\ desk \in DeskType /\ DeskOK
           /\ OneBusy /\ SchoolKnows(run) /\ DeskKnows
           /\ desk.pc # "idle" => Quiet
           /\ DeskMayStart => Quiet
<1>1. RolloverTypeOK /\ DeskOK /\ OneBusy /\ SchoolKnows(run) /\ DeskKnows /\ mode = "serial"
  BY DEF OneByOne, TypeInv, SerialInv
<1>2. run \in RunType /\ desk \in DeskType /\ (desk.pc # "idle" => Quiet)
  BY <1>1 DEF RolloverTypeOK, DeskOK, OneBusy
<1>3. DeskMayStart => Quiet
  BY <1>1 DEF DeskMayStart
<1> QED BY <1>1, <1>2, <1>3

\* While no execution runs, only the run, the school and the operator count.
LEMMA DeskMoves ==
    ASSUME TypeInv, Quiet, UNCHANGED ex, SchoolKnows(run)', DeskKnows'
    PROVE  SerialInv'
<1>1. \A v \in Executors : ex'[v].pc = "idle"
  BY DEF Quiet
<1>2. OneBusy'
  BY <1>1 DEF OneBusy, Quiet
<1>3. ASSUME NEW v \in Executors PROVE SlotKnows(ex[v], run)'
  <2>1. PICK y, r : y = ex'[v] /\ r = run'
    OBVIOUS
  <2>2. SlotKnows(y, r)'
    BY <1>1, <2>1, IdleKnows
  <2> QED BY <2>1, <2>2
<1> QED BY <1>2, <1>3 DEF SerialInv

\* A request that writes nothing.
LEMMA DeskReads ==
    ASSUME OneByOne, Quiet, UNCHANGED <<run, school, ex, world, ghost>>, DeskKnows'
    PROVE  SerialInv'
<1>1. PICK r : r = run
  OBVIOUS
<1>2. /\ run' = r
      /\ UNCHANGED <<year, pupil, rows, alumni, applied, placeable, shown, undoing, regraded>>
  BY <1>1 DEF school, world, ghost
<1>3. SchoolKnows(r)'
  BY <1>1, <1>2, DeskHas, SchoolStays
<1>4. SchoolKnows(run)'
  BY <1>2, <1>3
<1> QED BY <1>4, DeskMoves DEF OneByOne

LEMMA ReadsSerial ==
    ASSUME OneByOne, PrecheckRead \/ DryRunRead \/ DeskFails
    PROVE  SerialInv'
<1>1. Quiet /\ UNCHANGED <<run, school, ex, world, ghost>>
  BY DeskHas DEF PrecheckRead, DryRunRead, DeskFails
<1>2. run' = run /\ pupil' = pupil
  BY <1>1 DEF school
<1>3. CASE PrecheckRead
  <2>1. desk'.pc = "precheck" /\ run.status \in {"DRAFT", "PREVIEW", "FAILED"}
    BY <1>3 DEF PrecheckRead, IdleDesk
  <2>2. DeskKnows'
    BY <1>2, <2>1 DEF DeskKnows, Undoing
  <2> QED BY <1>1, <2>2, DeskReads
<1>4. CASE DryRunRead
  <2>1. /\ desk'.pc = "dryrun" /\ desk'.seen = run /\ desk'.plan = CurrentPlan
        /\ run.status = "PREVIEW"
    BY <1>4 DEF DryRunRead, IdleDesk
  <2>2. /\ DOMAIN CurrentPlan = {s \in Students : pupil[s].status = "ACTIVE"}
        /\ \A s \in DOMAIN CurrentPlan : CurrentPlan[s] = EvaluateStudent(pupil[s])
    BY DEF CurrentPlan
  <2>3. PICK plan : plan = CurrentPlan
    OBVIOUS
  <2>4. /\ \A s \in Students : s \in DOMAIN plan <=> pupil'[s].status = "ACTIVE"
        /\ \A s \in DOMAIN plan : plan[s] = EvaluateStudent(pupil'[s])
        /\ desk'.plan = plan
    BY <1>2, <2>1, <2>2, <2>3
  <2>5. DeskKnows'
    BY <1>2, <2>1, <2>4 DEF DeskKnows, Undoing
  <2> QED BY <1>1, <2>5, DeskReads
<1>5. CASE DeskFails
  <2>1. DeskKnows'
    BY <1>5 DEF DeskFails, StopDesk, IdleDesk, DeskKnows, Undoing
  <2> QED BY <1>1, <2>1, DeskReads
<1> QED BY <1>3, <1>4, <1>5

\* A run that is over has its record.
LEMMA DoneHasRecord ==
    ASSUME NEW r, SchoolKnows(r), r.status \in {"DONE", "ROLLED_BACK"}
    PROVE  /\ r.made # None /\ Fresh /\ MadeOK(r.made) /\ RowsWritten(r.made)
           /\ Steps \subseteq r.done
BY StepsAre DEF SchoolKnows, PreviewKnows, RecordKnows, Steady

LEMMA RollbackReadSerial ==
    ASSUME OneByOne, RollbackRead
    PROVE  SerialInv'
<1>1. Quiet /\ UNCHANGED <<run, school, ex, world, ghost>> /\ run.status = "DONE"
  BY DeskHas DEF RollbackRead
<1>2. UNCHANGED <<run, year, pupil, rows, alumni, shown, undoing, regraded, placeable>>
  BY <1>1 DEF school, world, ghost
<1>3. run.made # None /\ RowsWritten(run.made) /\ run \in RunType
  BY <1>1, DeskHas, DoneHasRecord
<1>4. [run EXCEPT !.made = Undone(run)].made = run.made /\ Undone(run) = run.made
  BY <1>3 DEF Undone, RunType
<1>5. desk'.pc = "undo-rows" /\ desk'.seen.made = run.made /\ desk'.left = DOMAIN run.made.before
  BY <1>4 DEF RollbackRead, IdleDesk
<1>6. \A s \in Steady : Marked(s)' => s \in desk'.left
  BY <1>2, <1>3, <1>5 DEF RowsWritten, Marked, Steady
<1>7. \A pc : pc = "undo-rows" => UndoKnows(pc)'
  BY <1>2, <1>6 DEF UndoKnows, Steady
<1>8. DeskKnows'
  BY <1>1, <1>2, <1>5, <1>7 DEF DeskKnows, Undoing, UndoKnows, Steady
<1> QED BY <1>1, <1>8, DeskReads

\* The operator's request ends with another run.
LEMMA DeskCommits ==
    ASSUME OneByOne, Quiet, UNCHANGED ex, desk'.pc = "idle", NEW r, run' = r, SchoolKnows(r)'
    PROVE  SerialInv'
<1>1. DeskKnows'
  BY DEF DeskKnows, Undoing
<1>2. SchoolKnows(run)'
  OBVIOUS
<1> QED BY <1>1, <1>2, DeskMoves DEF OneByOne

LEMMA PrecheckCommitSerial ==
    ASSUME OneByOne, PrecheckCommit
    PROVE  SerialInv'
<1>1. /\ Quiet /\ UNCHANGED ex /\ run.status \in {"DRAFT", "PREVIEW", "FAILED"}
      /\ UNCHANGED <<year, pupil, rows, alumni, applied, placeable, shown, undoing, regraded>>
      /\ desk'.pc = "idle" /\ SchoolKnows(run) /\ run \in RunType
  BY DeskHas DEF PrecheckCommit, DeskKnows, StopDesk, IdleDesk, school, world
<1>2. PICK r : r = [run EXCEPT !.status = "PREVIEW", !.stale = FALSE]
  OBVIOUS
<1>3. r.status = "PREVIEW" /\ r.plan = run.plan /\ r.done = run.done /\ r.made = run.made
  BY <1>1, <1>2, RunStatus
<1>4. RecordKnows(r)
  BY <1>1, <1>3 DEF RecordKnows, SchoolKnows, Steady
<1>5. SchoolKnows(r)
  BY <1>1, <1>3, <1>4, StatusKeeps
<1>6. SchoolKnows(r)' /\ run' = r
  BY <1>1, <1>2, <1>5, SchoolStays DEF PrecheckCommit
<1> QED BY <1>1, <1>6, DeskCommits

\* What the dry-run shows is what it showed, once anything has been made.
LEMMA DryRunCommitSerial ==
    ASSUME OneByOne, DryRunCommit
    PROVE  SerialInv'
<1>1. /\ Quiet /\ UNCHANGED ex
      /\ UNCHANGED <<year, pupil, rows, alumni, applied, placeable, undoing, regraded>>
      /\ desk'.pc = "idle" /\ SchoolKnows(run) /\ run \in RunType /\ RolloverTypeOK
      /\ desk.plan \in PlanType /\ desk.seen = run /\ run.status = "PREVIEW"
  BY DeskHas DEF DryRunCommit, DeskKnows, StopDesk, IdleDesk, school, world, DeskOK
<1>2. PICK plan : plan = desk.plan
  OBVIOUS
<1>3. /\ \A s \in Students : s \in DOMAIN plan <=> pupil[s].status = "ACTIVE"
      /\ run.made # None =>
            \A s \in DOMAIN plan \ regraded : plan[s] = EvaluateStudent(pupil[s])
      /\ plan \in PlanType /\ plan # None /\ \A s \in DOMAIN plan : s \in Students
  BY <1>1, <1>2, DeskHas, NullIsNothing, PlannedAre DEF DryRunCommit, DeskKnows, PlanType
<1>4. \A s \in Students : shown'[s] = IF s \in DOMAIN plan THEN plan[s] ELSE shown[s]
  BY <1>2 DEF DryRunCommit
<1>5. PICK r : r = run'
  OBVIOUS
<1>6. r.status = "PREVIEW" /\ r.plan = plan /\ r.done = run.done /\ r.made = run.made
  <2>1. PICK done, made : done = run.done /\ made = run.made
    OBVIOUS
  <2>2. r = [run EXCEPT !.stale = FALSE, !.plan = plan, !.done = done, !.made = made]
    BY <1>1, <1>2, <1>5, <2>1 DEF DryRunCommit
  <2> QED BY <1>1, <2>1, <2>2 DEF RunType
<1>7. undoing # TRUE
  BY <1>1 DEF SchoolKnows, RecordKnows, Steady
<1>8. CASE run.made = None
  <2>1. run.done = {} /\ \A s \in Students : ~Marked(s)
    BY <1>1, <1>8 DEF SchoolKnows, PreviewKnows
  <2>2. \A s \in Students : ~Marked(s)'
    BY <1>1, <1>3, <1>4, <2>1 DEF Marked
  <2>3. PreviewKnows(r)'
    BY <1>3, <1>4, <1>6, <1>8, <2>1, <2>2 DEF PreviewKnows, MarkedAsShown
  <2>4. (\A t \in rows : t.who \notin Students) /\ alumni = {}
    BY <1>1, <1>8 DEF SchoolKnows, RowsPlaced, AlumniPlaced, Steady
  <2>5. RowsPlaced(r)' /\ AlumniPlaced(r)'
    BY <1>1, <2>4 DEF RowsPlaced, AlumniPlaced, Steady
  <2>6. StepsKnow(r)'
    BY <1>1, <1>6, <2>1 DEF SchoolKnows, StepsKnow, DoneOK
  <2>7. RecordKnows(r)'
    BY <1>1, <1>6, <1>7, <2>2 DEF RecordKnows, AllRecorded, Steady
  <2>8. SchoolKnows(r)'
    BY <2>3, <2>5, <2>6, <2>7 DEF SchoolKnows
  <2> QED BY <1>1, <1>5, <2>8, DeskCommits
<1>9. CASE run.made # None
  <2>1. Fresh /\ EachNamed /\ MadeOK(run.made) /\ MarkedAsShown /\ AllRecorded(run.made)
    BY <1>1, <1>7, <1>9 DEF SchoolKnows, PreviewKnows, RecordKnows, Steady
  <2>2. \A s \in Steady : shown'[s] = shown[s]
    BY <1>3, <1>4, <1>9, <2>1 DEF Fresh, EachNamed, Steady
  <2>3. \A s \in Students : Marked(s)' = Marked(s)
    BY <1>1, <1>3, <1>4, <2>1 DEF EachNamed, Marked
  <2>4. PreviewKnows(r)'
    <3>1. Fresh'
      BY <1>1, <2>1, <2>2 DEF Fresh, Steady
    <3>2. EachNamed'
      <4>1. \A s \in DOMAIN plan : plan[s] # None
        BY <1>3, NullIsNothing DEF PlanType
      <4> QED BY <1>1, <1>3, <1>4, <4>1 DEF EachNamed
    <3>3. MarkedAsShown'
      BY <1>1, <1>3, <1>4, <2>1, <2>3 DEF MarkedAsShown, Marked
    <3>4. \A s \in DOMAIN plan : shown'[s] = plan[s]
      BY <1>3, <1>4
    <3> QED BY <1>6, <1>9, <2>1, <3>1, <3>2, <3>3, <3>4 DEF PreviewKnows, MadeOK
  <2>5. RowsPlaced(r)' /\ AlumniPlaced(r)'
    BY <1>1, <1>6, <2>2 DEF SchoolKnows, RowsPlaced, AlumniPlaced, RolloverTypeOK, Steady
  <2>6. StepsKnow(r)'
    BY <1>1, <1>6, <2>2 DEF SchoolKnows, StepsKnow, DoneOK, GraduatesDone, PromotesDone,
                                PpdbDone, Steady
  <2>7. RecordKnows(r)'
    <3>1. PICK made : made = run.made
      OBVIOUS
    <3>2. AllRecorded(made)'
      BY <1>1, <2>1, <2>3, <3>1 DEF AllRecorded, Recorded, Steady
    <3> QED BY <1>1, <1>6, <1>7, <3>1, <3>2 DEF RecordKnows, AllRecorded, Steady
  <2>8. SchoolKnows(r)'
    BY <2>4, <2>5, <2>6, <2>7 DEF SchoolKnows
  <2> QED BY <1>1, <1>5, <2>8, DeskCommits
<1> QED BY <1>8, <1>9

-----------------------------------------------------------------------------
(* The rollback.                                                           *)

\* What a rollback in progress knows of the run.
LEMMA UndoHas ==
    ASSUME OneByOne, desk.pc \in Undoing
    PROVE  /\ Quiet /\ run.status = "DONE" /\ SchoolKnows(run) /\ RolloverTypeOK
           /\ desk.seen.made = run.made /\ UndoKnows(desk.pc) /\ desk \in DeskType
           /\ MadeOK(run.made) /\ RowsWritten(run.made) /\ Steps \subseteq run.done
           /\ run.made # None /\ Fresh /\ desk.left \subseteq DOMAIN run.made.before
<1>1. /\ Quiet /\ SchoolKnows(run) /\ RolloverTypeOK /\ desk \in DeskType
      /\ run.status = "DONE" /\ desk.seen.made = run.made /\ UndoKnows(desk.pc)
      /\ desk.left \subseteq DOMAIN run.made.before
  BY DeskHas DEF Undoing, DeskKnows, DeskOK
<1> QED BY <1>1, DoneHasRecord

\* Undoing only takes away.
LEMMA UndoKeeps ==
    ASSUME NEW r, SchoolKnows(r), r.status = "DONE", undoing' = TRUE,
           shown' = shown, regraded' = regraded, rows' \subseteq rows, alumni' \subseteq alumni,
           \A s \in Students : EvaluateStudent(pupil'[s]) = EvaluateStudent(pupil[s]),
           \A s \in Students : Marked(s)' => Marked(s)
    PROVE  SchoolKnows(r)'
<1>1. r.made # None /\ Fresh /\ MadeOK(r.made) /\ RowsWritten(r.made) /\ Steps \subseteq r.done
  BY DoneHasRecord
<1>2. PreviewKnows(r)'
  <2>1. Fresh'
    BY <1>1 DEF Fresh, Steady
  <2> QED BY <1>1, <2>1 DEF SchoolKnows, PreviewKnows, MadeOK
<1>3. RowsPlaced(r)' /\ AlumniPlaced(r)'
  BY DEF SchoolKnows, RowsPlaced, AlumniPlaced, Steady
<1>4. StepsKnow(r)'
  BY <1>1, StepsAre DEF StepsKnow, Before
<1>5. RecordKnows(r)'
  <2>1. PICK made : made = r.made
    OBVIOUS
  <2>2. RowsWritten(made)'
    BY <1>1, <2>1 DEF RowsWritten, Steady
  <2> QED BY <1>1, <2>1, <2>2 DEF RecordKnows, RowsWritten, Steady
<1> QED BY <1>2, <1>3, <1>4, <1>5 DEF SchoolKnows

\* A step of the rollback.
LEMMA UndoMovesOn ==
    ASSUME OneByOne, desk.pc \in Undoing, desk'.pc \in Undoing, desk'.seen = desk.seen,
           UNCHANGED <<run, ex, shown, regraded>>, undoing' = TRUE,
           rows' \subseteq rows, alumni' \subseteq alumni,
           \A s \in Students : EvaluateStudent(pupil'[s]) = EvaluateStudent(pupil[s]),
           \A s \in Students : Marked(s)' => Marked(s),
           NEW pc, desk'.pc = pc, UndoKnows(pc)'
    PROVE  SerialInv'
<1>1. PICK r : r = run
  OBVIOUS
<1>2. SchoolKnows(r)'
  BY <1>1, UndoHas, UndoKeeps
<1>3. SchoolKnows(run)'
  BY <1>1, <1>2
<1>4. DeskKnows'
  BY UndoHas DEF DeskKnows, Undoing, UndoKnows, Steady
<1> QED BY <1>3, <1>4, UndoHas, DeskMoves DEF OneByOne

LEMMA UndoRowsSerial ==
    ASSUME OneByOne, UndoRows \/ UndoClasses \/ UndoAlumni
    PROVE  SerialInv'
<1>1. desk.pc \in {"undo-rows", "undo-classes", "undo-alumni"} /\ desk.pc \in Undoing
  BY DEF UndoRows, UndoClasses, UndoAlumni, Step, Undoing
<1>2. /\ UndoKnows(desk.pc) /\ RowsWritten(run.made) /\ desk.seen.made = run.made
      /\ desk \in DeskType /\ \A a \in alumni : a.who \in Steady => a \in run.made.alumni
  BY <1>1, UndoHas DEF RowsWritten, Steady
<1>3. UNCHANGED <<run, ex, shown, regraded, pupil, year>> /\ undoing' = TRUE
  BY <1>2 DEF UndoRows, UndoClasses, UndoAlumni, Step, UndoKnows, ghost, Steady
<1>4. rows' \subseteq rows /\ alumni' \subseteq alumni
  BY DEF UndoRows, UndoClasses, UndoAlumni
<1>5. \A s \in Students : Marked(s)' = Marked(s)
  BY <1>3 DEF Marked
<1>6. PICK pc \in Undoing : /\ Step(desk.pc, pc)
                            /\ pc \in {"undo-classes", "undo-alumni", "undo-statuses"}
                            /\ (desk.pc = "undo-rows" => UndoRows)
                            /\ (desk.pc = "undo-alumni" => UndoAlumni)
                            /\ (pc = "undo-statuses" => desk.pc = "undo-alumni")
  BY DEF UndoRows, UndoClasses, UndoAlumni, Step, Undoing
<1>7. desk'.pc = pc /\ desk'.seen = desk.seen /\ desk'.left = desk.left
  BY <1>2, <1>6, DeskFields DEF Step
<1>8. \A t \in rows' : t.who \notin Steady
  <2>1. CASE desk.pc = "undo-rows"
    BY <1>2, <1>6, <2>1 DEF UndoRows, RowsWritten, Steady
  <2>2. CASE desk.pc # "undo-rows"
    BY <1>2, <1>4, <2>2 DEF UndoKnows, Steady
  <2> QED BY <2>1, <2>2
<1>9. pc = "undo-statuses" => \A a \in alumni' : a.who \notin Steady
  BY <1>2, <1>6 DEF UndoAlumni
<1>10. \A s \in Steady : Marked(s)' => s \in desk'.left
  BY <1>1, <1>2, <1>5, <1>7 DEF UndoKnows, Steady
<1>11. UndoKnows(pc)'
  BY <1>3, <1>6, <1>8, <1>9, <1>10 DEF UndoKnows, Steady
<1>12. /\ desk'.pc \in Undoing
       /\ \A s \in Students : EvaluateStudent(pupil'[s]) = EvaluateStudent(pupil[s])
  BY <1>3, <1>7
<1> QED BY <1>1, <1>3, <1>4, <1>5, <1>7, <1>11, <1>12, UndoMovesOn

LEMMA UndoStatusSerial ==
    ASSUME OneByOne, NEW s \in Students, UndoStatus(s)
    PROVE  SerialInv'
<1>1. desk.pc = "undo-statuses" /\ desk.pc \in Undoing /\ s \in desk.left
  BY DEF UndoStatus, Undoing
<1>2. /\ UndoKnows(desk.pc) /\ MadeOK(run.made) /\ desk.seen.made = run.made /\ RolloverTypeOK
      /\ desk \in DeskType /\ desk.left \subseteq DOMAIN run.made.before
  BY <1>1, UndoHas
<1>3. Mark({s}, "ACTIVE") /\ "ACTIVE" \in Statuses
  BY <1>1, <1>2 DEF UndoStatus, MadeOK, Statuses
<1>4. PICK left : left = desk.left \ {s}
  OBVIOUS
<1>5. desk'.pc = "undo-statuses" /\ desk'.seen = desk.seen /\ desk'.left = left
  <2>1. desk' = [desk EXCEPT !.left = left]
    BY <1>4 DEF UndoStatus
  <2>2. left \in SUBSET Students
    BY <1>2, <1>4 DEF DeskType
  <2> QED BY <1>1, <1>2, <2>1, <2>2, DeskFields
<1>6. UNCHANGED <<run, ex, shown, regraded, rows, alumni, year>> /\ undoing' = TRUE
  BY <1>1, <1>2 DEF UndoStatus, UndoKnows, ghost, Steady
<1>7. \A t \in Students : /\ EvaluateStudent(pupil'[t]) = EvaluateStudent(pupil[t])
                          /\ pupil'[t].status = IF t \in {s} THEN "ACTIVE" ELSE pupil[t].status
  BY <1>2, <1>3, MarkedAre, MarkEvaluates
<1>8. \A t \in Students : Marked(t)' => Marked(t) /\ t # s
  BY <1>6, <1>7 DEF Marked
<1>9. PICK pc : pc = "undo-statuses"
  OBVIOUS
<1>10. UndoKnows(pc)'
  BY <1>1, <1>2, <1>4, <1>5, <1>6, <1>8, <1>9 DEF UndoKnows, Steady
<1>11. desk'.pc \in Undoing
  BY <1>5 DEF Undoing
<1> QED BY <1>1, <1>5, <1>6, <1>7, <1>8, <1>9, <1>10, <1>11, UndoMovesOn

LEMMA UndoYearsSerial ==
    ASSUME OneByOne, UndoYears
    PROVE  SerialInv'
<1>1. desk.pc \in {"undo-statuses", "undo-target", "undo-current"} /\ desk.pc \in Undoing
  BY DEF UndoYears, Step, Undoing
<1>2. /\ UndoKnows(desk.pc) /\ MadeOK(run.made) /\ desk.seen.made = run.made /\ RolloverTypeOK
      /\ desk \in DeskType
  BY <1>1, UndoHas
<1>3. UNCHANGED <<run, ex, shown, regraded, rows, alumni, pupil>> /\ undoing' = TRUE
  BY <1>1, <1>2 DEF UndoYears, UndoKnows, ghost, Steady
<1>4. \A s \in Students : Marked(s)' = Marked(s)
  BY <1>3 DEF Marked
<1>5. PICK pc \in Undoing :
          /\ Step(desk.pc, pc)
          /\ \/ /\ desk.pc = "undo-statuses" /\ pc = "undo-target" /\ desk.left = {}
                /\ year'.src = run.made.src
             \/ /\ desk.pc = "undo-target" /\ pc = "undo-current"
                /\ year'.src = year.src /\ year'.tgt = "DRAFT"
             \/ /\ desk.pc = "undo-current" /\ pc = "undo-finish"
                /\ year'.src = year.src /\ year'.tgt = year.tgt /\ year'.cur = "src"
  <2>1. year' = [year EXCEPT !.cur = IF desk.seen.made.cur = None THEN @
                                     ELSE desk.seen.made.cur] => year'.cur = "src"
    BY <1>2, NullAssumption DEF RolloverTypeOK, MadeOK
  <2> QED BY <1>2, <2>1 DEF UndoYears, Step, Undoing, RolloverTypeOK, MadeOK
<1>6. desk'.pc = pc /\ desk'.seen = desk.seen
  BY <1>2, <1>5, DeskFields DEF Step
<1>7. UndoKnows(pc)'
  <2>1. \A t \in rows' : t.who \notin Steady
    BY <1>1, <1>2, <1>3 DEF UndoKnows, Steady
  <2>2. \A a \in alumni' : a.who \notin Steady
    BY <1>1, <1>2, <1>3 DEF UndoKnows, Steady
  <2>3. \A s \in Steady : ~Marked(s)'
    BY <1>1, <1>2, <1>4, <1>5 DEF UndoKnows, Steady
  <2>4. year'.src # "CLOSED"
    BY <1>2, <1>5 DEF UndoKnows, MadeOK, Steady
  <2>5. pc \in {"undo-current", "undo-finish"} => year'.tgt = "DRAFT"
    BY <1>2, <1>5 DEF UndoKnows, Steady
  <2>6. pc = "undo-finish" => year'.cur = "src"
    BY <1>5
  <2>7. pc \in {"undo-target", "undo-current", "undo-finish"}
    BY <1>5
  <2> QED BY <1>3, <2>1, <2>2, <2>3, <2>4, <2>5, <2>6, <2>7 DEF UndoKnows, Steady
<1>8. /\ \A s \in Students : EvaluateStudent(pupil'[s]) = EvaluateStudent(pupil[s])
      /\ rows' \subseteq rows /\ alumni' \subseteq alumni /\ desk'.pc \in Undoing
  BY <1>3, <1>6
<1> QED BY <1>1, <1>3, <1>4, <1>6, <1>7, <1>8, UndoMovesOn

LEMMA UndoFinishSerial ==
    ASSUME OneByOne, UndoFinish
    PROVE  SerialInv'
<1>1. desk.pc = "undo-finish" /\ desk.pc \in Undoing
  BY DEF UndoFinish, Undoing
<1>2. /\ Quiet /\ UndoKnows(desk.pc) /\ SchoolKnows(run) /\ run \in RunType
      /\ run.status = "DONE" /\ RowsWritten(run.made) /\ Steps \subseteq run.done
  BY <1>1, UndoHas, DeskHas
<1>3. PICK r : r = [run EXCEPT !.status = "ROLLED_BACK"]
  OBVIOUS
<1>4. r.status = "ROLLED_BACK" /\ r.plan = run.plan /\ r.done = run.done /\ r.made = run.made
  BY <1>2, <1>3 DEF RunType
<1>5. undoing = TRUE /\ NothingLeft
  BY <1>1, <1>2 DEF UndoKnows, NothingLeft, Steady
<1>6. RecordKnows(r)
  BY <1>2, <1>4, <1>5 DEF RecordKnows, Steady
<1>7. SchoolKnows(r)
  BY <1>2, <1>4, <1>6, StatusKeeps
<1>8. /\ UNCHANGED ex /\ desk'.pc = "idle" /\ run' = r
      /\ UNCHANGED <<year, pupil, rows, alumni, applied, placeable, shown, undoing, regraded>>
  BY <1>3 DEF UndoFinish, StopDesk, IdleDesk, school, world
<1> QED BY <1>2, <1>7, <1>8, SchoolStays, DeskCommits

-----------------------------------------------------------------------------
(* The rest of the school, and every step.                                 *)

\* Nothing moves but the rows of others than the students.
LEMMA OthersMove ==
    ASSUME OneByOne,
           UNCHANGED <<run, year, pupil, alumni, applied, ex, desk, mode, placeable,
                       shown, undoing, regraded>>,
           rows \subseteq rows', \A t \in rows' : t \in rows \/ t.who \notin Students
    PROVE  SerialInv'
<1>1. /\ OneBusy /\ SchoolKnows(run) /\ DeskKnows
      /\ \A w \in Executors : SlotOK(ex[w]) /\ SlotKnows(ex[w], run)
  BY DEF OneByOne, SerialInv, TypeInv
<1>2. \A made : \A s \in Students : Recorded(made, s) => Recorded(made, s)'
  BY DEF Recorded
<1>3. \A s \in Students : Marked(s)' = Marked(s)
  BY DEF Marked
<1>4. \A made : AllRecorded(made) => AllRecorded(made)'
  BY <1>2, <1>3 DEF AllRecorded, Steady
<1>5. PICK r : r = run
  OBVIOUS
<1>6. SchoolKnows(r)'
  <2>1. PreviewKnows(r)'
    BY <1>1, <1>3, <1>5 DEF SchoolKnows, PreviewKnows, Fresh, EachNamed, MarkedAsShown, Steady
  <2>2. RowsPlaced(r)' /\ AlumniPlaced(r)'
    BY <1>1, <1>5 DEF SchoolKnows, RowsPlaced, AlumniPlaced, Steady
  <2>3. StepsKnow(r)'
    BY <1>1, <1>5 DEF SchoolKnows, StepsKnow, DoneOK, GraduatesDone, PromotesDone, PpdbDone, Steady
  <2>4. RowsWritten(r.made) => RowsWritten(r.made)'
    BY <1>3 DEF RowsWritten, Steady
  <2>5. NothingLeft => NothingLeft'
    BY <1>3 DEF NothingLeft, Steady
  <2>6. RecordKnows(r)'
    BY <1>1, <1>2, <1>3, <1>4, <1>5, <2>4, <2>5 DEF SchoolKnows, RecordKnows, Steady
  <2> QED BY <2>1, <2>2, <2>3, <2>6 DEF SchoolKnows
<1>7. OneBusy'
  BY <1>1 DEF OneBusy, Quiet
<1>8. DeskKnows'
  <2>1. \A pc : UndoKnows(pc) => UndoKnows(pc)'
    BY <1>3 DEF UndoKnows, Steady
  <2>2. PICK pc : pc = desk.pc
    OBVIOUS
  <2>3. UndoKnows(pc) => UndoKnows(pc)'
    BY <2>1
  <2> QED BY <1>1, <2>2, <2>3 DEF DeskKnows, UndoKnows, Steady
<1>9. ASSUME NEW w \in Executors PROVE SlotKnows(ex[w], run)'
  <2>1. PICK x : x = ex[w]
    OBVIOUS
  <2>2. SlotOK(x) /\ SlotKnows(x, r)
    BY <1>1, <1>5, <2>1
  <2>3. PlanKnows(x, r) => PlanKnows(x, r)'
    BY DEF PlanKnows, Fresh, Steady
  <2>4. ClaimKnows(x, r) => ClaimKnows(x, r)'
    BY DEF ClaimKnows
  <2>5. ActingKnows(x, r) => ActingKnows(x, r)'
    <3>1. TodoKnows(x) => TodoKnows(x)'
      <4>1. x.pc \in {"graduate-mark", "promote-mark"} => x.todo \subseteq Students
        BY <2>2 DEF SlotOK, Marking
      <4> QED BY <1>2, <4>1 DEF TodoKnows
    <3>2. MarkedByNow(x) => MarkedByNow(x)'
      BY DEF MarkedByNow
    <3>3. DoneOK(x.done) => DoneOK(x.done)'
      BY DEF DoneOK, GraduatesDone, PromotesDone, PpdbDone, Steady
    <3> QED BY <1>4, <3>1, <3>2, <3>3 DEF ActingKnows
  <2>6. SlotKnows(x, r)'
    BY <2>2, <2>3, <2>4, <2>5 DEF SlotKnows
  <2> QED BY <1>5, <2>1, <2>6
<1>10. SchoolKnows(run)'
  BY <1>5, <1>6
<1> QED BY <1>7, <1>8, <1>9, <1>10 DEF SerialInv

LEMMA StillSerial ==
    ASSUME OneByOne, UNCHANGED <<run, school, ex, desk, world, ghost>>
    PROVE  SerialInv'
BY OthersMove DEF school, world, ghost

LEMMA RequestSerial ==
    ASSUME OneByOne, ExecuteRequest
    PROVE  SerialInv'
<1>1. CASE UNCHANGED ex
  BY <1>1, StillSerial DEF ExecuteRequest
<1>2. CASE SlotMayStart /\ \E w \in Executors : /\ ex[w].pc = "idle"
                                                /\ Becomes(w, [IdleSlot EXCEPT !.pc = "picked"])
  <2>1. PICK w \in Executors : Becomes(w, [IdleSlot EXCEPT !.pc = "picked"])
    BY <1>2
  <2>2. PICK x : x = [IdleSlot EXCEPT !.pc = "picked"]
    OBVIOUS
  <2>3. x.pc = "picked" /\ Becomes(w, x)
    BY <2>1, <2>2, FreshSlots
  <2>4. desk.pc = "idle" /\ Quiet
    BY <1>2 DEF SlotMayStart, OneByOne
  <2>5. /\ run' = run /\ desk' = desk
        /\ UNCHANGED <<year, pupil, rows, alumni, applied, world, ghost>>
    BY <2>4 DEF ExecuteRequest, school, StopDesk
  <2> QED BY <2>3, <2>4, <2>5, BeginsSerial DEF OneByOne, Serial
<1> QED BY <1>1, <1>2 DEF ExecuteRequest

\* Only a run nobody executes gets old.
LEMMA AgeSerial ==
    ASSUME OneByOne, Age
    PROVE  SerialInv'
<1>1. /\ SchoolKnows(run) /\ OneBusy /\ DeskKnows /\ run \in RunType /\ run.status = "RUNNING"
      /\ UNCHANGED <<ex, desk, year, pupil, rows, alumni, applied, placeable, shown, undoing,
                     regraded>>
  BY DeskHas DEF Age, school, world
<1>2. run.stale # TRUE
  <2>1. run.stale \in BOOLEAN
    BY <1>1 DEF RunType
  <2> QED BY Zenon, <2>1 DEF Age
<1>3. desk.pc = "idle"
  BY <1>1, DeskHas DEF DeskKnows, DeskType
<1>4. PICK r : r = [run EXCEPT !.stale = TRUE]
  OBVIOUS
<1>5. r.status = run.status /\ r.plan = run.plan /\ r.done = run.done /\ r.made = run.made
  BY <1>1, <1>4 DEF RunType
<1>6. SchoolKnows(r)'
  <2>1. RecordKnows(r)
    BY <1>1, <1>5 DEF RecordKnows, SchoolKnows, Steady
  <2> QED BY <1>1, <1>5, <2>1, StatusKeeps, SchoolStays
<1>7. ASSUME NEW w \in Executors PROVE ex[w].pc \in {"idle", "picked", "start"}
  <2>1. ex[w].pc \notin Claimed
    BY DEF Age, OneByOne
  <2>2. SlotKnows(ex[w], run) /\ SlotOK(ex[w])
    BY DEF OneByOne, SerialInv, TypeInv
  <2>3. ex[w].pc \notin {"reclaim", "claim"}
    BY <1>1, <1>2, <2>2 DEF SlotKnows, ClaimKnows
  <2> QED BY <2>1, <2>2, <2>3 DEF SlotOK, SlotType, Waiting
<1>8. ASSUME NEW w \in Executors PROVE SlotKnows(ex[w], run)'
  <2>1. PICK x, q : x = ex'[w] /\ q = run'
    OBVIOUS
  <2>2. SlotKnows(x, q)'
    BY <1>1, <1>7, <2>1, IdleKnows
  <2> QED BY <2>1, <2>2
<1>9. OneBusy' /\ DeskKnows'
  BY <1>1, <1>3 DEF OneBusy, Quiet, DeskKnows, Undoing
<1>10. SchoolKnows(run)'
  BY <1>4, <1>6 DEF Age
<1> QED BY <1>8, <1>9, <1>10 DEF SerialInv

\* A grade that changes while nothing has been made changes nothing that is known; later it
\* makes its student unsteady, and nothing is known of the plan's decision about him.
LEMMA RegradeSerial ==
    ASSUME OneByOne, NEW s \in Students, Regrade(s)
    PROVE  SerialInv'
<1>1. /\ SchoolKnows(run) /\ DeskKnows /\ RolloverTypeOK /\ OneBusy
      /\ UNCHANGED <<run, ex, desk, year, rows, alumni, applied, shown, undoing, placeable>>
  BY DeskHas DEF Regrade, world
<1>2. (run.made = None /\ Quiet /\ regraded' = regraded) \/ regraded' = regraded \union {s}
  BY DEF Regrade
<1>3. /\ \A t \in Students : pupil'[t].status = pupil[t].status
      /\ \A t \in Students \ {s} : pupil'[t] = pupil[t]
  BY <1>1 DEF Regrade, RolloverTypeOK, Pupils
<1>4. /\ \A t \in Students : Marked(t)' = Marked(t)
      /\ \A made, t : Recorded(made, t)' = Recorded(made, t)
      /\ \A t \in Steady' : t \in Steady /\ t \in Students
  BY <1>1, <1>2, <1>3 DEF Marked, Recorded, Steady
<1>5. Fresh => Fresh' \/ (run.made = None /\ Quiet)
  BY <1>1, <1>2, <1>3 DEF Fresh, Steady
<1>6. \A made : AllRecorded(made) => AllRecorded(made)'
  BY <1>4 DEF AllRecorded
<1>7. \A done : DoneOK(done) => DoneOK(done)'
  BY <1>1, <1>3, <1>4 DEF DoneOK, GraduatesDone, PromotesDone, PpdbDone
<1>8. PICK r : r = run
  OBVIOUS
<1>9. SchoolKnows(r)'
  <2>1. PreviewKnows(r)'
    BY <1>1, <1>3, <1>4, <1>5, <1>8
       DEF SchoolKnows, PreviewKnows, MarkedAsShown, EachNamed, MadeOK
  <2>2. RowsPlaced(r)' /\ AlumniPlaced(r)'
    BY <1>1, <1>4, <1>8 DEF SchoolKnows, RowsPlaced, AlumniPlaced
  <2>3. StepsKnow(r)'
    BY <1>1, <1>7, <1>8 DEF SchoolKnows, StepsKnow
  <2>4. RecordKnows(r)'
    BY <1>1, <1>4, <1>6, <1>8 DEF SchoolKnows, RecordKnows, RowsWritten, NothingLeft
  <2> QED BY <2>1, <2>2, <2>3, <2>4 DEF SchoolKnows
<1>10. OneBusy'
  BY <1>1 DEF OneBusy, Quiet
<1>11. DeskKnows'
  <2>1. \A pc : UndoKnows(pc) => UndoKnows(pc)'
    BY <1>1, <1>4 DEF UndoKnows
  <2>2. PICK pc, plan : pc = desk.pc /\ plan = desk.plan
    OBVIOUS
  <2>3. UndoKnows(pc) => UndoKnows(pc)'
    BY <2>1
  <2>4. run.made # None /\ (\A t \in DOMAIN plan \ regraded : plan[t] = EvaluateStudent(pupil[t]))
           /\ (\A t \in DOMAIN plan : t \in Students) =>
        \A t \in DOMAIN plan \ regraded' : plan[t] = EvaluateStudent(pupil'[t])
    BY <1>2, <1>3
  <2>5. desk.pc = "dryrun" => \A t \in DOMAIN plan : t \in Students
    BY <2>2, DeskHas DEF DeskOK, PlanType
  <2> QED BY <1>1, <1>3, <2>2, <2>3, <2>4, <2>5 DEF DeskKnows
<1>12. ASSUME NEW w \in Executors PROVE SlotKnows(ex[w], run)'
  <2>1. PICK x : x = ex[w]
    OBVIOUS
  <2>2. SlotOK(x) /\ SlotKnows(x, r)
    BY <1>8, <2>1 DEF OneByOne, SerialInv, TypeInv
  <2>3. x.pc \in Planning /\ PlanKnows(x, r) => PlanKnows(x, r)'
    <3>1. x.pc \in Planning => ~Quiet /\ x.plan \in PlanType
      BY <2>1, <2>2, PlacesAre DEF Quiet, SlotOK
    <3> QED BY <1>1, <1>3, <1>5, <3>1 DEF PlanKnows
  <2>4. x.pc \in {"reclaim", "claim", "begin"} /\ ClaimKnows(x, r) => ClaimKnows(x, r)'
    <3>1. x.pc \in {"reclaim", "claim", "begin"} => \A t \in DOMAIN x.plan : t \in Students
      BY <2>2, PlacesAre DEF SlotOK, PlanType
    <3> QED BY <1>3, <3>1 DEF ClaimKnows
  <2>5. x.pc \in Acting /\ ActingKnows(x, r) => ActingKnows(x, r)'
    <3>1. x.pc \in Acting => \A t \in DOMAIN x.plan : t \in Students
      BY <2>2, PlacesAre DEF SlotOK, PlanType
    <3>2. x.pc \in Acting /\ TodoKnows(x) => TodoKnows(x)'
      <4>1. x.pc \in Marking => x.todo \subseteq Students
        BY <2>2 DEF SlotOK
      <4>2. \A actions : x.pc \in Acting => Planned(x.plan, actions) \subseteq Students
        BY <3>1 DEF Planned
      <4>3. \A t \in x.todo \ regraded' : t \in x.todo \ regraded
        BY <1>2
      <4> QED BY <1>1, <1>3, <1>4, <4>1, <4>2, <4>3 DEF TodoKnows, Marking
    <3>3. x.pc \in Acting /\ MarkedByNow(x) => MarkedByNow(x)'
      BY <1>3, <3>1 DEF MarkedByNow
    <3> QED BY <1>6, <1>7, <3>2, <3>3 DEF ActingKnows, MadeOK
  <2>6. SlotKnows(x, r)'
    BY <2>2, <2>3, <2>4, <2>5 DEF SlotKnows
  <2> QED BY <1>1, <1>8, <2>1, <2>6
<1>13. SchoolKnows(run)'
  BY <1>1, <1>8, <1>9
<1> QED BY <1>10, <1>11, <1>12, <1>13 DEF SerialInv

LEMMA WorldSerial ==
    ASSUME OneByOne, \/ Redeliver \/ EvictJob \/ DeleteInvoice
                     \/ \E n \in Newcomers, c \in classes : StaffEnrolls(n, c)
    PROVE  SerialInv'
<1>1. CASE Redeliver \/ EvictJob \/ DeleteInvoice
  BY <1>1, StillSerial DEF Redeliver, EvictJob, DeleteInvoice
<1>2. ASSUME NEW n \in Newcomers, NEW c \in classes, StaffEnrolls(n, c) PROVE SerialInv'
  <2>1. n \notin Students
    BY PeopleAssumption
  <2> QED BY <1>2, <2>1, OthersMove DEF StaffEnrolls, world, ghost
<1> QED BY <1>1, <1>2

LEMMA ExecutorSerial ==
    ASSUME OneByOne, NEW w \in Executors,
           ExecutorStep(w) \/ ExecuteInline(w) \/ TakeJob(w) \/ Fail(w) \/ Crash(w) \/ LockLost(w)
    PROVE  SerialInv'
<1>1. Serial(w) /\ ~LockLost(w)
  BY DEF OneByOne, Serial, LockLost
<1>2. CASE \/ Picked(w) \/ ExecuteStart(w) \/ ExecuteRefused(w) \/ Reclaim(w) \/ Claim(w)
           \/ Begin(w) \/ Persist(w) \/ Finish(w) \/ PromoteThrows(w) \/ Fail(w) \/ Crash(w)
           \/ ExecuteInline(w) \/ TakeJob(w)
  BY <1>1, <1>2, StartSerial, ExecuteStartSerial, BrokenSerial, ReclaimSerial, ClaimSerial,
     BeginSerial, PersistSerial, FinishSerial
<1>3. CASE \/ CloseSource(w) \/ CreateClass(w) \/ ClassesCreated(w) \/ CopyCurriculum(w)
           \/ NothingToDo(w) \/ GraduateLog(w) \/ PromoteMarked(w) \/ SetCurrent(w)
  BY <1>1, <1>3, CloseSourceSerial, CreateClassSerial, EmptySerial, SetCurrentSerial
<1>4. CASE \/ GraduateCreate(w) \/ GraduateRead(w) \/ GraduateMark(w)
           \/ PromoteCreate(w) \/ PromoteRead(w) \/ PromoteMark(w)
           \/ PpdbCreate(w) \/ PpdbRead(w) \/ PpdbMark(w)
  BY <1>1, <1>4, GraduateCreateSerial, GraduateReadSerial, GraduateMarkSerial,
     PromoteCreateSerial, PromoteReadSerial, PromoteMarkSerial,
     PpdbCreateSerial, PpdbReadSerial, PpdbMarkSerial
<1> QED BY <1>1, <1>2, <1>3, <1>4 DEF ExecutorStep

LEMMA SerialStays ==
    ASSUME TypeInv, SerialInv, [Next]_vars
    PROVE  SerialInv'
<1>1. mode' = mode
  BY EveryStep DEF Executes, Moves, Previews, BeginsUndo, Undoes, Elsewhere
<1>2. CASE mode # "serial"
  BY <1>1, <1>2 DEF SerialInv
<1>3. CASE mode = "serial"
  <2>1. OneByOne
    BY <1>3 DEF OneByOne
  <2>2. CASE UNCHANGED vars
    BY <2>1, <2>2, StillSerial DEF vars, school, world, ghost
  <2>3. CASE \E w \in Executors : \/ ExecutorStep(w) \/ ExecuteInline(w) \/ TakeJob(w)
                                  \/ Fail(w) \/ Crash(w) \/ LockLost(w)
    BY <2>1, <2>3, ExecutorSerial
  <2>4. CASE PrecheckRead \/ DryRunRead \/ DeskFails \/ RollbackRead
    BY <2>1, <2>4, ReadsSerial, RollbackReadSerial
  <2>5. CASE DeskStep
    BY <2>1, <2>5, PrecheckCommitSerial, DryRunCommitSerial, UndoRowsSerial, UndoStatusSerial,
       UndoYearsSerial, UndoFinishSerial DEF DeskStep
  <2>6. CASE ExecuteRequest \/ Age \/ \E s \in Students : Regrade(s)
    BY <2>1, <2>6, RequestSerial, AgeSerial, RegradeSerial
  <2>7. CASE \/ Redeliver \/ EvictJob \/ DeleteInvoice
             \/ \E n \in Newcomers, c \in classes : StaffEnrolls(n, c)
    BY <2>1, <2>7, WorldSerial
  <2> QED BY <2>2, <2>3, <2>4, <2>5, <2>6, <2>7 DEF Next
<1> QED BY <1>2, <1>3

LEMMA SerialBegins == Init => SerialInv
<1> SUFFICES ASSUME Init PROVE SerialInv
  OBVIOUS
<1>1. /\ run.status = "DRAFT" /\ run.plan = None /\ run.done = {} /\ run.made = None
      /\ year.src = "OPEN" /\ year.cur = "src" /\ rows = {} /\ alumni = {}
      /\ \A s \in Students : shown[s] = None
  BY DEF Init
<1>2. undoing # TRUE
  BY Zenon DEF Init
<1>3. desk.pc = "idle" /\ \A w \in Executors : ex[w].pc = "idle"
  BY DEF Init, IdleDesk, IdleSlot
<1>4. PreviewKnows(run) /\ RowsPlaced(run) /\ AlumniPlaced(run)
  BY <1>1 DEF PreviewKnows, RowsPlaced, AlumniPlaced, MarkedAsShown, Marked, Steady
<1>5. StepsKnow(run) /\ RecordKnows(run)
  BY <1>1, <1>2 DEF StepsKnow, DoneOK, RecordKnows, AllRecorded, Marked, Steady
<1>6. OneBusy /\ DeskKnows
  BY <1>3 DEF OneBusy, Quiet, DeskKnows, Undoing
<1>7. \A w \in Executors : SlotKnows(ex[w], run)
  BY <1>3, IdleKnows
<1> QED BY <1>4, <1>5, <1>6, <1>7 DEF SerialInv, SchoolKnows

\* With one request at a time, the run, the school, the operator's request and
\* the execution know all this of each other at every moment.
THEOREM SerialKnowledge == Spec => [](TypeInv /\ SerialInv)
BY RolloverTypes, SerialBegins, SerialStays, PTL DEF Spec

\* With one request at a time, whatever fails and is resumed and whoever's grade
\* changes: every student whose own grade did not change once executions had begun is
\* where the last dry-run said, in one class.
THEOREM PlacedAsPreviewed == Spec => []AsPreviewed
<1>1. TypeInv /\ SerialInv => AsPreviewed
  <2> SUFFICES ASSUME OneByOne, NEW s \in Steady
               PROVE  /\ \A t \in rows : t.who = s =>
                            /\ shown[s].action \in {"PROMOTED", "REPEATED"}
                            /\ t.class.key = shown[s].key
                            /\ \A q \in rows : q.who = s => q = t
                      /\ IsAlumni(s) => shown[s].action = "GRADUATED"
    BY DEF OneByOne, AsPreviewed
  <2>1. SchoolKnows(run) /\ RolloverTypeOK
    BY DeskHas
  <2>2. ASSUME NEW t \in rows, t.who = s
        PROVE  /\ shown[s].action \in {"PROMOTED", "REPEATED"}
               /\ run.made # None /\ t.class \in run.made.classes
               /\ t.class.key = shown[s].key
    BY <2>1, <2>2 DEF SchoolKnows, RowsPlaced, Placing, Steady
  <2>3. ASSUME NEW t \in rows, NEW q \in rows, t.who = s, q.who = s PROVE q = t
    <3>1. t.class = q.class
      BY <2>1, <2>2, <2>3 DEF SchoolKnows, PreviewKnows, MadeOK
    <3> QED BY <2>1, <2>3, <3>1 DEF RolloverTypeOK, RowType
  <2>4. IsAlumni(s) => shown[s].action = "GRADUATED"
    BY <2>1 DEF SchoolKnows, AlumniPlaced, IsAlumni, Steady
  <2> QED BY <2>2, <2>3, <2>4
<1> QED BY SerialKnowledge, <1>1, PTL

\* With one request at a time, the years change over when everybody the plan
\* moves has been moved, and not before; the students whose grade changed under or
\* between executions and the applicants without account or class are left aside.
THEOREM FlipsAfterPlacement == Spec => []FlippedAfterPlacement
<1>1. TypeInv /\ SerialInv /\ NobodyLost => FlippedAfterPlacement
  <2> SUFFICES ASSUME OneByOne, NobodyLost, year.cur = "tgt", ~undoing
               PROVE  /\ \A s \in Steady : shown[s] # None =>
                            /\ shown[s].action \in {"PROMOTED", "REPEATED"} => HasRow(s)
                            /\ shown[s].action = "GRADUATED" => IsAlumni(s)
                            /\ pupil[s].status # "ACTIVE" <=>
                                  shown[s].action \in {"PROMOTED", "REPEATED", "GRADUATED"}
                      /\ \A s \in Students : pupil[s].status = "ACTIVE" => shown[s] # None
                      /\ \A a \in placeable : applied[a] = "ENROLLED"
    BY DEF OneByOne, FlippedAfterPlacement
  <2>1. undoing # TRUE
    BY Zenon
  <2>2. SchoolKnows(run)
    BY DeskHas
  <2>3. "graduate" \in run.done /\ "promote" \in run.done /\ "ppdb-enroll" \in run.done
    BY <2>2, PlacesAre DEF SchoolKnows, StepsKnow
  <2>4. GraduatesDone /\ PromotesDone /\ PpdbDone
    BY <2>1, <2>2, <2>3 DEF SchoolKnows, StepsKnow, DoneOK
  <2>5. run.made # None /\ EachNamed /\ MarkedAsShown
    BY <2>1, <2>2, <2>3 DEF SchoolKnows, PreviewKnows
  <2>6. \A s \in Students : /\ pupil[s].status \in {"PROMOTED", "REPEATED"} => HasRow(s)
                            /\ pupil[s].status = "GRADUATED" => IsAlumni(s)
    BY Zenon DEF NobodyLost
  <2>7. ASSUME NEW s \in Steady, shown[s] # None
        PROVE  /\ shown[s].action \in {"PROMOTED", "REPEATED"} => HasRow(s)
               /\ shown[s].action = "GRADUATED" => IsAlumni(s)
               /\ pupil[s].status # "ACTIVE" <=>
                     shown[s].action \in {"PROMOTED", "REPEATED", "GRADUATED"}
    <3>1. shown[s].action \in Placing => pupil[s].status = shown[s].action
      BY <2>4, <2>7 DEF PromotesDone, Steady
    <3>2. shown[s].action = "GRADUATED" => pupil[s].status = "GRADUATED"
      BY <2>4, <2>7 DEF GraduatesDone, Steady
    <3>3. pupil[s].status # "ACTIVE" => shown[s].action \in Placing \union {"GRADUATED"}
      BY <2>5, <2>7 DEF MarkedAsShown, Marked, Steady
    <3> QED BY <2>6, <2>7, <3>1, <3>2, <3>3 DEF Placing, Steady
  <2> QED BY <2>4, <2>5, <2>7 DEF EachNamed, PpdbDone
<1> QED BY SerialKnowledge, MarkedHaveRows, <1>1, PTL

\* With one request at a time, a rollback that says it is done has undone everything
\* that was done to the years and to the students whose grade did not change under or
\* between executions.
THEOREM RollbackRestoresAll == Spec => []RollbackRestores
<1>1. TypeInv /\ SerialInv => RollbackRestores
  <2> SUFFICES ASSUME OneByOne, run.status = "ROLLED_BACK"
               PROVE  /\ \A s \in Steady : /\ ~HasRow(s) /\ ~IsAlumni(s)
                                           /\ shown[s] # None => pupil[s].status = "ACTIVE"
                      /\ year.tgt = "DRAFT" /\ year.cur = "src" /\ year.src # "CLOSED"
    BY DEF OneByOne, RollbackRestores
  <2>1. NothingLeft
    BY DeskHas DEF SchoolKnows, RecordKnows, Steady
  <2> QED BY <2>1 DEF NothingLeft, HasRow, IsAlumni, Marked, Steady
<1> QED BY SerialKnowledge, <1>1, PTL
=============================================================================
