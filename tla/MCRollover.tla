----------------------------- MODULE MCRollover -----------------------------
(* Instances of Rollover for TLC.                                          *)
EXTENDS Rollover, TLC

Pupil(final, passes, override, status) ==
    [final |-> final, passes |-> passes, override |-> override, status |-> status]

Rising    == Pupil(FALSE, TRUE, None, "ACTIVE")
Repeating == Pupil(TRUE, FALSE, None, "ACTIVE")
Leaving   == Pupil(TRUE, TRUE, None, "ACTIVE")
Dropped   == Pupil(FALSE, TRUE, "DROPPED", "ACTIVE")
Forced    == Pupil(FALSE, FALSE, "PROMOTED", "ACTIVE")
Moved     == Pupil(FALSE, TRUE, None, "TRANSFERRED")

Scenario(m, k, n, a, chosen) ==
    {[mode |-> m, kind |-> k, faults |-> n, pupil |-> p, applied |-> [x \in Applicants |-> a],
      accounts |-> Applicants, intake |-> TRUE] : p \in chosen}

\* The selected have no account, or the preferences name no class.
PassedOver(C) == {[c EXCEPT !.accounts = {}] : c \in C}
                 \union {[c EXCEPT !.intake = FALSE] : c \in C}

Pair(x, y) == {p \in [Students -> {x, y}] : \A z \in {x, y} : \E s \in Students : p[s] = z}

EveryPair == Pair(Rising, Leaving) \union Pair(Leaving, Repeating) \union Pair(Rising, Rising)
             \union Pair(Leaving, Forced) \union Pair(Leaving, Dropped)
OneActive == Pair(Rising, Moved) \union Pair(Leaving, Moved)

\* One request at a time with every pair of students of interest; overlapping
\* executions; everything, in smaller schools.
AllScenarios ==
    Scenario("serial", "bullmq", 1, "SELECTED", EveryPair)
    \union Scenario("serial", "inproc", 2, "SELECTED", EveryPair)
    \union PassedOver(Scenario("serial", "inproc", 0, "SELECTED", Pair(Rising, Leaving)))
    \union Scenario("race", "bullmq", 1, "SELECTED", Pair(Rising, Leaving))
    \union Scenario("any", "bullmq", 0, "ENROLLED", OneActive)
    \union Scenario("any", "inproc", 1, "ENROLLED", OneActive)

\* One student and one mode, for the runs that look for a counterexample.
FewScenarios ==
    Scenario("serial", "bullmq", 1, "ENROLLED", Pair(Rising, Rising))

RolloverSymmetry == Permutations(Students) \union Permutations(Executors)
=============================================================================
