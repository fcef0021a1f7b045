----------------------------- MODULE Admission ------------------------------
(***************************************************************************)
(* Admissions (ppdb/ppdb.service.ts): an applicant registers, staff verify *)
(* and select, and the selected are enrolled.  Each decision reads the     *)
(* status and then writes it by id; the enrolment is five statements and   *)
(* no transaction.  Every applicant has an account of his own, if any.     *)
(***************************************************************************)
EXTENDS Requests

CONSTANTS Applicants,   \* registrations
          Classes       \* of the year the selected are enrolled in

VARIABLES applicant,   \* applicant[a] - status and account of the PpdbApplicant row, or None
          consent,     \* consent[a] - ParentalConsent: None, "granted", "linked" to the student
          student,     \* the applicants whose account has the role SISWA
          places,      \* places[a] - the classes the account is enrolled in
          chosen       \* the applicants that have ever been SELECTED

admissionRows == <<applicant, consent, student, places, chosen>>
admissionVars == <<requestVars, admissionRows>>

PpdbStatus == {"SUBMITTED", "VERIFIED", "REJECTED", "SELECTED", "WAITLIST", "ENROLLED"}

ApplicantRows == [status : PpdbStatus, account : BOOLEAN]

ASSUME AdmissionAssumption == None \notin ApplicantRows /\ None \notin {"granted", "linked"}

AdmissionInit == /\ RequestsInit
                 /\ applicant = [a \in Applicants |-> None]
                 /\ consent = [a \in Applicants |-> None]
                 /\ student = {}
                 /\ places = [a \in Applicants |-> {}]
                 /\ chosen = {}

Applied == {a \in Applicants : applicant[a] # None}

In(a, status) == a \in Applied /\ applicant[a].status = status

-----------------------------------------------------------------------------
\* register: the consent of the parents, then the applicant.
RegisterConsent(h, a) == /\ MayStart(h)
                         /\ consent[a] = None
                         /\ consent' = [consent EXCEPT ![a] = "granted"]
                         /\ Goto(h, "apply", [a |-> a])
                         /\ UNCHANGED <<applicant, student, places, chosen>>

RegisterApplicant(h) ==
    /\ at[h] = "apply"
    /\ applicant' = [applicant EXCEPT ![held[h].a] = [status |-> "SUBMITTED", account |-> FALSE]]
    /\ Answer(h)
    /\ UNCHANGED <<consent, student, places, chosen>>

\* The service asks for an account but never makes one: it is linked by hand.
LinkAccount(a) == /\ a \in Applied /\ ~applicant[a].account
                  /\ applicant' = [applicant EXCEPT ![a].account = TRUE]
                  /\ UNCHANGED <<requestVars, consent, student, places, chosen>>

\* verify, select and waitlist: from which status to which.
Decisions == {<<"SUBMITTED", "VERIFIED">>, <<"SUBMITTED", "REJECTED">>,
              <<"VERIFIED", "SELECTED">>, <<"VERIFIED", "WAITLIST">>}

DecideRead(h, a) == /\ MayStart(h)
                    /\ \E d \in Decisions : /\ In(a, d[1])
                                            /\ Goto(h, "decide", [a |-> a, to |-> d[2]])
                    /\ UNCHANGED admissionRows

Decide(h) ==
    LET a == held[h].a IN
    /\ at[h] = "decide"
    /\ applicant' = [applicant EXCEPT ![a].status = held[h].to]
    /\ chosen' = IF held[h].to = "SELECTED" THEN chosen \cup {a} ELSE chosen
    /\ Answer(h)
    /\ UNCHANGED <<consent, student, places>>

-----------------------------------------------------------------------------
\* Mutant: those on the waiting list may be enrolled as well.
EnrollableReserve(a) == (In(a, "SELECTED") \/ In(a, "WAITLIST")) /\ applicant[a].account

Enrollable(a) == In(a, "SELECTED") /\ applicant[a].account

EnrollRead(h, a) == /\ MayStart(h)
                    /\ Enrollable(a)
                    /\ \E c \in Classes : Goto(h, "role", [a |-> a, class |-> c])
                    /\ UNCHANGED admissionRows

FindRole(h) == /\ at[h] = "role"
               /\ Goto(h, IF held[h].a \in student THEN "place" ELSE "make-role", held[h])
               /\ UNCHANGED admissionRows

\* Both inserts meet a unique key: of account and role, of account and class.
MakeRole(h) == /\ at[h] = "make-role"
               /\ student' = student \cup {held[h].a}
               /\ IF held[h].a \in student THEN Answer(h) ELSE Goto(h, "place", held[h])
               /\ UNCHANGED <<applicant, consent, places, chosen>>

Place(h) ==
    LET a == held[h].a IN
    /\ at[h] = "place"
    /\ places' = [places EXCEPT ![a] = @ \cup {held[h].class}]
    /\ IF held[h].class \in places[a] THEN Answer(h) ELSE Goto(h, "consent", held[h])
    /\ UNCHANGED <<applicant, consent, student, chosen>>

LinkConsent(h) == /\ at[h] = "consent"
                  /\ consent' = [consent EXCEPT ![held[h].a] = "linked"]
                  /\ Goto(h, "enrolled", held[h])
                  /\ UNCHANGED <<applicant, student, places, chosen>>

MarkEnrolled(h) == /\ at[h] = "enrolled"
                   /\ applicant' = [applicant EXCEPT ![held[h].a].status = "ENROLLED"]
                   /\ Answer(h)
                   /\ UNCHANGED <<consent, student, places, chosen>>

AdmissionFails(h) == at[h] # "free" /\ Answer(h) /\ UNCHANGED admissionRows

AdmissionStep(h) ==
    \/ \E a \in Applicants : RegisterConsent(h, a) \/ DecideRead(h, a) \/ EnrollRead(h, a)
    \/ RegisterApplicant(h) \/ Decide(h) \/ FindRole(h) \/ MakeRole(h)
    \/ Place(h) \/ LinkConsent(h) \/ MarkEnrolled(h)

AdmissionNext == \/ \E a \in Applicants : LinkAccount(a)
                 \/ \E h \in Handlers : AdmissionStep(h) \/ AdmissionFails(h)

AdmissionSpec == AdmissionInit /\ [][AdmissionNext]_admissionVars

-----------------------------------------------------------------------------
\* Properties.

AdmissionTypeOK == /\ applicant \in [Applicants -> ApplicantRows \cup {None}]
                   /\ consent \in [Applicants -> {None, "granted", "linked"}]
                   /\ student \subseteq Applicants
                   /\ places \in [Applicants -> SUBSET Classes]
                   /\ chosen \subseteq Applicants

\* Only those who were selected are placed, and an applicant who is ENROLLED has
\* the role, a class and the consent of the parents with him, however requests
\* overlap and enrolments break off.  While they do not overlap, whoever has a
\* place is SELECTED still, or ENROLLED: no other decision follows a place.
PlacedAsSelected ==
    \A a \in Applicants :
        /\ places[a] # {} => a \in chosen /\ a \in student
        /\ In(a, "ENROLLED") => places[a] # {} /\ consent[a] = "linked"
        /\ alone /\ places[a] # {} => In(a, "SELECTED") \/ In(a, "ENROLLED")
=============================================================================
