------------------------------ MODULE Erasure ------------------------------
(***************************************************************************)
(* A user's request to have personal data erased (pdp/pdp.service.ts,      *)
(* pdp-anonymize.service.ts): the review, the anonymisation, and the       *)
(* profile and exports of the user that it has to reach; exports also run  *)
(* out (pdp-retention.service.ts).  Only the anonymisation is a            *)
(* transaction: the list of exports is read before it and the status of    *)
(* the request is written after it.                                        *)
(***************************************************************************)
EXTENDS Naturals, Requests

CONSTANTS MaxAsks,      \* bound: requests of the user
          MaxExports    \* bound: exports of the user

ASSUME ErasureAssumption == MaxAsks \in Nat /\ MaxExports \in Nat

VARIABLES profile,    \* the User row: does it tell who it is, may the user come in
          asks,       \* asks[i] - the status of the PdpRequest row i, or None
          exports     \* exports[x] - the DataExportLog row x, or None

erasureRows == <<profile, asks, exports>>
erasureVars == <<requestVars, erasureRows>>

AskIds == 1..MaxAsks
ExportIds == 1..MaxExports

PdpRequestStatus == {"PENDING", "APPROVED", "REJECTED", "EXECUTED"}

\* url: the row still leads to the file; personal: what the file tells.
ExportRows == [url : BOOLEAN, personal : BOOLEAN]

ASSUME ErasureRowAssumption == None \notin PdpRequestStatus \cup ExportRows

ErasureInit == /\ RequestsInit
               /\ profile = [personal |-> TRUE, active |-> TRUE]
               /\ asks = [i \in AskIds |-> None]
               /\ exports = [x \in ExportIds |-> None]

-----------------------------------------------------------------------------
\* AuthGuard lets the user in as long as the row is active.
UserStarts(h) == MayStart(h) /\ profile.active

\* requestDelete: one request is to wait at a time.
AskRead(h) == /\ UserStarts(h)
              /\ \A i \in AskIds : asks[i] # "PENDING"
              /\ Goto(h, "ask", None)
              /\ UNCHANGED erasureRows

AskErasure(h) == /\ at[h] = "ask"
                 /\ \E i \in AskIds : asks[i] = None /\ asks' = [asks EXCEPT ![i] = "PENDING"]
                 /\ Answer(h)
                 /\ UNCHANGED <<profile, exports>>

\* updateMyProfile: name and phone, by id.
ProfileRead(h) == /\ UserStarts(h)
                  /\ Goto(h, "profile", None)
                  /\ UNCHANGED erasureRows

UpdateProfile(h) == /\ at[h] = "profile"
                    /\ profile' = [profile EXCEPT !.personal = TRUE]
                    /\ Answer(h)
                    /\ UNCHANGED <<asks, exports>>

\* exportPersonalData: what was collected goes to a file, and the row follows.
CollectData(h) == /\ UserStarts(h)
                  /\ Goto(h, "export", [personal |-> profile.personal])
                  /\ UNCHANGED erasureRows

LogExport(h) ==
    /\ at[h] = "export"
    /\ \E x \in ExportIds :
          /\ exports[x] = None
          /\ exports' = [exports EXCEPT ![x] = [url |-> TRUE, personal |-> held[h].personal]]
    /\ Answer(h)
    /\ UNCHANGED <<profile, asks>>

-----------------------------------------------------------------------------
Reviewable(i) == asks[i] = "PENDING"

\* approveRequest: the row, the list of exports, the transaction, the status.
ApproveErasure(h, i) == /\ MayStart(h)
                        /\ Reviewable(i)
                        /\ Goto(h, "list", [ask |-> i])
                        /\ UNCHANGED erasureRows

\* Mutant: the exports of the reviewer are looked up.
PersonalExportsNone == {}

\* personalExports
PersonalExports == {x \in ExportIds : exports[x] # None}

ListExports(h) == /\ at[h] = "list"
                  /\ Goto(h, "erase", [ask |-> held[h].ask, found |-> PersonalExports])
                  /\ UNCHANGED erasureRows

\* The rows stay, the file is no longer found from them.
Closed(X) == [x \in ExportIds |-> IF x \in X THEN [exports[x] EXCEPT !.url = FALSE]
                                  ELSE exports[x]]

\* anonymizeUser; the files are removed after it, as far as that succeeds.
Anonymize(h) ==
    /\ at[h] = "erase"
    /\ profile' = [personal |-> FALSE, active |-> FALSE]
    /\ exports' = Closed(held[h].found)
    /\ Goto(h, "execute", held[h])
    /\ UNCHANGED asks

MarkExecuted(h) == /\ at[h] = "execute"
                   /\ asks' = [asks EXCEPT ![held[h].ask] = "EXECUTED"]
                   /\ Answer(h)
                   /\ UNCHANGED <<profile, exports>>

RejectErasure(h, i) == /\ MayStart(h)
                       /\ Reviewable(i)
                       /\ Goto(h, "reject", [ask |-> i])
                       /\ UNCHANGED erasureRows

MarkRejected(h) == /\ at[h] = "reject"
                   /\ asks' = [asks EXCEPT ![held[h].ask] = "REJECTED"]
                   /\ Answer(h)
                   /\ UNCHANGED <<profile, exports>>

-----------------------------------------------------------------------------
\* The retention job: exports of some age are found, then closed.
FindExpired(h) == /\ MayStart(h)
                  /\ \E X \in SUBSET {x \in PersonalExports : exports[x].url} :
                        Goto(h, "expire", [found |-> X])
                  /\ UNCHANGED erasureRows

CloseExpired(h) == /\ at[h] = "expire"
                   /\ exports' = Closed(held[h].found)
                   /\ Answer(h)
                   /\ UNCHANGED <<profile, asks>>

\* A query fails, or the process stops: the handler has no further effect.
ErasureFails(h) == at[h] # "free" /\ Answer(h) /\ UNCHANGED erasureRows

ErasureStep(h) ==
    \/ AskRead(h) \/ AskErasure(h) \/ ProfileRead(h) \/ UpdateProfile(h)
    \/ CollectData(h) \/ LogExport(h)
    \/ \E i \in AskIds : ApproveErasure(h, i) \/ RejectErasure(h, i)
    \/ ListExports(h) \/ Anonymize(h) \/ MarkExecuted(h) \/ MarkRejected(h)
    \/ FindExpired(h) \/ CloseExpired(h)

ErasureNext == \E h \in Handlers : ErasureStep(h) \/ ErasureFails(h)

ErasureSpec == ErasureInit /\ [][ErasureNext]_erasureVars

-----------------------------------------------------------------------------
\* Properties.

ErasureTypeOK == /\ profile \in [personal : BOOLEAN, active : BOOLEAN]
                 /\ asks \in [AskIds -> PdpRequestStatus \cup {None}]
                 /\ exports \in [ExportIds -> ExportRows \cup {None}]

\* An executed request has shut the account, however requests overlap and
\* wherever an earlier approval stopped; and while requests do not overlap,
\* nothing the user can still do or download tells who it was.
ErasureIsComplete ==
    \A i \in AskIds : asks[i] = "EXECUTED" =>
        /\ ~profile.active
        /\ alone => /\ ~profile.personal
                    /\ \A x \in ExportIds :
                          exports[x] # None /\ exports[x].url => ~exports[x].personal
=============================================================================
