------------------------------ MODULE CheckIn -------------------------------
(***************************************************************************)
(* Checking in with the QR code a teacher shows (attendance.service.ts:    *)
(* generateSessionToken, scan).  A scan looks at the token, the key of the *)
(* request and the student's record before its transaction; the            *)
(* transaction claims the token by a conditional update, which locks the   *)
(* row, and inserts the record, which the unique key on session and        *)
(* student may refuse.                                                     *)
(***************************************************************************)
EXTENDS Requests

CONSTANTS Students, Codes, Sessions,
          SessionOf,     \* SessionOf[c] - the session of token c
          Keys           \* the Idempotency-Keys the clients send

ASSUME CheckInAssumption == /\ SessionOf \in [Codes -> Sessions]
                            /\ None \notin Students \cup Handlers \cup Keys

VARIABLES tokens,     \* tokens[c] - "none", "shown", "expired": the row and its time
          usedBy,     \* usedBy[c] - used_by, or None while used_at is null
          records,    \* the AttendanceRecord rows
          locked,     \* locked[c] - the transaction that has claimed c, or None
          closed      \* the sessions whose time is over

checkInRows == <<tokens, usedBy, records, locked, closed>>
checkInVars == <<requestVars, checkInRows>>

\* A request, and the row it makes.  Clients choose the keys, and may send none;
\* no unique key keeps two rows from having the same one.
Scans == [student : Students, code : Codes, key : Keys \cup {None}]

RecordsOf(s, session) == {r \in records : r.student = s /\ SessionOf[r.code] = session}

CheckInInit == /\ RequestsInit
               /\ tokens = [c \in Codes |-> "none"]
               /\ usedBy = [c \in Codes |-> None]
               /\ records = {}
               /\ locked = [c \in Codes |-> None]
               /\ closed = {}

-----------------------------------------------------------------------------
GenerateToken(c) == /\ tokens[c] = "none"
                    /\ tokens' = [tokens EXCEPT ![c] = "shown"]
                    /\ UNCHANGED <<requestVars, usedBy, records, locked, closed>>

\* What a scan holds: the request, and what the token row and the clock said.
Scanning(x, used, late) == [scan |-> x, used |-> used, late |-> late]

ScanRead(h, x) == /\ MayStart(h)
                  /\ tokens[x.code] # "none"
                  /\ Goto(h, "look", Scanning(x, usedBy[x.code],
                          tokens[x.code] = "expired" \/ SessionOf[x.code] \in closed))
                  /\ UNCHANGED checkInRows

\* A row with the key of the request, whoever's it is and of whatever session.
KnownKey(key) == key # None /\ \E r \in records : r.key = key

\* The answers that need no transaction: the key is known; the token was used,
\* by this student or by another; it is too late; or the student is listed.
Look(h) ==
    LET x == held[h].scan
        used == held[h].used
        listed == RecordsOf(x.student, SessionOf[x.code]) # {}
        idempotent == \/ KnownKey(x.key)
                      \/ listed /\ IF used # None THEN used = x.student ELSE ~held[h].late
    IN  /\ at[h] = "look"
        /\ IF idempotent THEN Goto(h, "reply", held[h])
           ELSE IF used # None \/ held[h].late THEN Answer(h)
           ELSE Goto(h, "claim", held[h])
        /\ UNCHANGED checkInRows

\* Mutant: the token is marked used without looking whether it is.
ClaimableAlways(c) == TRUE

\* where: { used_at: null }, once no other transaction holds the row.
ClaimableToken(c) == usedBy[c] = None

\* 409, whoever has used the token.
ClaimLost(h) == Answer(h)

\* The transaction begins by claiming the token.
ClaimToken(h) == LET c == held[h].scan.code
                 IN  /\ at[h] = "claim" /\ locked[c] = None
                     /\ IF ClaimableToken(c)
                        THEN /\ locked' = [locked EXCEPT ![c] = h]
                             /\ Goto(h, "record", held[h])
                        ELSE ClaimLost(h) /\ UNCHANGED locked
                     /\ UNCHANGED <<tokens, usedBy, records, closed>>

\* Mutant: the claim is kept when the record is refused.
ClaimKept(h, inserted) ==
    usedBy' = [usedBy EXCEPT ![held[h].scan.code] = held[h].scan.student]

\* The claim is committed with the record, and rolled back without it.
ClaimCommits(h, inserted) ==
    usedBy' = IF inserted THEN [usedBy EXCEPT ![held[h].scan.code] = held[h].scan.student]
                          ELSE usedBy

\* The insertion commits, or violates the unique key and undoes the claim; then
\* the record that is there is looked for outside the transaction.
RecordScan(h) ==
    LET x == held[h].scan
        free == RecordsOf(x.student, SessionOf[x.code]) = {}
    IN  /\ at[h] = "record"
        /\ locked' = [locked EXCEPT ![x.code] = None]
        /\ ClaimCommits(h, free)
        /\ records' = IF free THEN records \cup {x} ELSE records
        /\ Goto(h, "reply", held[h])
        /\ UNCHANGED <<tokens, closed>>

\* The audit entry, or the search after the violation, and the answer: a record,
\* new or old.
ScanReply(h) == /\ at[h] = "reply"
                /\ Answer(h)
                /\ UNCHANGED checkInRows

-----------------------------------------------------------------------------
TokenExpires(c) == /\ tokens[c] = "shown"
                   /\ tokens' = [tokens EXCEPT ![c] = "expired"]
                   /\ UNCHANGED <<requestVars, usedBy, records, locked, closed>>

SessionEnds(n) == /\ n \notin closed
                  /\ closed' = closed \cup {n}
                  /\ UNCHANGED <<requestVars, tokens, usedBy, records, locked>>

\* A query fails, the process dies, or the answer is lost: an open transaction
\* is rolled back.
ScanFails(h) == /\ at[h] # "free"
                /\ Answer(h)
                /\ locked' = [c \in Codes |-> IF locked[c] = h THEN None ELSE locked[c]]
                /\ UNCHANGED <<tokens, usedBy, records, closed>>

CheckInNext == \/ \E c \in Codes : GenerateToken(c) \/ TokenExpires(c)
               \/ \E n \in Sessions : SessionEnds(n)
               \/ \E h \in Handlers : \/ \E x \in Scans : ScanRead(h, x)
                                      \/ Look(h) \/ ClaimToken(h)
                                      \/ RecordScan(h) \/ ScanReply(h) \/ ScanFails(h)

CheckInSpec == CheckInInit /\ [][CheckInNext]_checkInVars

-----------------------------------------------------------------------------
\* Properties.

CheckInTypeOK == /\ tokens \in [Codes -> {"none", "shown", "expired"}]
                 /\ usedBy \in [Codes -> Students \cup {None}]
                 /\ records \subseteq Scans
                 /\ locked \in [Codes -> Handlers \cup {None}]
                 /\ closed \subseteq Sessions

\* However scans overlap and break off: a token counts as used exactly when it
\* let its user in, so no refused or failed scan burns one.
UsedTokenLetIn ==
    \A c \in Codes, s \in Students :
        usedBy[c] = s <=> \E r \in records : r.code = c /\ r.student = s

\* The key of a request is that of a row which another student, or a scan of
\* another session, has made.
Borrowed(s, session, key) ==
    key # None /\ \E r \in records : r.key = key /\ r \notin RecordsOf(s, session)

\* Whose scan is answered with a record, not an error, is in the register of the
\* session he scanned, unless he sent a key that was another's.
ToldIsListed ==
    \A h \in Handlers : at[h] = "reply" =>
        LET x == held[h].scan
            session == SessionOf[x.code]
        IN  RecordsOf(x.student, session) # {} \/ Borrowed(x.student, session, x.key)

\* The register of each session, as Register promises it.
Promise == INSTANCE Register
               WITH present <- {<<r.student, r.code>> : r \in records}

KeepsRegister == Promise!RegisterSpec
=============================================================================
