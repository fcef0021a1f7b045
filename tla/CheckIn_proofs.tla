--------------------------- MODULE CheckIn_proofs ---------------------------
(***************************************************************************)
(* What holds of checking in by QR code for every number of students,      *)
(* codes, sessions and requests.  The properties alone are not inductive:  *)
(* between claiming a token and inserting the record a scan relies on the  *)
(* lock of the token's row, and before it answers on the record it found.  *)
(***************************************************************************)
EXTENDS CheckIn, TLAPS

Calls == {"free", "look", "claim", "record", "reply"}

\* The locals of a scan, see Scanning.
Scannings == [scan : Scans, used : Students \cup {None}, late : BOOLEAN]

RequestTypes == /\ at \in [Handlers -> Calls]
                /\ held \in [Handlers -> Scannings \cup {None}]
                /\ \A h \in Handlers : at[h] # "free" => held[h] \in Scannings

\* A scan that has claimed a token holds its row, and the token is unused.
ClaimsHold == \A h \in Handlers : at[h] = "record" =>
                 /\ locked[held[h].scan.code] = h
                 /\ usedBy[held[h].scan.code] = None

CheckInInv == /\ CheckInTypeOK /\ RequestTypes
              /\ ClaimsHold /\ UsedTokenLetIn /\ ToldIsListed

LEMMA InitInv == CheckInInit => CheckInInv
BY CheckInAssumption
   DEF CheckInInit, RequestsInit, CheckInInv, CheckInTypeOK, RequestTypes, Calls, Scannings,
       ClaimsHold, UsedTokenLetIn, ToldIsListed

\* Going on to another call keeps the types of what the requests hold.
LEMMA GotoTypes ==
    ASSUME NEW h \in Handlers, NEW call \in Calls, NEW x,
           call # "free" => x \in Scannings, x \in Scannings \cup {None},
           RequestTypes, Goto(h, call, x)
    PROVE  RequestTypes'
BY DEF RequestTypes, Goto

\* The records only grow, so who was listed stays listed, and a key that was
\* another's stays another's.
LEMMA AnswerStays ==
    ASSUME records \subseteq records', NEW s, NEW n, NEW k,
           RecordsOf(s, n) # {} \/ Borrowed(s, n, k)
    PROVE  RecordsOf(s, n)' # {} \/ Borrowed(s, n, k)'
BY DEF RecordsOf, Borrowed

\* A step that leaves the rows and the locks alone, and sends no request to
\* "record" or "reply", preserves the invariant.
LEMMA QuietStep ==
    ASSUME CheckInInv, RequestTypes', NEW h \in Handlers, NEW call \in Calls, NEW x,
           Goto(h, call, x), call \notin {"record", "reply"},
           tokens' = tokens, closed' = closed,
           UNCHANGED <<usedBy, records, locked>>
    PROVE  CheckInInv'
BY DEF CheckInInv, CheckInTypeOK, RequestTypes, ClaimsHold, UsedTokenLetIn,
       ToldIsListed, Borrowed, RecordsOf, Goto

\* A request that goes on to answer with a record has found one it may.
LEMMA FoundStep ==
    ASSUME CheckInInv, NEW h \in Handlers, held[h] \in Scannings,
           Goto(h, "reply", held[h]), UNCHANGED checkInRows,
           \/ RecordsOf(held[h].scan.student, SessionOf[held[h].scan.code]) # {}
           \/ Borrowed(held[h].scan.student, SessionOf[held[h].scan.code], held[h].scan.key)
    PROVE  CheckInInv'
<1>1. RequestTypes'
  BY GotoTypes DEF CheckInInv, Calls
<1>2. CheckInTypeOK' /\ UsedTokenLetIn'
  BY DEF CheckInInv, CheckInTypeOK, UsedTokenLetIn, checkInRows
<1>3. ClaimsHold'
  BY DEF CheckInInv, ClaimsHold, RequestTypes, Goto, checkInRows
<1>4. ToldIsListed'
  BY DEF CheckInInv, ToldIsListed, Borrowed, RecordsOf, RequestTypes, Goto, checkInRows
<1> QED BY <1>1, <1>2, <1>3, <1>4 DEF CheckInInv

LEMMA ScanReadStep ==
    ASSUME CheckInInv, NEW h \in Handlers, NEW x \in Scans, ScanRead(h, x)
    PROVE  CheckInInv'
<1> DEFINE late == tokens[x.code] = "expired" \/ SessionOf[x.code] \in closed
           locals == Scanning(x, usedBy[x.code], late)
<1>1. locals \in Scannings
  BY DEF Scanning, Scannings, Scans, CheckInInv, CheckInTypeOK
<1>2. Goto(h, "look", locals) /\ UNCHANGED checkInRows
  BY DEF ScanRead
<1> HIDE DEF locals
<1>3. RequestTypes'
  BY <1>1, <1>2, GotoTypes DEF CheckInInv, Calls
<1> QED BY <1>2, <1>3, QuietStep DEF Calls, checkInRows

LEMMA LookStep ==
    ASSUME CheckInInv, NEW h \in Handlers, Look(h)
    PROVE  CheckInInv'
<1> DEFINE x == held[h].scan
           n == SessionOf[held[h].scan.code]
<1>1. held[h] \in Scannings /\ x \in Scans /\ at[h] = "look"
  BY DEF Look, CheckInInv, RequestTypes, Scannings
<1>2. CASE /\ Goto(h, "reply", held[h])
           /\ RecordsOf(x.student, n) # {} \/ Borrowed(x.student, n, x.key)
  BY <1>1, <1>2, FoundStep DEF Look
<1>3. CASE Answer(h) \/ Goto(h, "claim", held[h])
  <2>1. RequestTypes'
    BY <1>1, <1>3, GotoTypes DEF CheckInInv, Answer, Calls
  <2>2. CASE Answer(h)
    BY <1>3, <2>1, <2>2, QuietStep DEF Look, Answer, Calls, checkInRows
  <2>3. CASE Goto(h, "claim", held[h])
    BY <1>3, <2>1, <2>3, QuietStep DEF Look, Calls, checkInRows
  <2> QED BY <1>3, <2>2, <2>3
<1>4. KnownKey(x.key) => RecordsOf(x.student, n) # {} \/ Borrowed(x.student, n, x.key)
  BY DEF KnownKey, RecordsOf, Borrowed
<1> QED BY <1>2, <1>3, <1>4 DEF Look

\* Claiming the token: the lock of its row is free, and so is the token.
LEMMA ClaimStep ==
    ASSUME CheckInInv, NEW h \in Handlers, ClaimToken(h)
    PROVE  CheckInInv'
<1> DEFINE x == held[h].scan
           c == held[h].scan.code
<1>1. held[h] \in Scannings /\ x \in Scans /\ c \in Codes /\ at[h] = "claim"
  BY DEF ClaimToken, CheckInInv, RequestTypes, Scannings, Scans
<1>2. CASE ClaimableToken(c)
  <2>1. /\ usedBy[c] = None /\ locked[c] = None
        /\ locked' = [locked EXCEPT ![c] = h]
        /\ Goto(h, "record", held[h])
        /\ UNCHANGED <<tokens, usedBy, records, closed>>
    BY <1>2 DEF ClaimToken, ClaimableToken
  <2>2. RequestTypes'
    BY <1>1, <2>1, GotoTypes DEF CheckInInv, Calls
  <2>3. CheckInTypeOK'
    BY <1>1, <2>1 DEF CheckInInv, CheckInTypeOK
  <2>4. ClaimsHold'
    <3> SUFFICES ASSUME NEW g \in Handlers, at'[g] = "record"
                 PROVE  /\ locked'[held'[g].scan.code] = g
                        /\ usedBy[held'[g].scan.code] = None
      BY <2>1 DEF ClaimsHold
    <3>1. CASE g = h
      BY <1>1, <2>1, <3>1 DEF Goto, CheckInInv, CheckInTypeOK, RequestTypes
    <3>2. CASE g # h
      <4>1. at[g] = "record" /\ held'[g] = held[g]
        BY <2>1, <3>2 DEF Goto, CheckInInv, RequestTypes
      <4>2. locked[held[g].scan.code] = g /\ usedBy[held[g].scan.code] = None
        BY <4>1 DEF CheckInInv, ClaimsHold
      <4>3. held[g].scan.code # c
        BY <2>1, <4>2, CheckInAssumption
      <4>4. held[g].scan.code \in Codes
        BY <4>1 DEF CheckInInv, RequestTypes, Scannings, Scans
      <4> QED BY <2>1, <4>1, <4>2, <4>3, <4>4 DEF CheckInInv, CheckInTypeOK
    <3> QED BY <3>1, <3>2
  <2>5. ToldIsListed'
    BY <2>1 DEF CheckInInv, ToldIsListed, Borrowed, RecordsOf, Goto, RequestTypes
  <2> QED BY <2>1, <2>2, <2>3, <2>4, <2>5 DEF CheckInInv, UsedTokenLetIn
<1>3. CASE ~ClaimableToken(c)
  <2>1. Answer(h) /\ UNCHANGED <<tokens, usedBy, records, closed, locked>>
    BY <1>3 DEF ClaimToken, ClaimLost
  <2>2. RequestTypes'
    BY <2>1, GotoTypes, None \in Scannings \cup {None} DEF CheckInInv, Answer, Calls
  <2> QED BY <2>1, <2>2, QuietStep DEF Answer, Calls
<1> QED BY <1>2, <1>3

\* The record and the mark on the token are committed together.
LEMMA RecordStep ==
    ASSUME CheckInInv, NEW h \in Handlers, RecordScan(h)
    PROVE  CheckInInv'
<1> DEFINE x == held[h].scan
           c == held[h].scan.code
           n == SessionOf[c]
           free == RecordsOf(x.student, n) = {}
<1>1. held[h] \in Scannings /\ x \in Scans /\ c \in Codes /\ x.student \in Students
  BY DEF RecordScan, CheckInInv, RequestTypes, Scannings, Scans
<1>2. locked[c] = h /\ usedBy[c] = None /\ at[h] = "record"
  BY DEF RecordScan, CheckInInv, ClaimsHold
<1>3. /\ locked' = [locked EXCEPT ![c] = None]
      /\ usedBy' = IF free THEN [usedBy EXCEPT ![c] = x.student] ELSE usedBy
      /\ records' = IF free THEN records \cup {x} ELSE records
      /\ Goto(h, "reply", held[h])
      /\ UNCHANGED <<tokens, closed>>
  BY DEF RecordScan, ClaimCommits
<1>4. RequestTypes'
  BY <1>1, <1>3, GotoTypes DEF CheckInInv, Calls
<1>5. CheckInTypeOK'
  BY <1>1, <1>3 DEF CheckInInv, CheckInTypeOK
<1>6. \E r \in records' : r.student = x.student /\ SessionOf[r.code] = n
  BY <1>3 DEF RecordsOf
<1>7. records \subseteq records'
  BY <1>3
<1>8. ClaimsHold'
  <2> SUFFICES ASSUME NEW g \in Handlers, at'[g] = "record"
               PROVE  /\ locked'[held'[g].scan.code] = g
                      /\ usedBy'[held'[g].scan.code] = None
    BY DEF ClaimsHold
  <2>1. g # h /\ at[g] = "record" /\ held'[g] = held[g]
    BY <1>3 DEF Goto, CheckInInv, RequestTypes
  <2>2. /\ locked[held[g].scan.code] = g /\ usedBy[held[g].scan.code] = None
        /\ held[g].scan.code \in Codes
    BY <2>1 DEF CheckInInv, ClaimsHold, RequestTypes, Scannings, Scans
  <2>3. held[g].scan.code # c
    BY <1>2, <2>1, <2>2
  <2> QED BY <1>1, <1>3, <2>1, <2>2, <2>3 DEF CheckInInv, CheckInTypeOK
<1>9. ToldIsListed'
  <2> SUFFICES ASSUME NEW g \in Handlers, at'[g] = "reply", NEW y, y = held'[g].scan
               PROVE  \/ RecordsOf(y.student, SessionOf[y.code])' # {}
                      \/ Borrowed(y.student, SessionOf[y.code], y.key)'
    BY DEF ToldIsListed, RecordsOf, Borrowed
  <2>1. CASE g = h
    <3>1. y = x
      BY <1>3, <2>1 DEF Goto, CheckInInv, RequestTypes
    <3> QED BY <1>6, <3>1 DEF RecordsOf
  <2>2. CASE g # h
    <3>1. at[g] = "reply" /\ held'[g] = held[g]
      BY <1>3, <2>2 DEF Goto, CheckInInv, RequestTypes
    <3>2. \/ RecordsOf(y.student, SessionOf[y.code]) # {}
          \/ Borrowed(y.student, SessionOf[y.code], y.key)
      BY <3>1 DEF CheckInInv, ToldIsListed
    <3> QED BY <1>7, <3>2, AnswerStays
  <2> QED BY <2>1, <2>2
<1>10. UsedTokenLetIn'
  <2> SUFFICES ASSUME NEW d \in Codes, NEW s \in Students
               PROVE  usedBy'[d] = s <=> \E r \in records' : r.code = d /\ r.student = s
    BY DEF UsedTokenLetIn
  <2>1. usedBy[d] = s <=> \E r \in records : r.code = d /\ r.student = s
    BY DEF CheckInInv, UsedTokenLetIn
  <2>2. CASE free /\ d = c
    <3>1. \A r \in records : r.code # c
      BY <1>1, <1>2, CheckInAssumption DEF CheckInInv, CheckInTypeOK, UsedTokenLetIn, Scans
    <3>2. usedBy'[c] = x.student
      BY <1>1, <1>3, <2>2 DEF CheckInInv, CheckInTypeOK
    <3> QED BY <1>3, <2>2, <3>1, <3>2
  <2>3. CASE ~(free /\ d = c)
    BY <1>1, <1>3, <2>1, <2>3 DEF CheckInInv, CheckInTypeOK
  <2> QED BY <2>2, <2>3
<1> QED BY <1>4, <1>5, <1>8, <1>9, <1>10 DEF CheckInInv

LEMMA ReplyStep ==
    ASSUME CheckInInv, NEW h \in Handlers, ScanReply(h)
    PROVE  CheckInInv'
<1>1. RequestTypes'
  BY GotoTypes, None \in Scannings \cup {None} DEF CheckInInv, ScanReply, Answer, Calls
<1> QED BY <1>1, QuietStep DEF ScanReply, Answer, Calls, checkInRows

\* A request that fails gives its row lock up and nothing else.
LEMMA FailStep ==
    ASSUME CheckInInv, NEW h \in Handlers, ScanFails(h)
    PROVE  CheckInInv'
<1>1. RequestTypes'
  BY GotoTypes, None \in Scannings \cup {None} DEF CheckInInv, ScanFails, Answer, Calls
<1>2. CheckInTypeOK'
  BY DEF CheckInInv, CheckInTypeOK, ScanFails
<1>3. ClaimsHold'
  <2> SUFFICES ASSUME NEW g \in Handlers, at'[g] = "record"
               PROVE  /\ locked'[held'[g].scan.code] = g
                      /\ usedBy'[held'[g].scan.code] = None
    BY DEF ClaimsHold
  <2>1. g # h /\ at[g] = "record" /\ held'[g] = held[g]
    BY DEF ScanFails, Answer, Goto, CheckInInv, RequestTypes
  <2>2. /\ locked[held[g].scan.code] = g /\ usedBy[held[g].scan.code] = None
        /\ held[g].scan.code \in Codes
    BY <2>1 DEF CheckInInv, ClaimsHold, RequestTypes, Scannings, Scans
  <2> QED BY <2>1, <2>2 DEF ScanFails
<1>4. ToldIsListed'
  BY DEF CheckInInv, ToldIsListed, Borrowed, RecordsOf, ScanFails, Answer, Goto, RequestTypes
<1> QED BY <1>1, <1>2, <1>3, <1>4 DEF CheckInInv, ScanFails, UsedTokenLetIn

\* Showing a token, its expiry and the end of a session write nothing a scan
\* in progress relies on.
LEMMA WorldStep ==
    ASSUME CheckInInv,
           \/ \E c \in Codes : GenerateToken(c) \/ TokenExpires(c)
           \/ \E n \in Sessions : SessionEnds(n)
    PROVE  CheckInInv'
<1>1. UNCHANGED <<requestVars, usedBy, records, locked>>
  BY DEF GenerateToken, TokenExpires, SessionEnds
<1>2. CheckInTypeOK'
  BY <1>1 DEF CheckInInv, CheckInTypeOK, GenerateToken, TokenExpires, SessionEnds
<1> QED BY <1>1, <1>2
        DEF CheckInInv, requestVars, RequestTypes, ClaimsHold, UsedTokenLetIn,
            ToldIsListed, Borrowed, RecordsOf

LEMMA NextInv == CheckInInv /\ [CheckInNext]_checkInVars => CheckInInv'
<1> SUFFICES ASSUME CheckInInv, [CheckInNext]_checkInVars PROVE CheckInInv'
  OBVIOUS
<1>1. CASE UNCHANGED checkInVars
  BY <1>1 DEF CheckInInv, CheckInTypeOK, RequestTypes, ClaimsHold,
              UsedTokenLetIn, ToldIsListed, Borrowed, RecordsOf, checkInVars, checkInRows, requestVars
<1>2. CASE CheckInNext
  BY <1>2, ScanReadStep, LookStep, ClaimStep, RecordStep, ReplyStep, FailStep, WorldStep
     DEF CheckInNext
<1> QED BY <1>1, <1>2

THEOREM Invariance == CheckInSpec => []CheckInInv
BY InitInv, NextInv, PTL DEF CheckInSpec

-----------------------------------------------------------------------------
\* However scans overlap and break off, a token counts as used exactly when it
\* let its user in: the claim of attendance.service.ts:384 and the insertion
\* that follows are one transaction.
THEOREM ClaimsAreKept == CheckInSpec => []UsedTokenLetIn
BY Invariance, PTL DEF CheckInInv

\* Whose scan is answered with a record is in the register of its session, on any
\* of the ways in which a scan is answered (attendance.service.ts:336-430), unless
\* it carried a key under which another student, or a scan of another session, is
\* recorded: the look-up by key asks for nothing else.
THEOREM AnswersAreTrue == CheckInSpec => []ToldIsListed
BY Invariance, PTL DEF CheckInInv

\* The only step that changes the register enters one student, who was not
\* listed, with a code nobody had come in with.
LEMMA EntersOrKeeps ==
    ASSUME CheckInInv, CheckInNext
    PROVE  \/ UNCHANGED {<<r.student, r.code>> : r \in records}
           \/ \E s \in Students, c \in Codes : Promise!Enter(s, c)
<1>1. CASE \E h \in Handlers : RecordScan(h)
  <2> PICK h \in Handlers : RecordScan(h)
    BY <1>1
  <2> DEFINE x == held[h].scan
             c == held[h].scan.code
  <2>1. x \in Scans /\ c \in Codes /\ x.student \in Students
    BY DEF RecordScan, CheckInInv, RequestTypes, Scannings, Scans
  <2>2. usedBy[c] = None
    BY DEF RecordScan, CheckInInv, ClaimsHold
  <2>3. CASE RecordsOf(x.student, SessionOf[c]) # {}
    BY <2>3 DEF RecordScan
  <2>4. CASE RecordsOf(x.student, SessionOf[c]) = {}
    <3>1. records' = records \cup {x}
      BY <2>4 DEF RecordScan
    <3>2. {<<r.student, r.code>> : r \in records'}
             = {<<r.student, r.code>> : r \in records} \cup {<<x.student, c>>}
      BY <3>1
    <3>3. ~Promise!Listed(x.student, SessionOf[c])
      BY <2>4 DEF Promise!Listed, RecordsOf
    <3>4. \A p \in {<<r.student, r.code>> : r \in records} : p[2] # c
      BY <2>1, <2>2, CheckInAssumption DEF CheckInInv, CheckInTypeOK, UsedTokenLetIn, Scans
    <3>5. Promise!Enter(x.student, c)
      BY <3>2, <3>3, <3>4 DEF Promise!Enter
    <3> QED BY <2>1, <3>5 DEF Promise!Enter, Promise!Listed
  <2> QED BY <2>3, <2>4
<1>2. CASE ~\E h \in Handlers : RecordScan(h)
  <2>1. UNCHANGED records
    BY <1>2 DEF CheckInNext, GenerateToken, TokenExpires, SessionEnds, ScanRead, Look,
                ClaimToken, ScanReply, ScanFails, checkInRows
  <2> QED BY <2>1
<1> QED BY <1>1, <1>2

\* The handlers keep the promise of Register: one entry per student and session,
\* one student per code, no entry taken back.
THEOREM Refinement == CheckInSpec => KeepsRegister
<1>1. CheckInInit => Promise!RegisterInit
  BY DEF CheckInInit, Promise!RegisterInit
<1>2. CheckInInv /\ [CheckInNext]_checkInVars
         => [\E s \in Students, c \in Codes : Promise!Enter(s, c)]_({<<r.student, r.code>> : r \in records})
  <2>1. CASE UNCHANGED checkInVars
    BY <2>1 DEF checkInVars, checkInRows
  <2>2. CASE CheckInNext
    BY <2>2, EntersOrKeeps
  <2> QED BY <2>1, <2>2
<1> QED BY <1>1, <1>2, Invariance, PTL DEF CheckInSpec, KeepsRegister, Promise!RegisterSpec
=============================================================================
