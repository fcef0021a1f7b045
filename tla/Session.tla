------------------------------ MODULE Session ------------------------------
(***************************************************************************)
(* The account of one user and the refresh tokens of its sessions          *)
(* (auth/auth.service.ts; users share no rows).  Nothing is a transaction: *)
(* each handler reads, decides and then writes, one statement after the    *)
(* other.  Passwords are numbered in the order in which they are set.      *)
(***************************************************************************)
EXTENDS Naturals, Requests

CONSTANTS LOGIN_FAIL_LIMIT,   \* LOGIN_FAIL_LIMIT wrong passwords lock the account ...
          LockHours,          \* ... for this long (LOGIN_LOCK_MINUTES)
          MaxTokens,          \* bound: sessions opened or refreshed
          MaxPasswords,       \* bound: passwords set after the first
          LastClock           \* bound: the clock stops here

ASSUME SessionAssumption == /\ LOGIN_FAIL_LIMIT \in Nat \ {0} /\ LockHours \in Nat
                            /\ MaxTokens \in Nat /\ MaxPasswords \in Nat /\ LastClock \in Nat

VARIABLES account,   \* the User row
          sessions,  \* sessions[t] - the RefreshToken row t, or None
          clock,     \* the clock of the server
          settled,   \* the last password whose reset or change has been confirmed
          misses     \* if alone: wrong passwords in a row since a lock has ended,
                     \* and when the last one came

sessionRows == <<account, sessions, clock, settled, misses>>
sessionVars == <<requestVars, sessionRows>>

TokenIds == 1..MaxTokens
Passwords == 0..MaxPasswords
Clock == 0..LastClock

\* failed_login_attempts and locked_until; a lock may end after the clock stops.
UserRows == [password : Passwords, fails : Nat, until : Nat \cup {None}]

\* born is the password the session was opened with and from the token it
\* replaces, or 0; neither is in the row.
TokenRows == [live : BOOLEAN, born : Passwords, from : 0..MaxTokens]

ASSUME SessionRowAssumption == None \notin TokenRows \cup Nat

SessionInit == /\ RequestsInit
               /\ account = [password |-> 0, fails |-> 0, until |-> None]
               /\ sessions = [t \in TokenIds |-> None]
               /\ clock = 0
               /\ settled = 0
               /\ misses = [count |-> 0, last |-> 0]

-----------------------------------------------------------------------------
\* assertNotLocked.  It does not take the counter back when the lock has ended:
\* the update it starts is never awaited, and Prisma sends no query before that.
Locked(user) == /\ user.fails >= LOGIN_FAIL_LIMIT
                /\ user.until = None \/ user.until > clock

\* login: the row is read, the password is compared with the hash in it.
LoginRead(h) ==
    /\ MayStart(h)
    /\ ~Locked(account)
    /\ \/ Goto(h, "miss", [fails |-> account.fails])
       \/ Goto(h, "hit", [knew |-> account.password, token |-> 0])
    /\ UNCHANGED sessionRows

\* Mutant: only the miss that reaches the limit sets the lock.
CountedOnce(fails) == IF fails = LOGIN_FAIL_LIMIT THEN clock + LockHours ELSE account.until

\* locked_until after so many misses.
Counted(fails) == IF fails >= LOGIN_FAIL_LIMIT THEN clock + LockHours ELSE account.until

\* The wrong passwords before a lock that has ended are not to be counted.
LockIsOver == misses.count >= LOGIN_FAIL_LIMIT /\ clock >= misses.last + LockHours

Miss(h) ==
    LET fails == held[h].fails + 1 IN
    /\ at[h] = "miss"
    /\ account' = [account EXCEPT !.fails = fails, !.until = Counted(fails)]
    /\ misses' = IF alone
                 THEN [count |-> IF LockIsOver THEN 1 ELSE misses.count + 1, last |-> clock]
                 ELSE misses
    /\ Answer(h)
    /\ UNCHANGED <<sessions, clock, settled>>

Hit(h) ==
    /\ at[h] = "hit"
    /\ account' = [account EXCEPT !.fails = 0, !.until = None]
    /\ misses' = [misses EXCEPT !.count = 0]
    /\ Goto(h, "issue", held[h])
    /\ UNCHANGED <<sessions, clock, settled>>

\* persistRefreshToken: a new row, for a login or for the token it replaces.
Issue(h) ==
    /\ at[h] = "issue"
    /\ \E t \in TokenIds :
          /\ sessions[t] = None
          /\ \A u \in 1..(t - 1) : sessions[u] # None
          /\ sessions' = [sessions EXCEPT ![t] =
                [live |-> TRUE, born |-> held[h].knew, from |-> held[h].token]]
    /\ Answer(h)
    /\ UNCHANGED <<account, clock, settled, misses>>

-----------------------------------------------------------------------------
\* Mutant: a revoked token is as good as any.
GoodAny(t) == sessions[t] # None

\* Known and not revoked.  (That a token expires only refuses more.)
Good(t) == sessions[t] # None /\ sessions[t].live

RefreshRead(h, t) ==
    /\ MayStart(h)
    /\ Good(t)
    /\ Goto(h, "rotate", [knew |-> sessions[t].born, token |-> t])
    /\ UNCHANGED sessionRows

Revoked(t) == IF sessions[t] = None THEN None ELSE [sessions[t] EXCEPT !.live = FALSE]

Rotate(h) ==
    LET t == held[h].token IN
    /\ at[h] = "rotate"
    /\ sessions' = [sessions EXCEPT ![t] = Revoked(t)]
    /\ Goto(h, "issue", held[h])
    /\ UNCHANGED <<account, clock, settled, misses>>

Logout(h, t) ==
    /\ MayStart(h)
    /\ Good(t)
    /\ sessions' = [sessions EXCEPT ![t] = Revoked(t)]
    /\ UNCHANGED <<requestVars, account, clock, settled, misses>>

-----------------------------------------------------------------------------
\* resetPasswordByOperator, and changePassword with the right current password:
\* the account is read, then two statements.
PasswordRead(h) ==
    /\ MayStart(h)
    /\ Goto(h, "set", [knew |-> account.password])
    /\ UNCHANGED sessionRows

SetPassword(h) ==
    /\ at[h] = "set"
    /\ account.password < MaxPasswords
    /\ account' = [password |-> account.password + 1, fails |-> 0, until |-> None]
    /\ misses' = [misses EXCEPT !.count = 0]
    /\ Goto(h, "revoke", [knew |-> account.password + 1])
    /\ UNCHANGED <<sessions, clock, settled>>

RevokeAll(h) ==
    /\ at[h] = "revoke"
    /\ sessions' = [t \in TokenIds |-> Revoked(t)]
    /\ settled' = IF held[h].knew > settled THEN held[h].knew ELSE settled
    /\ Answer(h)
    /\ UNCHANGED <<account, clock, misses>>

-----------------------------------------------------------------------------
\* A query fails, or the process stops: the handler has no further effect.
SessionFails(h) == /\ at[h] # "free"
                   /\ Answer(h)
                   /\ UNCHANGED sessionRows

ClockAdvances == /\ clock < LastClock
                 /\ clock' = clock + 1
                 /\ UNCHANGED <<requestVars, account, sessions, settled, misses>>

SessionStep(h) ==
    \/ LoginRead(h) \/ Miss(h) \/ Hit(h) \/ Issue(h)
    \/ \E t \in TokenIds : RefreshRead(h, t) \/ Logout(h, t)
    \/ Rotate(h) \/ PasswordRead(h) \/ SetPassword(h) \/ RevokeAll(h)

SessionNext == \/ \E h \in Handlers : SessionStep(h) \/ SessionFails(h)
               \/ ClockAdvances

SessionSpec == SessionInit /\ [][SessionNext]_sessionVars

-----------------------------------------------------------------------------
\* Properties.

SessionTypeOK == /\ account \in UserRows
                 /\ sessions \in [TokenIds -> TokenRows \cup {None}]
                 /\ clock \in Clock
                 /\ settled \in Passwords
                 /\ misses \in [count : Nat, last : Clock]

\* A token that was exchanged for another one is dead, however requests overlap;
\* and while they do not, it was exchanged once, and no session that was opened
\* before a confirmed reset or change of the password goes on after it,
\* refreshed or not, whatever stopped half-way before.
OldSessionsEnd ==
    \A s \in TokenIds :
        sessions[s] # None =>
            /\ sessions[s].from # 0 => ~sessions[sessions[s].from].live
            /\ alone => /\ sessions[s].live => sessions[s].born >= settled
                        /\ \A t \in TokenIds \ {s} :
                              sessions[t] # None /\ sessions[t].from = sessions[s].from =>
                                  sessions[s].from = 0

\* While requests do not overlap, an account is locked after so many wrong
\* passwords in a row, a second time as well as the first, and for its time: no
\* query that fails in between makes it forget one.  Those from before a lock
\* that has ended need not count: whether they do is left open, because the
\* comment in assertNotLocked says no and what it does, without the await, is yes.
LockedInTime ==
    alone /\ misses.count >= LOGIN_FAIL_LIMIT /\ clock < misses.last + LockHours
        => Locked(account)
=============================================================================
