---------------------------- MODULE Maintenance ----------------------------
(***************************************************************************)
(* The maintenance switch (maintenance/maintenance.service.ts): one row of *)
(* system_status, and a copy of it in the memory of the process that the   *)
(* middleware asks on every request.  The database reads the row at one    *)
(* moment and the process stores the answer at a later one.                *)
(***************************************************************************)
EXTENDS Naturals, Requests

CONSTANTS CacheTtl,   \* MAINTENANCE_CACHE_TTL_MS
          LastTick    \* bound: the clock stops here

ASSUME MaintenanceAssumption == CacheTtl \in Nat \ {0} /\ LastTick \in Nat

VARIABLES switch,     \* maintenance_enabled in the row; no row is "off"
          memo,       \* this.cache, or None
          tick,       \* the clock of the server
          leftAt,     \* leftAt[s] - when the row last changed away from s, or None
          contested   \* two updates have overlapped

maintenanceRows == <<switch, memo, tick, leftAt, contested>>
maintenanceVars == <<requestVars, maintenanceRows>>

Switch == {"on", "off"}
Ticks == 0..LastTick

\* known is FALSE for the default that stands for a row that could not be read.
Memos == [status : Switch, fetchedAt : Ticks, known : BOOLEAN]

ASSUME MaintenanceRowAssumption == None \notin Switch \cup Memos \cup Ticks

MaintenanceInit == /\ RequestsInit
                   /\ switch = "off"
                   /\ memo = None
                   /\ tick = 0
                   /\ leftAt = [s \in Switch |-> None]
                   /\ contested = FALSE

-----------------------------------------------------------------------------
Fresh == memo # None /\ tick - memo.fetchedAt < CacheTtl

\* Somebody is at work on an update.
Updating == \E h \in Handlers : at[h] # "free" /\ held[h].change # None

\* Any request, through the middleware: a fresh copy answers it, and nothing
\* changes; otherwise the time is noted and the row is asked for.
Ask(h) ==
    /\ MayStart(h)
    /\ ~Fresh
    /\ Goto(h, "query", [now |-> tick, change |-> None])
    /\ UNCHANGED maintenanceRows

\* update begins like any other request, to know the state before.
AskUpdate(h, s) ==
    /\ MayStart(h)
    /\ contested' = (contested \/ Updating)
    /\ Goto(h, IF Fresh THEN "upsert" ELSE "query", [now |-> tick, change |-> s])
    /\ UNCHANGED <<switch, memo, tick, leftAt>>

\* The database reads the row, or fails: then the system is taken to be on.
Query(h) ==
    /\ at[h] = "query"
    /\ \/ Goto(h, "fill", [now |-> held[h].now, change |-> held[h].change,
                           status |-> switch, known |-> TRUE])
       \/ Goto(h, "fill", [now |-> held[h].now, change |-> held[h].change,
                           status |-> "off", known |-> FALSE])
    /\ UNCHANGED maintenanceRows

\* Mutant: the copy counts as fetched when the answer has arrived.
FetchedAtLate(locals) == tick

\* The moment before the row was asked for.
FetchedAt(locals) == locals.now

Fill(h) ==
    /\ at[h] = "fill"
    /\ memo' = [status |-> held[h].status, fetchedAt |-> FetchedAt(held[h]),
                known |-> held[h].known]
    /\ IF held[h].change = None THEN Answer(h) ELSE Goto(h, "upsert", held[h])
    /\ UNCHANGED <<switch, tick, leftAt, contested>>

UpsertSwitch(h) ==
    LET s == held[h].change IN
    /\ at[h] = "upsert"
    /\ switch' = s
    /\ leftAt' = IF s = switch THEN leftAt ELSE [leftAt EXCEPT ![switch] = tick]
    /\ Goto(h, "settle", held[h])
    /\ UNCHANGED <<memo, tick, contested>>

\* The copy is replaced by what was written.
Settle(h) ==
    /\ at[h] = "settle"
    /\ memo' = [status |-> held[h].change, fetchedAt |-> tick, known |-> TRUE]
    /\ Answer(h)
    /\ UNCHANGED <<switch, tick, leftAt, contested>>

\* The statement of the update fails.
UpsertSwitchFails(h) == /\ at[h] = "upsert"
                  /\ Answer(h)
                  /\ UNCHANGED maintenanceRows

TickPasses == /\ tick < LastTick
              /\ tick' = tick + 1
              /\ UNCHANGED <<requestVars, switch, memo, leftAt, contested>>

\* The process restarts: its requests and its copy are gone.
ProcessRestarts ==
    /\ at' = [h \in Handlers |-> "free"]
    /\ held' = [h \in Handlers |-> None]
    /\ memo' = None
    /\ contested' = FALSE
    /\ UNCHANGED <<alone, switch, tick, leftAt>>

MaintenanceStep(h) ==
    \/ Ask(h) \/ \E s \in Switch : AskUpdate(h, s)
    \/ Query(h) \/ Fill(h) \/ UpsertSwitch(h) \/ Settle(h) \/ UpsertSwitchFails(h)

MaintenanceNext == \/ \E h \in Handlers : MaintenanceStep(h)
                   \/ TickPasses \/ ProcessRestarts

MaintenanceSpec == MaintenanceInit /\ [][MaintenanceNext]_maintenanceVars

-----------------------------------------------------------------------------
\* Properties.

MaintenanceTypeOK == /\ switch \in Switch
                     /\ memo \in Memos \cup {None}
                     /\ tick \in Ticks
                     /\ leftAt \in [Switch -> Ticks \cup {None}]
                     /\ contested \in BOOLEAN

\* The row was s at or after this moment.
WasSince(s, moment) == s = switch \/ (leftAt[s] # None /\ leftAt[s] >= moment)

\* The status a request is answered with.  If the request has asked the database itself,
\* however long that took, the status was current at its arrival or later.  If the copy
\* answers it and no two updates have overlapped, it was current less than CacheTtl ago,
\* whatever slow queries and updates have stored meanwhile.  And while requests do not
\* overlap, an update is what the next request sees.  (A row that could not be read counts
\* as "off" instead.)
StatusIsRecent ==
    /\ \A h \in Handlers : at[h] = "fill" /\ held[h].known =>
           WasSince(held[h].status, held[h].now)
    /\ Fresh /\ memo.known =>
           /\ ~contested => WasSince(memo.status, memo.fetchedAt)
           /\ alone /\ (\A h \in Handlers : at[h] = "free") => memo.status = switch
=============================================================================
