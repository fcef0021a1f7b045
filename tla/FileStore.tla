----------------------------- MODULE FileStore -----------------------------
(***************************************************************************)
(* Uploaded files and the daily removal of orphans (modules/storage,       *)
(* jobs/processors/storage-cleanup.processor.ts).  A client uploads a file *)
(* and then, in another request, saves its path in some row; the removal   *)
(* reads the paths of a fixed list of tables, walks the directories and    *)
(* deletes what no path names and what is old enough.                      *)
(***************************************************************************)
EXTENDS Naturals, Requests

CONSTANTS Uploads,         \* paths; a stored name is used once
          Tables,          \* tables with a column for a path
          Watched,         \* those loadReferencedPaths reads
          RetentionDays,   \* STORAGE_ORPHAN_RETENTION_DAYS
          LastDay          \* bound: the calendar stops here

ASSUME FileAssumption == /\ Watched \subseteq Tables
                         /\ RetentionDays \in Nat \ {0} /\ LastDay \in Nat

VARIABLES mtime,     \* mtime[f] - the day the file was stored, or None
          disk,      \* the files there are
          savedOn,   \* savedOn[t][f] - since when a row of t has the path, or None
          day,       \* the calendar
          longest    \* how many days the longest removal has taken

fileRows == <<mtime, disk, savedOn, day, longest>>
fileVars == <<requestVars, fileRows>>

CalendarDays == 0..LastDay

ASSUME FileRowAssumption == None \notin CalendarDays

FileInit == /\ RequestsInit
            /\ mtime = [f \in Uploads |-> None]
            /\ disk = {}
            /\ savedOn = [t \in Tables |-> [f \in Uploads |-> None]]
            /\ day = 0
            /\ longest = 0

-----------------------------------------------------------------------------
\* LocalStorageProvider.save.  Every file is taken to get a new name; the code makes
\* it of Date.now() and the client's name, so two files of one name stored in one
\* folder in one millisecond would share it.  A path is saved as normalizeRef reads it.
Upload(f) ==
    /\ mtime[f] = None
    /\ mtime' = [mtime EXCEPT ![f] = day]
    /\ disk' = disk \cup {f}
    /\ UNCHANGED <<requestVars, savedOn, day, longest>>

\* A row gets the path the upload answered with: nobody looks whether the file is
\* still there.
SavePath(t, f) ==
    /\ mtime[f] # None
    /\ savedOn[t][f] = None
    /\ savedOn' = [savedOn EXCEPT ![t][f] = day]
    /\ UNCHANGED <<requestVars, mtime, disk, day, longest>>

\* The row is deleted or gets another path: the file stays.
DropPath(t, f) ==
    /\ savedOn[t][f] # None
    /\ savedOn' = [savedOn EXCEPT ![t][f] = None]
    /\ UNCHANGED <<requestVars, mtime, disk, day, longest>>

-----------------------------------------------------------------------------
PathsIn(t) == {f \in Uploads : savedOn[t][f] # None}

\* Seven queries are sent at once and each sees its table at a moment of its own.
CleanupStarts(h) ==
    /\ MayStart(h)
    /\ Goto(h, "paths", [unread |-> Watched, referenced |-> {}, began |-> day])
    /\ UNCHANGED fileRows

LoadPaths(h) ==
    /\ at[h] = "paths"
    /\ \E t \in held[h].unread :
          Goto(h, "paths", [held[h] EXCEPT !.unread = @ \ {t}, !.referenced = @ \cup PathsIn(t)])
    /\ UNCHANGED fileRows

\* Mutant: the retention is not asked for.
Unchecked(f) == TRUE

\* Not newer than the cutoff, which is computed after the walk.
PastRetention(f) == mtime[f] + RetentionDays <= day

\* The walk collects the files.  Those that go are known once it is over: a
\* stored file never changes its date.
Walk(h) ==
    /\ at[h] = "paths"
    /\ held[h].unread = {}
    /\ Goto(h, "delete", [orphans |-> {f \in disk \ held[h].referenced : PastRetention(f)},
                          began |-> held[h].began])
    /\ UNCHANGED fileRows

DeleteOrphan(h) ==
    /\ at[h] = "delete"
    /\ \E f \in held[h].orphans :
          /\ disk' = disk \ {f}
          /\ Goto(h, "delete", [held[h] EXCEPT !.orphans = @ \ {f}])
    /\ longest' = IF day - held[h].began > longest THEN day - held[h].began ELSE longest
    /\ UNCHANGED <<mtime, savedOn, day>>

\* It is over, or the process stops, wherever it is.
CleanupEnds(h) == /\ at[h] # "free"
                  /\ Answer(h)
                  /\ UNCHANGED fileRows

DayPasses == /\ day < LastDay
             /\ day' = day + 1
             /\ UNCHANGED <<requestVars, mtime, disk, savedOn, longest>>

FileNext == \/ \E f \in Uploads : \/ Upload(f)
                                  \/ \E t \in Tables : SavePath(t, f) \/ DropPath(t, f)
            \/ \E h \in Handlers : \/ CleanupStarts(h) \/ LoadPaths(h) \/ Walk(h)
                                   \/ DeleteOrphan(h) \/ CleanupEnds(h)
            \/ DayPasses

FileSpec == FileInit /\ [][FileNext]_fileVars

-----------------------------------------------------------------------------
\* Properties.

FileTypeOK == /\ mtime \in [Uploads -> CalendarDays \cup {None}]
              /\ disk \subseteq Uploads
              /\ savedOn \in [Tables -> [Uploads -> CalendarDays \cup {None}]]
              /\ day \in CalendarDays /\ longest \in CalendarDays

\* A file whose path a watched row got before its retention was over, less the
\* time a removal takes from its first query to its last deletion, is there as
\* long as the row names it; on whatever day the removals run, however many
\* overlap, and wherever one stops.
NamedFilesStay ==
    \A t \in Watched, f \in Uploads :
        savedOn[t][f] # None => \/ f \in disk
                                \/ savedOn[t][f] + longest >= mtime[f] + RetentionDays

\* The same for every table.  It is false: the documents of applicants, the
\* pictures of users and the attachments of assignments are in tables the removal
\* does not read.
AllNamedFilesStay ==
    \A t \in Tables, f \in Uploads :
        savedOn[t][f] # None => \/ f \in disk
                                \/ savedOn[t][f] + longest >= mtime[f] + RetentionDays
=============================================================================
