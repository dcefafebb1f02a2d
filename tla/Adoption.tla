------------------------------ MODULE Adoption ------------------------------
(***************************************************************************)
(* The launch of the app (the setup closure of src-tauri/src/main.rs) and  *)
(* the adoption of the previous version's database                         *)
(* (backend/core/src/data_migration.rs): the sidecar files are copied      *)
(* first, then the database under a temporary name that is renamed last.   *)
(* The app can be killed between two steps and in the middle of a copy,    *)
(* and a copy can fail.                                                    *)
(*                                                                         *)
(* What a database holds is opaque here.  A write-ahead log is the content *)
(* it was started from and the content it leads to: SQLite replays its     *)
(* frames over whatever database file lies beside it, so a log over        *)
(* another base makes a mixture.  The -shm file holds nothing SQLite does  *)
(* not rebuild.                                                            *)
(***************************************************************************)
CONSTANTS None,            \* no such file
          Torn,            \* a file cut short, or pages of two databases mixed
          EmptyTables,     \* what init_pool's migrations make of a new file
          LegacyTables     \* contents the previous version may have saved

VARIABLES legacy,          \* [main, wal] in the directory of the old identifier
          data,            \* [main, wal, partial] in the app's own directory
          launch,          \* where the app is in its setup
          source           \* history: what the legacy database held when it was
                           \* last copied

fileVars == <<legacy, data, launch, source>>

Wal(base, tip) == [base |-> base, tip |-> tip]

\* What SQLite reads from a database file and the log beside it.  A log beside
\* an empty or missing database is discarded.
Content(main, wal) ==
    IF main = None THEN EmptyTables
    ELSE IF wal = None THEN main
    ELSE IF wal = Torn THEN Torn
    ELSE IF wal.base = main THEN wal.tip
    ELSE Torn

LegacyContent == Content(legacy.main, legacy.wal)
OwnContent == Content(data.main, data.wal)

\* A new install, a previous version closed cleanly, or one that was killed
\* with its latest transactions still in the log.
LegacyInit ==
    \/ legacy = [main |-> None, wal |-> None]
    \/ \E t \in LegacyTables : legacy = [main |-> t, wal |-> None]
    \/ \E t, u \in LegacyTables : t # u /\ legacy = [main |-> t, wal |-> Wal(t, u)]

AdoptionInit ==
    /\ LegacyInit
    /\ data = [main |-> None, wal |-> None, partial |-> None]
    /\ launch = "closed"
    /\ source = None

\* mutant: a launch copies over the app's own database
GuardDropped == FALSE

\* The guard of adopt_legacy_app_data: an own database is never replaced, and
\* without a legacy database there is nothing to adopt.
HasOwnDatabase == data.main # None

Launch ==
    /\ launch = "closed"
    /\ launch' = IF HasOwnDatabase \/ legacy.main = None THEN "opening" ELSE "sidecars"
    /\ UNCHANGED <<legacy, data, source>>

\* The first loop: the log is copied when there is one.
CopySidecars ==
    /\ launch = "sidecars"
    /\ data' = IF legacy.wal = None THEN data ELSE [data EXCEPT !.wal = legacy.wal]
    /\ launch' = "database"
    /\ UNCHANGED <<legacy, source>>

\* mutant: no temporary name
StraightToTheDatabase == "main"

\* Where the copy of the database is written to.
CopyTarget == "partial"

CopyDatabase ==
    /\ launch = "database"
    /\ data' = [data EXCEPT ![CopyTarget] = legacy.main]
    /\ source' = LegacyContent
    /\ launch' = "rename"
    /\ UNCHANGED legacy

RenameDatabase ==
    /\ launch = "rename"
    /\ data' = [data EXCEPT !.main = data[CopyTarget], !.partial = None]
    /\ launch' = "opening"
    /\ UNCHANGED <<legacy, source>>

\* fs::copy is not atomic: what it was writing may be left cut short.
CutShort ==
    \/ data' = data
    \/ launch = "sidecars" /\ legacy.wal # None /\ data' = [data EXCEPT !.wal = Torn]
    \/ launch = "database" /\ data' = [data EXCEPT ![CopyTarget] = Torn]

\* A full disk or a permission: the error is logged and the app starts without
\* the previous version's data.
AdoptionFails ==
    /\ launch \in {"sidecars", "database", "rename"}
    /\ CutShort
    /\ launch' = "opening"
    /\ UNCHANGED <<legacy, source>>

\* init_pool opens or creates the database and migrates it.  A database it
\* cannot read ends the app ("failed to initialize database").  From here on
\* data.main stands for what is committed, wherever SQLite keeps it.
OpenDatabase ==
    /\ launch = "opening"
    /\ IF OwnContent = Torn
       THEN launch' = "closed" /\ UNCHANGED data
       ELSE /\ launch' = "running"
            /\ data' = [data EXCEPT !.main = OwnContent, !.wal = None]
    /\ UNCHANGED <<legacy, source>>

\* The app is killed or quits; a commit made while running stays.
Stops ==
    /\ launch # "closed"
    /\ CutShort
    /\ launch' = "closed"
    /\ UNCHANGED <<legacy, source>>

\* The user goes back to the previous version for a while.  It saves something
\* and, closed cleanly, leaves no log behind.  Assumed: not over a log that an
\* interrupted adoption has left in the app's directory.  The next launch
\* copies no log, finds that one, and makes the database a mixture of the two.
OldVersionRuns ==
    /\ launch = "closed"
    /\ data.wal = None
    /\ legacy.main # None
    /\ \E t \in LegacyTables \ {LegacyContent} : legacy' = [main |-> t, wal |-> None]
    /\ UNCHANGED <<data, launch, source>>
=============================================================================
