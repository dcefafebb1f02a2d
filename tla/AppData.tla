------------------------------ MODULE AppData -------------------------------
(***************************************************************************)
(* What the app keeps on the user's machine and the commands that change   *)
(* it: connections and topic schemas (backend/db, commands/connections.rs, *)
(* commands/schema.rs), export files, and the tabs with the tab bar that   *)
(* shows them (commands/tabs.rs, useTabsStore.ts).  The launch that finds  *)
(* or adopts the database is module Adoption.                              *)
(*                                                                         *)
(* A statement commits at once and survives the app.  A command of several *)
(* statements is a job of several steps, and a kill between two of them    *)
(* loses the rest.  A statement that fails changes nothing and is left     *)
(* out.                                                                    *)
(***************************************************************************)
EXTENDS Adoption, PortableConnections, FiniteSetsExt, Functions

CONSTANTS FirstFreshId,    \* the ids below are those of saved rows
          MaxIds,          \* bounds the ids of connections and of tabs
          MaxCommands,     \* bounds the commands the user gives
          MaxStops,        \* bounds how often the app is killed or quits
          ForeignFiles     \* export files that came from other machines

Ids == 1 .. MaxIds

VARIABLES nextConn, nextTab,   \* uuids never given out before
          file,                \* the export file the user keeps
          jobs,                \* commands between two of their statements
          bar, loaded,         \* the tab bar, and whether loadTabs has answered
          dragging,            \* a tab is being dragged
          calls,               \* tab commands in flight
          commands, stops,     \* how much has happened
          owned,               \* history: the app has opened its database
          overtaken            \* history: a tab was created past a new order
                               \* that was on its way

windowVars == <<bar, loaded, dragging, calls, overtaken>>
storeVars == <<nextConn, file, jobs>>
vars == <<fileVars, storeVars, windowVars, nextTab, commands, stops, owned>>

tables == data.main
conns == tables.conns
tabs == tables.tabs

NoRows == <<>>
NoTables == [conns |-> NoRows, schemas |-> {}, tabs |-> NoRows]

\* What a database holds: ids below limit, rows of their types.
TablesOK(t, limit) ==
    /\ t \in [conns : [DOMAIN t.conns -> Row], schemas : SUBSET (1 .. limit),
              tabs : [DOMAIN t.tabs -> Nat]]
    /\ DOMAIN t.conns \union DOMAIN t.tabs \subseteq 1 .. limit

\* list: ORDER BY position; rows of one position come in the order they were
\* inserted.
TabsBefore(positions) ==
    {p \in (DOMAIN positions) \X (DOMAIN positions) :
        \/ positions[p[1]] < positions[p[2]]
        \/ positions[p[1]] = positions[p[2]] /\ p[1] < p[2]}

\* As many positions as there are tabs before it: what every tab has, since
\* one is created behind all others.
Roomy(positions) ==
    \A t \in DOMAIN positions :
        Cardinality({s \in DOMAIN positions : <<s, t>> \in TabsBefore(positions)}) <= positions[t]

ASSUME AppDataAssumption ==
    /\ MaxIds \in Nat /\ MaxCommands \in Nat /\ MaxStops \in Nat
    /\ FirstFreshId \in 1 .. MaxIds + 1
    /\ EmptyTables = NoTables
    /\ \A C, T \in SUBSET Ids :
          None \notin [conns : [C -> Row], schemas : SUBSET Ids, tabs : [T -> Nat]]
    /\ None # Torn /\ \A t, u \in LegacyTables : Wal(t, u) \notin {None, Torn}
    /\ \A t \in LegacyTables :
          /\ TablesOK(t, FirstFreshId - 1) /\ Roomy(t.tabs)
          /\ \A i \in DOMAIN t.conns : t.conns[i].by = "legacy"
    /\ \A f \in ForeignFiles : Parses(f) => f.connections \in Seq(PortableConnection)

Init ==
    /\ AdoptionInit
    /\ nextConn = FirstFreshId /\ nextTab = FirstFreshId
    /\ file = None /\ jobs = {}
    /\ bar = <<>> /\ loaded = FALSE /\ dragging = FALSE /\ calls = {}
    /\ commands = 0 /\ stops = 0 /\ owned = FALSE /\ overtaken = FALSE

Running == launch = "running"

\* One more command of the user's.
Given == Running /\ commands < MaxCommands /\ commands' = commands + 1

Write(t) == data' = [data EXCEPT !.main = t]
With(f, i, x) == [j \in DOMAIN f \union {i} |-> IF j = i THEN x ELSE f[j]]
Without(f, i) == [j \in DOMAIN f \ {i} |-> f[j]]

storeFrame == UNCHANGED <<legacy, launch, source, nextTab, windowVars, stops, owned>>

-----------------------------------------------------------------------------
(* Connections and their schemas.                                          *)

\* Uuid::new_v4: an id no row ever had.
FreshId == nextConn

\* create: one INSERT under a fresh id.
Insert(row) ==
    /\ nextConn \in Ids
    /\ Write([tables EXCEPT !.conns = With(@, FreshId, row)])
    /\ nextConn' = nextConn + 1

ConnectionCreate ==
    /\ Given
    /\ \E n \in Names, g \in {{}, Grants} :
           Insert([name |-> n, grants |-> g, by |-> "user"])
    /\ UNCHANGED <<file, jobs>> /\ storeFrame

\* update: a row that is there gets everything anew.
ConnectionUpdate ==
    /\ Given
    /\ \E i \in DOMAIN conns, n \in Names, g \in {{}, Grants} :
           Write([tables EXCEPT !.conns[i] = [name |-> n, grants |-> g, by |-> "user"]])
    /\ UNCHANGED storeVars /\ storeFrame

\* connection_delete: first the row, then the schemas.
ConnectionDelete ==
    /\ Given
    /\ \E i \in DOMAIN conns :
           /\ Write([tables EXCEPT !.conns = Without(@, i)])
           /\ jobs' = jobs \union {[op |-> "delete", id |-> i]}
    /\ UNCHANGED <<nextConn, file>> /\ storeFrame

DeleteAllForConnection ==
    /\ Running
    /\ \E j \in jobs :
           /\ j.op = "delete"
           /\ Write([tables EXCEPT !.schemas = @ \ {j.id}])
           /\ jobs' = jobs \ {j}
    /\ UNCHANGED <<nextConn, file, commands>> /\ storeFrame

\* topic_schema_set looks at no connection: the pane of one that was just
\* deleted can still save.
TopicSchemaSet ==
    /\ Given
    /\ \E i \in 1 .. nextConn - 1 : Write([tables EXCEPT !.schemas = @ \union {i}])
    /\ UNCHANGED storeVars /\ storeFrame

TopicSchemaDelete ==
    /\ Given
    /\ \E i \in tables.schemas : Write([tables EXCEPT !.schemas = @ \ {i}])
    /\ UNCHANGED storeVars /\ storeFrame

-----------------------------------------------------------------------------
(* Export and import.                                                      *)

\* list: ORDER BY created_at.
ListConnections == Ascending(DOMAIN conns)

\* connections_export: one row or all of them.
ConnectionsExport ==
    /\ Given
    /\ \E ids \in {DOMAIN conns} \union {{i} : i \in DOMAIN conns} :
           file' = ExportFile(select_for_export(conns, ListConnections, ids))
    /\ UNCHANGED <<data, nextConn, jobs>> /\ storeFrame

\* The user picks up a file from another machine.
ReceiveFile ==
    /\ Given
    /\ file' \in ForeignFiles
    /\ UNCHANGED <<data, nextConn, jobs>> /\ storeFrame

Importing == \E j \in jobs : j.op = "import"

\* connections_import reads the file and the names in use, then creates one
\* connection after the other.  The dialog that picks the file is modal: one
\* import at a time.
ConnectionsImport ==
    /\ Given
    /\ ~ Importing
    /\ file # None /\ Parses(file)
    /\ LET existing_names == {conns[i].name : i \in DOMAIN conns}
           importable == partition_importable(file.connections, existing_names)
       IN  jobs' = IF importable = <<>> THEN jobs
                   ELSE jobs \union {[op |-> "import", file |-> file.connections,
                                      rest |-> importable]}
    /\ UNCHANGED <<data, nextConn, file>> /\ storeFrame

ImportNext ==
    /\ Running
    /\ \E j \in jobs :
           /\ j.op = "import"
           /\ Insert(FromPortable(Head(j.rest)))
           /\ jobs' = (jobs \ {j}) \union
                       (IF Len(j.rest) = 1 THEN {} ELSE {[j EXCEPT !.rest = Tail(@)]})
    /\ UNCHANGED <<file, commands>> /\ storeFrame

-----------------------------------------------------------------------------
(* Tabs: the table, and the bar that shows it.  A command travels to the   *)
(* backend, commits there, and changes the bar when its answer arrives.    *)

tabFrame == UNCHANGED <<legacy, launch, source, storeVars, stops, owned>>

TabOrder == OrderBy(DOMAIN tabs, TabsBefore(tabs))

\* mutant: counts the rows
CountedPosition == Cardinality(DOMAIN tabs)

\* mutant: the number of rows before the first is no position
LastPosition == Max({tabs[t] : t \in DOMAIN tabs} \union {-1})

\* create: COALESCE(MAX(position), -1) + 1, in the transaction of the INSERT.
NextPosition == Max({tabs[t] : t \in DOMAIN tabs} \union {-1}) + 1

InsertTab ==
    /\ nextTab \in Ids
    /\ Write([tables EXCEPT !.tabs = With(@, nextTab, NextPosition)])
    /\ nextTab' = nextTab + 1

\* loadTabs: an empty list gets a first tab.
LoadTabs ==
    /\ Running /\ ~ loaded
    /\ IF tabs = NoRows THEN InsertTab ELSE UNCHANGED <<data, nextTab>>
    /\ bar' = IF tabs = NoRows THEN <<nextTab>> ELSE TabOrder
    /\ loaded' = TRUE
    /\ UNCHANGED <<dragging, calls, overtaken, commands>> /\ tabFrame

\* The user waits for one tab command of a kind before giving the next.
Idle(op) == \A c \in calls : c.op # op
Send(call) == loaded /\ Given /\ Idle(call.op) /\ calls' = calls \union {call}

AddTab ==
    /\ Send([op |-> "create", id |-> 0])
    /\ UNCHANGED <<data, nextTab, bar, loaded, dragging, overtaken>> /\ tabFrame

CloseTab ==
    /\ \E k \in 1 .. Len(bar) : Send([op |-> "delete", id |-> bar[k], committed |-> FALSE])
    /\ UNCHANGED <<data, nextTab, bar, loaded, dragging, overtaken>> /\ tabFrame

\* moveTab: the bar changes at once, while the tab is still held.
MoveTab ==
    /\ loaded /\ Given
    /\ \E from, to \in 1 .. Len(bar) :
           /\ from # to
           /\ bar' = Moved(bar, from, to)
    /\ dragging' = TRUE
    /\ UNCHANGED <<data, nextTab, loaded, calls, overtaken>> /\ tabFrame

\* commitTabOrder, when the tab is let go: the bar as it is now.
CommitTabOrder ==
    /\ dragging /\ Running
    /\ Idle("reorder")
    /\ dragging' = FALSE
    /\ calls' = calls \union {[op |-> "reorder", ids |-> bar]}
    /\ UNCHANGED <<data, nextTab, bar, loaded, overtaken, commands>> /\ tabFrame

\* mutant: only the tabs that were moved in front of another are written
PositionsOfTheMoved(ids) ==
    [t \in DOMAIN tabs |->
        IF \E k \in 1 .. Len(ids) : ids[k] = t /\ k - 1 < tabs[t]
        THEN (CHOOSE k \in 1 .. Len(ids) : ids[k] = t) - 1 ELSE tabs[t]]

\* reorder: every id of the list gets its index; ids without a row are passed
\* over, rows that are not in the list keep their position.
PositionsOf(ids) ==
    [t \in DOMAIN tabs |->
        IF \E k \in 1 .. Len(ids) : ids[k] = t
        THEN (CHOOSE k \in 1 .. Len(ids) : ids[k] = t) - 1 ELSE tabs[t]]

\* The backend carries a call out.
CreateCommits ==
    /\ Running
    /\ \E c \in calls :
           /\ c.op = "create" /\ c.id = 0
           /\ InsertTab
           /\ calls' = (calls \ {c}) \union {[c EXCEPT !.id = nextTab]}
    /\ overtaken' = (overtaken \/ ~ Idle("reorder"))
    /\ UNCHANGED <<bar, loaded, dragging, commands>> /\ tabFrame

DeleteCommits ==
    /\ Running
    /\ \E c \in calls :
           /\ c.op = "delete" /\ ~ c.committed
           /\ Write([tables EXCEPT !.tabs = Without(@, c.id)])
           /\ calls' = (calls \ {c}) \union {[c EXCEPT !.committed = TRUE]}
    /\ UNCHANGED <<nextTab, bar, loaded, dragging, overtaken, commands>> /\ tabFrame

ReorderCommits ==
    /\ Running
    /\ \E c \in calls :
           /\ c.op = "reorder"
           /\ Write([tables EXCEPT !.tabs = PositionsOf(c.ids)])
           /\ calls' = calls \ {c}
    /\ UNCHANGED <<nextTab, bar, loaded, dragging, overtaken, commands>> /\ tabFrame

\* The answer arrives: a new tab goes to the end, a closed one goes away.
CallAnswered ==
    /\ Running
    /\ \E c \in calls :
           /\ \/ c.op = "create" /\ c.id # 0 /\ bar' = Append(bar, c.id)
              \/ c.op = "delete" /\ c.committed /\ bar' = Picked(bar, {k \in DOMAIN bar : bar[k] # c.id})
           /\ calls' = calls \ {c}
    /\ UNCHANGED <<data, nextTab, loaded, dragging, overtaken, commands>> /\ tabFrame

-----------------------------------------------------------------------------
(* Launches and stops.                                                     *)

LaunchStep ==
    /\ \/ Launch \/ CopySidecars \/ CopyDatabase \/ RenameDatabase
       \/ AdoptionFails \/ OldVersionRuns
    /\ UNCHANGED <<storeVars, windowVars, nextTab, commands, stops, owned>>

DatabaseOpened ==
    /\ OpenDatabase
    /\ owned' = (owned \/ launch' = "running")
    /\ UNCHANGED <<storeVars, windowVars, nextTab, commands, stops>>

\* Whatever was in memory is gone.
AppStops ==
    /\ stops < MaxStops
    /\ Stops
    /\ stops' = stops + 1
    /\ jobs' = {} /\ bar' = <<>> /\ loaded' = FALSE /\ dragging' = FALSE
    /\ calls' = {} /\ overtaken' = FALSE
    /\ UNCHANGED <<nextConn, nextTab, file, commands, owned>>

Next ==
    \/ LaunchStep \/ DatabaseOpened \/ AppStops
    \/ ConnectionCreate \/ ConnectionUpdate \/ ConnectionDelete \/ DeleteAllForConnection
    \/ TopicSchemaSet \/ TopicSchemaDelete
    \/ ConnectionsExport \/ ReceiveFile \/ ConnectionsImport \/ ImportNext
    \/ LoadTabs \/ AddTab \/ CloseTab \/ MoveTab \/ CommitTabOrder
    \/ CreateCommits \/ DeleteCommits \/ ReorderCommits \/ CallAnswered

Spec == Init /\ [][Next]_vars

-----------------------------------------------------------------------------
(* Properties.                                                             *)

\* The variables have their types; a tab is in the bar once, and while the app
\* runs it has a database.
TypeOK ==
    /\ launch \in {"closed", "sidecars", "database", "rename", "opening", "running"}
    /\ Running => TablesOK(tables, MaxIds)
    /\ IsInjective(bar) /\ Range(bar) \subseteq Ids
    /\ nextConn \in FirstFreshId .. MaxIds + 1 /\ nextTab \in FirstFreshId .. MaxIds + 1
    /\ commands \in 0 .. MaxCommands /\ stops \in 0 .. MaxStops

\* A first launch opens either nothing or exactly what the previous version
\* had saved when it was copied, its log included, however often a launch
\* before it was interrupted (data_migration.rs: sidecars first, the database
\* renamed last, "an interrupted copy leaves nothing to find").
AdoptionIsWhole ==
    (launch = "opening" /\ ~ owned /\ data.main # None) => OwnContent = source

\* Once the app has opened its database, what a command committed is what the
\* next launch opens: neither a launch nor a stop changes it
\* (data_migration.rs: "Never overwrite").
OwnDataSurvives ==
    [][(owned /\ launch' # "running") => (data'.main = data.main /\ data'.wal = None)]_vars

\* No row holds a secret or may publish unless the user said so for that row
\* on this machine: no export file can grant it.
ImportGrantsNothing ==
    Running => \A i \in DOMAIN conns : conns[i].by = "import" => conns[i].grants = {}

Imported(t, n) == Cardinality({i \in DOMAIN t.conns : t.conns[i].by = "import" /\ t.conns[i].name = n})
Entries(f, n) == Cardinality({k \in DOMAIN f : f[k].name = n})

\* Importing a file again, after an import that was cut off or that finished,
\* never makes more rows of a name than the file has entries for it.
ImportIsRepeatable ==
    [][\A j \in jobs : (Running /\ launch' = "running" /\ j.op = "import") =>
         \A n \in Names : Imported(data'.main, n) > Imported(tables, n)
             => Imported(data'.main, n) <= Entries(j.file, n)]_vars

\* No tab command is on its way and no tab is held.
Settled == Running /\ loaded /\ calls = {} /\ ~ dragging

\* Then the bar shows the tabs there are, in the order the next launch will
\* load them in, unless a tab was created while a new order of the others was
\* on its way to the database.
TabsKeepTheirOrder ==
    Settled => Range(bar) = DOMAIN tabs /\ (overtaken \/ bar = TabOrder)

\* reorder: "`ids` is the full, front-to-back list of tab ids after a
\* drag-to-reorder", so that the table has the order of the bar.
OrderIsPersisted == Settled => bar = TabOrder

\* What the database holds: rows of their types, the previous version's data
\* whole or not at all, no permission that a file has granted.
StoredDataInvariant == TypeOK /\ AdoptionIsWhole /\ ImportGrantsNothing
=============================================================================
