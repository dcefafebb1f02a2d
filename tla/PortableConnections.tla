------------------------ MODULE PortableConnections -------------------------
(***************************************************************************)
(* Export files (backend/core/src/connection_export.rs): what a row keeps  *)
(* when it is written to a file and what the file makes of it on the way   *)
(* in.  A row is reduced to its name, what the user entrusted to it (the   *)
(* secrets and allow_publishing) and who last wrote it; the other columns  *)
(* are copied field by field in both directions.                           *)
(***************************************************************************)
EXTENDS Ordered

CONSTANTS Names            \* names of connections

Grants == {"secrets", "allow_publishing"}
Authors == {"legacy", "user", "import"}

Row == [name : Names, grants : SUBSET Grants, by : Authors]
PortableConnection == [name : Names]

CURRENT_EXPORT_VERSION == 1

\* From<&Connection>: no id, no secret, no permission.
Portable(row) == [name |-> row.name]

\* mutant: the permission to publish travels with the file
FromPortableTrusting(portable) ==
    [name |-> portable.name, grants |-> {"allow_publishing"}, by |-> "import"]

\* From<PortableConnection> for NewConnection.
FromPortable(portable) == [name |-> portable.name, grants |-> {}, by |-> "import"]

ExportFile(connections) ==
    [salty_connections_version |-> CURRENT_EXPORT_VERSION, connections |-> connections]

\* ConnectionExportFile::parse: text that is no export file and files of
\* another version are refused.
Parses(file) ==
    /\ "salty_connections_version" \in DOMAIN file
    /\ file.salty_connections_version = CURRENT_EXPORT_VERSION

\* select_for_export over the rows in the order list() gives them; every row
\* when no ids are given.
select_for_export(rows, order, ids) ==
    LET chosen == Picked(order, {k \in DOMAIN order : order[k] \in ids})
    IN  [k \in 1 .. Len(chosen) |-> Portable(rows[chosen[k]])]

\* mutant: only looks at the names the file itself holds
EveryEntry(entries, existing_names) == entries

\* partition_importable: the entries whose name no connection has yet.
partition_importable(entries, existing_names) ==
    Picked(entries, {k \in DOMAIN entries : entries[k].name \notin existing_names})
=============================================================================
