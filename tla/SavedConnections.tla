-------------------------- MODULE SavedConnections --------------------------
(***************************************************************************)
(* The connections table (backend/db/src/connections.rs), reduced to what  *)
(* the rest of the backend tells apart: whether a connection is saved and  *)
(* which version of its settings the row holds.  A version stands for      *)
(* updated_at, written with sub-microsecond precision by every update, and *)
(* for all the settings saved with it.                                     *)
(***************************************************************************)
EXTENDS Naturals

CONSTANTS Conns,         \* connection ids
          MaxVersion,    \* bounds how often a connection is edited
          Writable       \* versions saved with allow_publishing on

NoVersion == 0
Versions == 1 .. MaxVersion

ASSUME SavedConnectionsAssumption ==
    /\ MaxVersion \in Nat \ {0}
    /\ Writable \subseteq Versions

VARIABLE db              \* the version each row holds; NoVersion when deleted

DbTypeOK == db \in [Conns -> Versions \union {NoVersion}]

\* Connections saved in an earlier run of the app.
DbInit == db = [c \in Conns |-> 1]

Saved(c) == db[c] # NoVersion

\* update: a row that is there gets new settings and a new updated_at.
UpdateRow(c) ==
    /\ Saved(c)
    /\ db[c] < MaxVersion
    /\ db' = [db EXCEPT ![c] = @ + 1]

\* delete: ids are UUIDs, so a deleted connection never comes back.
DeleteRow(c) ==
    /\ Saved(c)
    /\ db' = [db EXCEPT ![c] = NoVersion]
=============================================================================
