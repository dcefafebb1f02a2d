----------------------------- MODULE MCAppData ------------------------------
(* Values for module AppData: what the previous version may have saved, and *)
(* two files another machine may have exported.                             *)
EXTENDS AppData, TLC

CONSTANTS a, b

SomeNames == {a, b}

LegacyRow(n) == [name |-> n, grants |-> Grants, by |-> "legacy"]
OneRow == [conns |-> (1 :> LegacyRow(a)), schemas |-> {1}, tabs |-> (1 :> 0)]
ThreeTabs ==
    {[conns |-> NoRows, schemas |-> {}, tabs |-> (1 :> 0 @@ 2 :> 1 @@ 3 :> 2)]}
TwoTabs == [conns |-> (1 :> LegacyRow(a)), schemas |-> {1}, tabs |-> (1 :> 1 @@ 2 :> 0)]
SavedBefore == {OneRow, TwoTabs}

TwoEntries == ExportFile(<<[name |-> b], [name |-> a]>>)
NewerFile == [salty_connections_version |-> 2, connections |-> <<>>]
NoFiles == {}
Received == {TwoEntries, NewerFile}
=============================================================================
