----------------------------- MODULE MCSession -----------------------------
(* Model-checking instances of Session. *)
EXTENDS Session, TLC

CONSTANTS c1, t1, r1, r2, r3, f1, f2

OneConn == {c1}
OneTopic == {t1}
TwoReqs == {r1, r2}
ThreeReqs == {r1, r2, r3}
TwoFetches == {f1, f2}
NoFetch == {}

\* Slots and request ids are interchangeable.
Symmetry == Permutations(Reqs) \union Permutations(Fetches)

\* Version 1 is read-only, as every new connection is; version 2 is writable.
WritableVersions == Versions \ {1}

RegistryCommands ==
    {"connect", "list", "groups", "publish", "update", "delete", "config", "decode"}
FetchCommands == {"disconnect", "fetch"}
ReadCommands == {"connect", "disconnect", "list", "update"}
=============================================================================
