------------------------- MODULE FetchCancellations -------------------------
(***************************************************************************)
(* FetchCancellations of backend/core/src/fetch_cancellation.rs: the flag  *)
(* that stops a message fetch, and the connection each fetch reads from.   *)
(*                                                                         *)
(* Two mutexes again, so each operator is one critical section.  A request *)
(* id is generated by the frontend and used for one fetch only.            *)
(***************************************************************************)
EXTENDS SavedConnections

CONSTANT Fetches   \* the request ids

VARIABLES flags,    \* the entry of each id: absent, clear (false), stop (true)
          owners    \* <<request id, connection>>

cancellationVars == <<flags, owners>>

CancellationTypeOK ==
    /\ flags \in [Fetches -> {"absent", "clear", "stop"}]
    /\ owners \subseteq Fetches \X Conns

CancellationInit ==
    /\ flags = [f \in Fetches |-> "absent"]
    /\ owners = {}

OwnedBy(c) == {f \in Fetches : <<f, c>> \in owners}

InsertOwner(f, c) ==
    /\ owners' = owners \union {<<f, c>>}
    /\ UNCHANGED flags

\* For comparison: a begin that starts from a clear flag.
InsertFlagAnew(f) ==
    /\ flags' = [flags EXCEPT ![f] = "clear"]
    /\ UNCHANGED owners

\* begin keeps an entry that a cancel has already made.
InsertFlag(f) ==
    /\ flags' = [flags EXCEPT ![f] = IF @ = "absent" THEN "clear" ELSE @]
    /\ UNCHANGED owners

\* For comparison: a cancel that only sets a flag that is there.
StoreStopIfPresent(f) ==
    /\ flags' = [flags EXCEPT ![f] = IF @ = "absent" THEN @ ELSE "stop"]
    /\ UNCHANGED owners

\* cancel makes the entry when there is none.
StoreStop(f) ==
    /\ flags' = [flags EXCEPT ![f] = "stop"]
    /\ UNCHANGED owners

RemoveFlag(f) ==
    /\ flags' = [flags EXCEPT ![f] = "absent"]
    /\ UNCHANGED owners

RemoveOwner(f) ==
    /\ owners' = {o \in owners : o[1] # f}
    /\ UNCHANGED flags
=============================================================================
