------------------------- MODULE ConnectionRegistry -------------------------
(***************************************************************************)
(* ConnectionRegistry of backend/core/src/registry.rs: what the app        *)
(* remembers, in memory only, about each saved connection.                 *)
(*                                                                         *)
(* The three maps have a mutex each, and no method holds two of them at    *)
(* once.  Every operator below is one critical section, so a method of the *)
(* source that takes two locks is two steps of the handler that calls it   *)
(* (Session.tla lists the steps of each handler in order).                 *)
(***************************************************************************)
EXTENDS SavedConnections

CONSTANTS Topics,             \* names of the topics published to
          MAX_AUTH_ATTEMPTS   \* rejections before the breaker trips (2)

ASSUME RegistryAssumption == MAX_AUTH_ATTEMPTS \in Nat \ {0}

VARIABLES connected,   \* connections with a live session
          attempts,    \* consecutive rejections; 0 is "no entry in the map"
          denials      \* <<connection, topic>> the broker refused writes to

registryVars == <<connected, attempts, denials>>

RegistryTypeOK ==
    /\ connected \subseteq Conns
    /\ attempts \in [Conns -> Nat]
    /\ denials \subseteq Conns \X Topics

\* A fresh process has connected to nothing and been refused nothing.
RegistryInit ==
    /\ connected = {}
    /\ attempts = [c \in Conns |-> 0]
    /\ denials = {}

\* A later breaker, for comparison: it trips one rejection after the limit.
BlockedOneLate(c) == attempts[c] > MAX_AUTH_ATTEMPTS

\* auth_block_reason is Some: requests are answered from memory.
Blocked(c) == attempts[c] >= MAX_AUTH_ATTEMPTS

InsertConnected(c) ==
    /\ connected' = connected \union {c}
    /\ UNCHANGED <<attempts, denials>>

RemoveConnected(c) ==
    /\ connected' = connected \ {c}
    /\ UNCHANGED <<attempts, denials>>

\* The locked part of record_auth_failure; saturating_add never saturates
\* here, see AttemptsOvershootIsBounded.
BumpFailures(c) ==
    /\ attempts' = [attempts EXCEPT ![c] = @ + 1]
    /\ UNCHANGED <<connected, denials>>

ForgetFailures(c) ==
    /\ attempts' = [attempts EXCEPT ![c] = 0]
    /\ UNCHANGED <<connected, denials>>

\* For comparison: the key's two halves swapped.
InsertDenialSwapped(c, t) ==
    /\ denials' = denials \union {<<t, c>>}
    /\ UNCHANGED <<connected, attempts>>

InsertDenial(c, t) ==
    /\ denials' = denials \union {<<c, t>>}
    /\ UNCHANGED <<connected, attempts>>

ClearDenials(c) ==
    /\ denials' = {d \in denials : d[1] # c}
    /\ UNCHANGED <<connected, attempts>>
=============================================================================
