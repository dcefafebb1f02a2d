---------------------------- MODULE BootstrapPing ----------------------------
(* ping_bootstrap of backend/kafka/src/client.rs: one TCP dial for each
   bootstrap address, the first at once and the others a moment later, all
   running until one of them connects or every one has failed.  Time is
   counted in ticks from the start of the ping.                            *)
EXTENDS Integers, FiniteSets

CONSTANTS
    NotYet,             \* no time: the address has not been dialled
    Addresses,          \* 1..n: the entries of bootstrap_servers
    PING_FANOUT_DELAY,  \* ticks before the others are dialled
    TCP_PING_TIMEOUT    \* ticks a dial may take

ASSUME PingAssumption ==
    /\ Addresses \subseteq Nat \ {0} /\ NotYet \notin Nat
    /\ PING_FANOUT_DELAY \in Nat /\ TCP_PING_TIMEOUT \in Nat \ {0}

VARIABLES
    links,              \* what each address does with a dial
    pinging,            \* whether a ping is under way
    clock,              \* its time
    dialled,            \* when each address was dialled, or NotYet
    failed              \* the addresses whose dial has failed

pingVars == <<pinging, clock, dialled, failed>>

Links == {"accepts", "refuses", "silent"}

First == 1

NobodyDialled == [a \in Addresses |-> NotYet]

PingInit ==
    /\ links \in [Addresses -> Links]
    /\ pinging = FALSE /\ clock = 0 /\ dialled = NobodyDialled /\ failed = {}

StartPing ==
    /\ ~pinging
    /\ pinging' = TRUE
    /\ clock' = 0
    /\ dialled' = [a \in Addresses |-> IF a = First THEN 0 ELSE NotYet]
    /\ failed' = {}

Dialling(a) == pinging /\ dialled[a] # NotYet /\ a \notin failed

Expired(a) == clock = dialled[a] + TCP_PING_TIMEOUT

\* Mutant: one address after the other.
DueAfterTheOthers(a) ==
    pinging /\ dialled[a] = NotYet /\ \A b \in Addresses: b < a => b \in failed

\* An address whose turn it is: the sleep before its dial is over.
Due(a) == pinging /\ dialled[a] = NotYet /\ clock >= PING_FANOUT_DELAY

Dial(a) ==
    /\ Due(a)
    /\ dialled' = [dialled EXCEPT ![a] = clock]
    /\ UNCHANGED <<pinging, clock, failed>>

\* A dial ends in time, unless the address keeps silent.
Connects(a) == Dialling(a) /\ links[a] = "accepts"

FailsNow(a) == Dialling(a) /\ (links[a] = "refuses" \/ Expired(a))

Fails(a) ==
    /\ FailsNow(a)
    /\ failed' = failed \union {a}
    /\ UNCHANGED <<pinging, clock, dialled>>

\* The race is over: what still runs is aborted.
Over ==
    /\ pinging' = FALSE /\ clock' = 0 /\ dialled' = NobodyDialled /\ failed' = {}

Reaches(a) == Connects(a) /\ Over

\* Nothing is left to wait for, or the list has no address in it at all.
AllFailed == pinging /\ failed = Addresses /\ Over

Tick ==
    /\ pinging /\ failed # Addresses
    /\ \A a \in Addresses: ~Due(a) /\ ~(Dialling(a) /\ Expired(a))
    /\ clock' = clock + 1
    /\ UNCHANGED <<pinging, dialled, failed>>

PingGoesOn == Tick \/ \E a \in Addresses: Dial(a) \/ Fails(a)

PingTypeOK ==
    /\ links \in [Addresses -> Links]
    /\ pinging \in BOOLEAN
    /\ \A a \in Addresses: dialled[a] = NotYet \/ dialled[a] \in 0..clock
    /\ failed \subseteq Addresses

\* However many addresses of the list are dead or silent, the ping answers
\* within one delay and one timeout: dead entries ahead of a live one cost
\* nothing more.
PingAnswersInTime == clock <= PING_FANOUT_DELAY + TCP_PING_TIMEOUT
=============================================================================
