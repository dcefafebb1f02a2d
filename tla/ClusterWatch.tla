---------------------------- MODULE ClusterWatch ----------------------------
(* One row of the connection tree watching its cluster: the session of the
   backend, what the frontend's two queries last read of it, and the two
   effects that hang off them (frontend/src/features/connections/
   useClusterDisconnect.ts), over the pings of BootstrapPing.              *)
EXTENDS BootstrapPing

CONSTANTS
    UNREACHABLE_POLLS_BEFORE_DISCONNECT,
    MaxSessions,        \* bound: sessions opened
    MaxChanges          \* bound: changes of the network

ASSUME WatchAssumption ==
    /\ UNREACHABLE_POLLS_BEFORE_DISCONNECT \in Nat \ {0}
    /\ MaxSessions \in Nat /\ MaxChanges \in Nat

VARIABLES
    session,            \* the backend's session, by number, or NoSession
    sessions,           \* how many there have been
    changes,            \* how often the network has changed
    isConnected,        \* the row's reading of connection_is_connected
    status,             \* its reading of connection_check_status
    strikes,
    disconnecting,      \* a disconnect of the row is on its way
    contents,           \* the session whose contents are held, or NoSession
    misses              \* history: unreachable polls since a reachable one

rowVars == <<isConnected, status, strikes, disconnecting, contents, misses>>
watchVars == <<pingVars, rowVars, links, session, sessions, changes>>

NoSession == 0

WatchInit ==
    /\ PingInit
    /\ session = NoSession /\ sessions = 0 /\ changes = 0
    /\ isConnected = FALSE /\ status = "UNKNOWN"
    /\ strikes = 0 /\ disconnecting = FALSE /\ contents = NoSession
    /\ misses = 0

(* The two effects, run on every change of what they depend on. *)

\* Mutant: an unreachable cluster keeps its strikes when the session ends.
StrikesSurvive(connected, answer) ==
    LET strike == connected /\ answer = "UNREACHABLE"
        out == strike /\ strikes + 1 >= UNREACHABLE_POLLS_BEFORE_DISCONNECT
    IN /\ strikes' = CASE out -> 0
                       [] strike /\ ~out -> strikes + 1
                       [] OTHER -> IF answer = "UNREACHABLE" THEN strikes ELSE 0
       /\ disconnecting' = (disconnecting \/ out)

\* Mutant: the strikes go on counting past the disconnect.
StrikesAreNotReset(connected, answer) ==
    LET strike == connected /\ answer = "UNREACHABLE"
        out == strike /\ strikes + 1 >= UNREACHABLE_POLLS_BEFORE_DISCONNECT
    IN /\ strikes' = IF strike THEN strikes + 1 ELSE 0
       /\ disconnecting' = (disconnecting \/ out)

\* Another strike, and at the last one the session is to end.
useUnreachableDisconnect(connected, answer) ==
    LET strike == connected /\ answer = "UNREACHABLE"
        out == strike /\ strikes + 1 >= UNREACHABLE_POLLS_BEFORE_DISCONNECT
    IN /\ strikes' = IF strike /\ ~out THEN strikes + 1 ELSE 0
       /\ disconnecting' = (disconnecting \/ out)

\* Mutant: the previous reading is replaced before it is compared.
ComparedWithItself(connected) ==
    contents' = IF connected /\ ~connected THEN NoSession ELSE contents

useClusterDisconnectCleanup(connected) ==
    contents' = IF isConnected /\ ~connected THEN NoSession ELSE contents

(* The queries. *)

\* connection_is_connected, polled and read again after each command.
SeeConnected ==
    /\ isConnected' = (session # NoSession)
    /\ isConnected' # isConnected
    /\ useUnreachableDisconnect(isConnected', status)
    /\ useClusterDisconnectCleanup(isConnected')
    /\ UNCHANGED <<pingVars, links, session, sessions, changes, status, misses>>

\* The reachability poll runs while the row sees a session.
PollStatus ==
    /\ isConnected
    /\ StartPing
    /\ UNCHANGED <<rowVars, links, session, sessions, changes>>

CountMisses(answer) ==
    misses' = IF answer # "UNREACHABLE" THEN 0
              ELSE IF misses < UNREACHABLE_POLLS_BEFORE_DISCONNECT THEN misses + 1
              ELSE misses

\* Mutant: the effect depends on the status and not on when it was read.
SeeNewStatus(answer) ==
    /\ status' = answer
    /\ IF answer # status THEN useUnreachableDisconnect(isConnected, answer)
       ELSE UNCHANGED <<strikes, disconnecting>>
    /\ CountMisses(answer)
    /\ UNCHANGED <<isConnected, contents, links, session, sessions, changes>>

\* Every answer counts, also one that says what the last one said.
SeeStatus(answer) ==
    /\ status' = answer
    /\ useUnreachableDisconnect(isConnected, answer)
    /\ CountMisses(answer)
    /\ UNCHANGED <<isConnected, contents, links, session, sessions, changes>>

PingAnswers ==
    \/ \E a \in Addresses: Reaches(a) /\ SeeStatus("REACHABLE")
    \/ AllFailed /\ SeeStatus("UNREACHABLE")

PingRuns == PingGoesOn /\ UNCHANGED <<rowVars, links, session, sessions, changes>>

(* What else happens. *)

\* connection_connect answers: its probe can reach some address.
Connect ==
    /\ session = NoSession /\ sessions < MaxSessions
    /\ \E a \in Addresses: links[a] = "accepts"
    /\ sessions' = sessions + 1
    /\ session' = sessions'
    /\ UNCHANGED <<pingVars, rowVars, links, changes>>

\* The button, the idle timer or the breaker.
SessionEnds ==
    /\ session # NoSession
    /\ session' = NoSession
    /\ UNCHANGED <<pingVars, rowVars, links, sessions, changes>>

\* The disconnect the row asked for reaches the backend.
Disconnected ==
    /\ disconnecting
    /\ disconnecting' = FALSE
    /\ session' = NoSession
    /\ UNCHANGED <<pingVars, links, sessions, changes, isConnected, status,
                   strikes, contents, misses>>

\* The user expands the tree, fetches messages, opens a payload.
LoadContents ==
    /\ isConnected /\ session # NoSession
    /\ contents' = session
    /\ UNCHANGED <<pingVars, links, session, sessions, changes, isConnected,
                   status, strikes, disconnecting, misses>>

NetworkChanges ==
    /\ changes < MaxChanges
    /\ changes' = changes + 1
    /\ links' \in [Addresses -> Links]
    /\ UNCHANGED <<pingVars, rowVars, session, sessions>>

WatchNext ==
    \/ SeeConnected \/ PollStatus \/ PingAnswers \/ PingRuns
    \/ Connect \/ SessionEnds \/ Disconnected \/ LoadContents \/ NetworkChanges

\* Timers fire, a ping runs to its end, a command is carried out.
WatchFairness ==
    /\ WF_watchVars(SeeConnected)
    /\ WF_watchVars(PollStatus)
    /\ WF_watchVars(PingAnswers \/ PingRuns)
    /\ WF_watchVars(Disconnected)

WatchSpec == WatchInit /\ [][WatchNext]_watchVars /\ WatchFairness
-----------------------------------------------------------------------------
(* Type invariant. *)
WatchTypeOK ==
    /\ PingTypeOK
    /\ session \in 0..MaxSessions
    /\ status \in {"UNKNOWN", "REACHABLE", "UNREACHABLE"}
    /\ strikes \in 0..(UNREACHABLE_POLLS_BEFORE_DISCONNECT - 1)
    /\ contents \in 0..MaxSessions

AsksToDisconnect == disconnecting' /\ ~disconnecting

\* The row never ends a session over one unreachable poll: whatever sessions
\* began and ended in between, the last two polls both found nobody.  They may
\* be polls of two sessions: the status an ended session left behind is the
\* first strike of the next one.
TwoMissesEndASession ==
    [][AsksToDisconnect => misses' >= UNREACHABLE_POLLS_BEFORE_DISCONNECT]_watchVars

\* A connected cluster that stops answering for good is disconnected, also
\* when every poll gives the row the very answer it had before.
GoneClusterIsLeft ==
    <>[](\A a \in Addresses: links[a] # "accepts") => <>[](session = NoSession)

\* Whatever ended a session, what was loaded from it is dropped, unless the
\* next session has begun.
ContentsGoWithTheSession ==
    (session = NoSession /\ contents # NoSession) ~> (contents = NoSession \/ session # NoSession)

\* The variables have their types, and a ping is never late.
WatchInvariant == WatchTypeOK /\ PingAnswersInTime
=============================================================================
