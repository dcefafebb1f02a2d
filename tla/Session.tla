------------------------------ MODULE Session ------------------------------
(***************************************************************************)
(* The backend's commands (src-tauri/src/commands/connections.rs,          *)
(* publish.rs, schema.rs) running concurrently over the state they share:  *)
(* the registry, the fetch cancellations, the client pools and the saved   *)
(* connections.                                                            *)
(*                                                                         *)
(* Tauri runs every command as a task of a multi-threaded runtime, so      *)
(* commands interleave at every await and at every mutex.  A command is    *)
(* modelled as the list of steps it still has to take ("todo"), in source  *)
(* order, one step per critical section, database statement or broker      *)
(* call.  A broker call replaces what is left by what the handler does     *)
(* with that outcome.                                                      *)
(***************************************************************************)
EXTENDS ConnectionRegistry, FetchCancellations, ClientPools, Sequences,
        FiniteSets

CONSTANTS Reqs,       \* slots for concurrent commands other than a fetch
          Commands,   \* the commands that may be issued
          UiGated,    \* TRUE: listings, fetches and publishes are only issued
                      \* for a connected cluster, as the app's screens do
          None

Procs == Reqs \union Fetches

CommandNames == {"connect", "disconnect", "update", "delete", "list",
                 "groups", "config", "publish", "decode", "fetch"}

ASSUME SessionAssumption ==
    /\ Commands \subseteq CommandNames
    /\ UiGated \in BOOLEAN
    /\ IsFiniteSet(Reqs) /\ IsFiniteSet(Fetches)
    /\ Reqs \cap Fetches = {}
    /\ None \notin Conns /\ None \notin Topics

VARIABLES proc,        \* the command each slot or fetch is running
          unstarted    \* request ids not used yet

vars == <<db, registryVars, cancellationVars, poolVars, proc, unstarted>>
-----------------------------------------------------------------------------
(* What the handlers do, step by step. *)

\* connection_for_request: the breaker, then the row.
ForRequest == <<"gate", "load">>

\* kafka.release, and drop_pooled_client inside kafka.connect.
ReleaseKafka == <<"release_metadata", "release_admin">>

\* clear_auth_failures; record_auth_success is the same two locks.
ClearFailures == <<"forget_failures", "clear_denials">>

\* mark_disconnected.
MarkDisconnected == <<"remove_connected", "clear_denials">>

FinishFetch == <<"finish_flag", "finish_owner">>

\* A question for the pooled metadata client.
MetadataRequest == ForRequest \o <<"take_metadata", "call">>

\* The handlers, up to and with their broker call.
connection_connect == ClearFailures \o MetadataRequest

connection_disconnect ==
    MarkDisconnected \o <<"snapshot", "cancel_each">> \o ReleaseKafka
        \o <<"release_schema">>

connection_update ==
    <<"db_update", "db_reload">> \o ClearFailures \o ReleaseKafka
        \o <<"release_schema">>

connection_delete ==
    <<"db_delete", "db_delete_schemas">> \o MarkDisconnected \o ClearFailures
        \o ReleaseKafka \o <<"release_schema">>

\* Brokers, topics, partitions, counts and a group's lag.
connection_list == MetadataRequest

connection_list_consumer_groups == MetadataRequest

connection_describe_topic_config == ForRequest \o <<"take_admin", "call">>

connection_publish_messages ==
    ForRequest \o <<"check_connected", "check_denied", "call">>

connection_decode == <<"load", "take_schema", "fetch_schema">>

connection_fetch_messages == <<"own", "begin">> \o MetadataRequest

Handler ==
    [connect    |-> connection_connect,
     disconnect |-> connection_disconnect,
     update     |-> connection_update,
     delete     |-> connection_delete,
     list       |-> connection_list,
     groups     |-> connection_list_consumer_groups,
     config     |-> connection_describe_topic_config,
     publish    |-> connection_publish_messages,
     decode     |-> connection_decode,
     fetch      |-> connection_fetch_messages]

\* record_auth_outcome.
RecordAuthOutcome(outcome) ==
    CASE outcome = "accepted" -> ClearFailures
      [] outcome = "rejected" -> <<"bump">> \o ReleaseKafka
      [] outcome = "failed"   -> <<>>

\* record_auth_success_only: a refused group listing is not counted.
RecordAuthSuccessOnly(outcome) ==
    CASE outcome = "accepted" -> ClearFailures
      [] outcome = "rejected" -> ReleaseKafka
      [] outcome = "failed"   -> <<>>

\* What a broker call's handler still has to do once the outcome is known.
AfterCall(cmd, outcome) ==
    CASE cmd = "connect" ->
            IF outcome = "accepted"
            THEN ClearFailures \o <<"insert_connected">>
            ELSE ReleaseKafka \o RecordAuthOutcome(outcome)
      [] cmd = "groups" -> RecordAuthSuccessOnly(outcome)
      [] cmd = "fetch" -> FinishFetch \o RecordAuthOutcome(outcome)
      [] OTHER -> RecordAuthOutcome(outcome)

\* connection_publish_messages after the producer has run: messages are sent
\* one by one up to the first failure, so a batch can be half delivered.
AfterPublish(delivered, failure) ==
    (IF delivered THEN ClearFailures ELSE <<>>)
        \o CASE failure = "authorization"  -> <<"insert_denial">>
             [] failure = "authentication" -> <<"bump">> \o ReleaseKafka
             [] OTHER -> <<>>

\* For comparison: an early return that only returns.
AfterErrorNothing(cmd) == <<>>

\* An early return: a fetch unregisters itself, the others just return.
AfterError(cmd) == IF cmd = "fetch" THEN FinishFetch ELSE <<>>
-----------------------------------------------------------------------------
Idle == [cmd |-> "none", conn |-> None, topic |-> None, todo |-> <<>>,
         since |-> NoVersion, ver |-> NoVersion, client |-> NoVersion,
         ids |-> {}, left |-> {}, proven |-> FALSE]

At(p, step) == proc[p].todo # <<>> /\ Head(proc[p].todo) = step

\* p goes on with s, or returns when there is nothing left to do.
Continue(p, s, state) ==
    proc' = [proc EXCEPT ![p] = IF s = <<>> THEN Idle
                                ELSE [state EXCEPT !.todo = s]]

Advance(p) == Continue(p, Tail(proc[p].todo), proc[p])
Return(p)  == Continue(p, AfterError(proc[p].cmd), proc[p])

SharedUnchanged == UNCHANGED <<db, registryVars, cancellationVars, poolVars>>

\* A list of steps includes step; p still has step ahead of it.
Has(list, step) == \E i \in DOMAIN list : list[i] = step
Ahead(p, step) == Has(proc[p].todo, step)

Init ==
    /\ DbInit
    /\ RegistryInit
    /\ CancellationInit
    /\ PoolInit
    /\ proc = [p \in Procs |-> Idle]
    /\ unstarted = Fetches
-----------------------------------------------------------------------------
(* Issuing commands. *)

\* Edits in progress count towards the bound on versions.
MayEdit(c) ==
    db[c] + Cardinality({p \in Reqs : /\ proc[p].conn = c
                                      /\ Ahead(p, "db_update")}) < MaxVersion

\* since is history: the settings that were saved when the command was issued.
Running(cmd, c, t) ==
    [Idle EXCEPT !.cmd = cmd, !.conn = c, !.topic = t, !.todo = Handler[cmd],
                 !.since = db[c]]

Start(r, cmd, c, t) ==
    /\ cmd \in Commands
    /\ proc[r].cmd = "none"
    /\ cmd = "update" => MayEdit(c)
    /\ UiGated /\ cmd \in {"list", "groups", "config", "publish"}
            => c \in connected
    /\ cmd = "publish" <=> t # None
    /\ proc' = [proc EXCEPT ![r] = Running(cmd, c, t)]
    /\ UNCHANGED unstarted
    /\ SharedUnchanged

StartFetch(f, c) ==
    /\ "fetch" \in Commands
    /\ f \in unstarted
    /\ UiGated => c \in connected
    /\ unstarted' = unstarted \ {f}
    /\ proc' = [proc EXCEPT ![f] = Running("fetch", c, None)]
    /\ SharedUnchanged

\* connection_cancel_fetch.  Stop can reach the backend before the fetch it
\* names has registered, and after it has finished.
Stop(f) ==
    /\ "fetch" \in Commands
    /\ StoreStop(f)
    /\ UNCHANGED <<db, registryVars, poolVars, proc, unstarted>>
-----------------------------------------------------------------------------
(* The steps: the registry's. *)

RegistryStep(p) ==
    /\ LET c == proc[p].conn IN
       \/ At(p, "forget_failures") /\ ForgetFailures(c)
       \/ At(p, "clear_denials") /\ ClearDenials(c)
       \/ At(p, "insert_connected") /\ InsertConnected(c)
       \/ At(p, "remove_connected") /\ RemoveConnected(c)
       \/ At(p, "insert_denial") /\ InsertDenial(c, proc[p].topic)
    /\ Advance(p)
    /\ UNCHANGED <<db, cancellationVars, poolVars, unstarted>>

\* record_auth_failure: the rejection that trips the breaker also ends the
\* session, after the lock on the failures is released.
Bump(p) ==
    LET c == proc[p].conn
        rest == Tail(proc[p].todo)
    IN  /\ At(p, "bump")
        /\ BumpFailures(c)
        /\ Continue(p, IF attempts[c] + 1 >= MAX_AUTH_ATTEMPTS
                       THEN MarkDisconnected \o rest ELSE rest, proc[p])
        /\ UNCHANGED <<db, cancellationVars, poolVars, unstarted>>

\* auth_block_reason, at the head of connection_for_request.
Gate(p) ==
    /\ At(p, "gate")
    /\ IF Blocked(proc[p].conn) THEN Return(p) ELSE Advance(p)
    /\ UNCHANGED unstarted
    /\ SharedUnchanged

\* publish_refusal, whose inputs are read one lock at a time.
CheckConnected(p) ==
    /\ At(p, "check_connected")
    /\ IF proc[p].conn \in connected THEN Advance(p) ELSE Return(p)
    /\ UNCHANGED unstarted
    /\ SharedUnchanged

\* A batch encode_messages refuses returns here too.
CheckDenied(p) ==
    /\ At(p, "check_denied")
    /\ \/ /\ proc[p].ver \in Writable
          /\ <<proc[p].conn, proc[p].topic>> \notin denials
          /\ Advance(p)
       \/ Return(p)
    /\ UNCHANGED unstarted
    /\ SharedUnchanged
-----------------------------------------------------------------------------
(* The database's. *)

\* A row that is not there is NotFound; any statement can fail.
Load(p) ==
    /\ At(p, "load")
    /\ \/ /\ Saved(proc[p].conn)
          /\ Continue(p, Tail(proc[p].todo),
                      [proc[p] EXCEPT !.ver = db[proc[p].conn]])
       \/ Return(p)
    /\ UNCHANGED unstarted
    /\ SharedUnchanged

DbUpdate(p) ==
    /\ At(p, "db_update")
    /\ \/ UpdateRow(proc[p].conn) /\ Advance(p)
       \/ UNCHANGED db /\ Return(p)
    /\ UNCHANGED <<registryVars, cancellationVars, poolVars, unstarted>>

\* connections::update ends with a second statement that reads the row back.
DbReload(p) ==
    /\ At(p, "db_reload")
    /\ \/ Saved(proc[p].conn) /\ Advance(p)
       \/ Return(p)
    /\ UNCHANGED unstarted
    /\ SharedUnchanged

DbDelete(p) ==
    /\ At(p, "db_delete")
    /\ \/ DeleteRow(proc[p].conn) /\ Advance(p)
       \/ UNCHANGED db /\ Return(p)
    /\ UNCHANGED <<registryVars, cancellationVars, poolVars, unstarted>>

DbDeleteSchemas(p) ==
    /\ At(p, "db_delete_schemas")
    /\ Advance(p) \/ Return(p)
    /\ UNCHANGED unstarted
    /\ SharedUnchanged
-----------------------------------------------------------------------------
(* The fetch cancellations'. *)

CancellationStep(p) ==
    /\ \/ At(p, "own") /\ InsertOwner(p, proc[p].conn)
       \/ At(p, "begin") /\ InsertFlag(p)
       \/ At(p, "finish_flag") /\ RemoveFlag(p)
       \/ At(p, "finish_owner") /\ RemoveOwner(p)
    /\ Advance(p)
    /\ UNCHANGED <<db, registryVars, poolVars, unstarted>>

\* cancel_all_for_connection copies the ids it will cancel ...
Snapshot(p) ==
    LET owned == OwnedBy(proc[p].conn)
    IN  /\ At(p, "snapshot")
        /\ Continue(p, Tail(proc[p].todo),
                    [proc[p] EXCEPT !.ids = owned, !.left = owned])
        /\ UNCHANGED unstarted
        /\ SharedUnchanged

\* ... and cancels them one lock at a time.
CancelEach(p) ==
    /\ At(p, "cancel_each")
    /\ \/ \E f \in proc[p].left :
             /\ StoreStop(f)
             /\ proc' = [proc EXCEPT ![p].left = @ \ {f}]
       \/ /\ proc[p].left = {}
          /\ Advance(p)
          /\ UNCHANGED cancellationVars
    /\ UNCHANGED <<db, registryVars, poolVars, unstarted>>
-----------------------------------------------------------------------------
(* The client pools' and the broker's. *)

\* metadata_client, admin_client and get_or_create: a current client is
\* shared, anything else is replaced by one built from the settings loaded.
Taken(p, pool) ==
    Continue(p, Tail(proc[p].todo),
             [proc[p] EXCEPT !.client = ClientFor(pool, proc[p].conn,
                                                  proc[p].ver)])

TakeClient(p) ==
    /\ LET c == proc[p].conn
           v == proc[p].ver
       IN  \/ /\ At(p, "take_metadata")
              /\ Taken(p, metadataClients)
              /\ metadataClients' = Pooled(metadataClients, c, v)
              /\ UNCHANGED <<adminClients, schemaClients>>
           \/ /\ At(p, "take_admin")
              /\ Taken(p, adminClients)
              /\ adminClients' = Pooled(adminClients, c, v)
              /\ UNCHANGED <<metadataClients, schemaClients>>
           \/ /\ At(p, "take_schema")
              /\ Taken(p, schemaClients)
              /\ schemaClients' = Pooled(schemaClients, c, v)
              /\ UNCHANGED <<metadataClients, adminClients>>
    /\ UNCHANGED <<db, registryVars, cancellationVars, unstarted>>

\* A client that cannot be built leaves the pool as it was.
BuildFails(p) ==
    /\ LET c == proc[p].conn
           v == proc[p].ver
       IN  \/ At(p, "take_metadata") /\ ~Reusable(metadataClients, c, v)
           \/ At(p, "take_admin") /\ ~Reusable(adminClients, c, v)
           \/ At(p, "take_schema") /\ ~Reusable(schemaClients, c, v)
    /\ Continue(p, AfterCall(proc[p].cmd, "failed"), proc[p])
    /\ UNCHANGED unstarted
    /\ SharedUnchanged

Release(p) ==
    /\ LET c == proc[p].conn IN
       \/ /\ At(p, "release_metadata")
          /\ metadataClients' = Dropped(metadataClients, c)
          /\ UNCHANGED <<adminClients, schemaClients>>
       \/ /\ At(p, "release_admin")
          /\ adminClients' = Dropped(adminClients, c)
          /\ UNCHANGED <<metadataClients, schemaClients>>
       \/ /\ At(p, "release_schema")
          /\ schemaClients' = Dropped(schemaClients, c)
          /\ UNCHANGED <<metadataClients, adminClients>>
    /\ Advance(p)
    /\ UNCHANGED <<db, registryVars, cancellationVars, unstarted>>

\* The broker accepts the credentials and answers, rejects them, or the call
\* fails in some other way (a timeout, a missing topic, a transport error).
Call(p) ==
    /\ At(p, "call")
    /\ proc[p].cmd # "publish"
    /\ \E outcome \in {"accepted", "rejected", "failed"} :
          Continue(p, AfterCall(proc[p].cmd, outcome),
                   [proc[p] EXCEPT !.proven = outcome = "accepted"])
    /\ UNCHANGED unstarted
    /\ SharedUnchanged

\* A fetch that finds its flag set before it has dialled returns
\* Ok(MessageFetchResult::default()).
FetchStoppedEarly(f) ==
    /\ f \in Fetches
    /\ At(f, "call")
    /\ flags[f] = "stop"
    /\ Continue(f, AfterCall("fetch", "accepted"), proc[f])
    /\ UNCHANGED unstarted
    /\ SharedUnchanged

\* publish_messages: "none" is a whole batch delivered, "not_sent" a producer
\* that could not be built.
Publish(p) ==
    /\ At(p, "call")
    /\ proc[p].cmd = "publish"
    /\ \E delivered \in BOOLEAN,
          failure \in {"none", "authorization", "authentication", "other",
                       "not_sent"} :
          /\ failure = "none" => delivered
          /\ failure = "not_sent" => ~delivered
          /\ Continue(p, AfterPublish(delivered, failure),
                      [proc[p] EXCEPT !.proven = delivered])
    /\ UNCHANGED unstarted
    /\ SharedUnchanged

FetchSchema(p) ==
    /\ At(p, "fetch_schema")
    /\ Advance(p)
    /\ UNCHANGED unstarted
    /\ SharedUnchanged
-----------------------------------------------------------------------------
Step(p) ==
    \/ RegistryStep(p) \/ Bump(p) \/ Gate(p)
    \/ CheckConnected(p) \/ CheckDenied(p)
    \/ Load(p) \/ DbUpdate(p) \/ DbReload(p) \/ DbDelete(p)
    \/ DbDeleteSchemas(p)
    \/ CancellationStep(p) \/ Snapshot(p) \/ CancelEach(p)
    \/ TakeClient(p) \/ BuildFails(p) \/ Release(p)
    \/ Call(p) \/ FetchStoppedEarly(p) \/ Publish(p) \/ FetchSchema(p)

Next ==
    \/ \E r \in Reqs, cmd \in CommandNames \ {"fetch"}, c \in Conns,
          t \in Topics \union {None} : Start(r, cmd, c, t)
    \/ \E f \in Fetches, c \in Conns : StartFetch(f, c)
    \/ \E f \in Fetches : Stop(f)
    \/ \E p \in Procs : Step(p)

Spec == Init /\ [][Next]_vars
-----------------------------------------------------------------------------
(* What a command may rely on. *)

Steps ==
    {"forget_failures", "clear_denials", "insert_connected",
     "remove_connected", "insert_denial", "bump", "gate", "check_connected",
     "check_denied", "load", "db_update", "db_reload", "db_delete",
     "db_delete_schemas", "own", "begin", "finish_flag", "finish_owner",
     "snapshot", "cancel_each", "take_metadata", "take_admin", "take_schema",
     "release_metadata", "release_admin", "release_schema", "call",
     "fetch_schema"}

Command ==
    [cmd : CommandNames \union {"none"}, conn : Conns \union {None},
     topic : Topics \union {None}, todo : Seq(Steps),
     since : Versions \union {NoVersion}, ver : Versions \union {NoVersion},
     client : Versions \union {NoVersion}, ids : SUBSET Fetches,
     left : SUBSET Fetches, proven : BOOLEAN]

\* The shape of the state: each map of the backend and each command.
TypeOK ==
    /\ DbTypeOK
    /\ RegistryTypeOK
    /\ CancellationTypeOK
    /\ PoolTypeOK
    /\ proc \in [Procs -> Command]
    /\ unstarted \subseteq Fetches

\* An edit takes effect for every request issued after it was saved: however
\* it interleaves with requests in flight that still pool a client built from
\* the old settings, a request never talks through settings older than those
\* saved when it was issued (PooledClient in client.rs, get_or_create).
EditsTakeEffect ==
    \A p \in Procs : proc[p].client # NoVersion
                        => proc[p].client >= proc[p].since

\* The breaker was closed when p asked, and p's verdict is not recorded yet.
MayBeCharged(p, c) ==
    /\ proc[p].conn = c
    /\ ~Ahead(p, "gate")
    /\ Ahead(p, "call") \/ Ahead(p, "bump")

\* The breaker stops a rejected password after MAX_AUTH_ATTEMPTS; requests
\* that passed it before it tripped are all that can still be rejected, so
\* the count never exceeds the limit by more than the requests in flight
\* (auth_block_reason and record_auth_failure in registry.rs).
AttemptsOvershootIsBounded ==
    \A c \in Conns :
        attempts[c] + Cardinality({p \in Procs : MayBeCharged(p, c)})
            <= MAX_AUTH_ATTEMPTS - 1 + Cardinality(Procs)

\* Between registering and finishing, a fetch's stop flag is its own.
Registered(f) ==
    /\ proc[f].cmd = "fetch"
    /\ Ahead(f, "call") \/ Ahead(f, "finish_flag")

\* Every return of connection_fetch_messages, the early ones included,
\* forgets which connection the fetch belonged to.
FinishedFetchHasNoOwner ==
    \A o \in owners : proc[o[1]].cmd = "fetch" /\ proc[o[1]].conn = o[2]

\* A fetch that Disconnect has claimed (cancel_all_for_connection) is told to
\* stop, even one that had recorded its owner but not yet its flag.
DisconnectStopsClaimedFetches ==
    \A p \in Reqs : \A f \in proc[p].ids \ proc[p].left :
        Registered(f) => flags[f] = "stop"

\* A recorded Stop is only forgotten by the fetch it was meant for, when that
\* fetch is over: registering late does not overwrite it (begin, cancel).
RecordedStopStands ==
    [][\A f \in Fetches : flags[f] = "stop" /\ flags'[f] # "stop"
                              => At(f, "finish_flag")]_vars
-----------------------------------------------------------------------------
(* What the source says of the program and the code does not do. *)

\* No command is running on c.
Quiet(c) == \A p \in Procs : proc[p].conn # c

\* connection_disconnect: no pooled client is left against a cluster the user
\* has disconnected from.
NoClientOutlivesDisconnect ==
    \A c \in Conns \ connected :
        Quiet(c) => /\ metadataClients[c] = NoVersion
                    /\ adminClients[c] = NoVersion
=============================================================================
