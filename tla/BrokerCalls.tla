----------------------------- MODULE BrokerCalls -----------------------------
(* ObservedClient of backend/kafka/src/client.rs: several requests on one
   pooled client, which has one queue of events and one slot for the broker's
   last reason.  librdkafka only says that a call failed; why it failed is an
   event, and an event is served, into the slot, only while somebody polls the
   queue.  A request therefore clears the slot, calls, and drains the queue
   when the call fails, all under the slot's lock.                         *)
EXTENDS ClientConfig, KafkaFailures, Sequences

CONSTANTS
    Requests,
    Settings,           \* the connections this client may be built for
    Sizes,              \* what Max Message Size may be
    CallCodes,          \* how a call may fail
    DRAIN_POLLS,        \* polls that fit in ERROR_DRAIN_BUDGET
    MaxEvents           \* bound: events in the queue

\* What a request reports: how it ended, a reason, and who has read it.
Reports ==
    [kind : {"Ok", "Kafka", "Authentication"},
     reason : Reasons \union {"worded_otherwise", "not_set", None},
     reader : Requests \union {None}]

ASSUME CallsAssumption ==
    /\ None \notin Requests \union Reports
    /\ Sizes \subseteq Nat /\ DRAIN_POLLS \in Nat /\ MaxEvents \in Nat

VARIABLES
    connection,         \* the saved connection
    client,             \* the configuration it was built from, or None
    slot,               \* ClientErrorContext::last_error, with who polled it
    queue,              \* reasons librdkafka waits to report
    lock,               \* who holds error_slot
    pc,                 \* where each request is
    error,              \* the code its call failed with, or None
    polls,              \* what is left of its budget
    answer              \* what it reported, or None

callVars == <<connection, client, slot, queue, lock, pc, error, polls, answer>>

CallsInit ==
    /\ connection \in Settings
    /\ client = None /\ slot = None /\ queue = <<>> /\ lock = None
    /\ pc = [r \in Requests |-> "idle"]
    /\ error = [r \in Requests |-> None]
    /\ polls = [r \in Requests |-> 0]
    /\ answer = [r \in Requests |-> None]

(* librdkafka: what it refuses to build, and what it reports unasked. *)

RefusedConfig(config) ==
    "sasl.mechanism" \in DOMAIN config /\ "sasl.username" \notin DOMAIN config

Reported(reason) == Append(queue, reason)

BrokerTrouble ==
    /\ client # None /\ Len(queue) < MaxEvents
    /\ \E reason \in Reasons: queue' = Reported(reason)
    /\ UNCHANGED <<connection, client, slot, lock, pc, error, polls, answer>>

(* The requests. *)

\* failure_report: the reason decides what the failure is typed as.
failure_report(code, reason, reader) ==
    [kind |-> IF is_auth_failure(code, reason) THEN "Authentication" ELSE "Kafka",
     reason |-> reason, reader |-> reader]

Succeeded == [kind |-> "Ok", reason |-> None, reader |-> None]

\* The pooled client is built by the first request that needs it.
Ask(r) ==
    /\ pc[r] = "idle"
    /\ LET config == IF client = None THEN client_config(connection) ELSE client
       IN IF RefusedConfig(config)
          THEN /\ pc' = [pc EXCEPT ![r] = "answered"]
               /\ answer' = [answer EXCEPT ![r] =
                    failure_report("ClientCreation", "not_set", r)]
               /\ UNCHANGED client
          ELSE /\ client' = config
               /\ pc' = [pc EXCEPT ![r] = "waiting"]
               /\ UNCHANGED answer
    /\ UNCHANGED <<connection, slot, queue, lock, error, polls>>

\* Mutant: what an earlier request left in the slot stays there.
LeftOver == slot

\* What the slot holds once a request has begun.
Forgotten == None

begin(r) ==
    /\ pc[r] = "waiting" /\ lock = None
    /\ lock' = r
    /\ slot' = Forgotten
    /\ pc' = [pc EXCEPT ![r] = "calling"]
    /\ UNCHANGED <<connection, client, queue, error, polls, answer>>

Answered(r, report) ==
    /\ pc' = [pc EXCEPT ![r] = "answered"]
    /\ answer' = [answer EXCEPT ![r] = report]

CallReturns(r) ==
    /\ pc[r] = "calling"
    /\ lock' = None
    /\ Answered(r, Succeeded)
    /\ UNCHANGED <<connection, client, slot, queue, error, polls>>

\* Mutant: the slot is held for the whole request.
CallReturnsHolding(r) ==
    /\ pc[r] = "calling"
    /\ pc' = [pc EXCEPT ![r] = "walking"]
    /\ UNCHANGED <<connection, client, slot, queue, lock, error, polls, answer>>

\* A request that goes on to every partition's watermarks does so outside.
CallReturnsToWalk(r) ==
    /\ pc[r] = "calling"
    /\ lock' = None
    /\ pc' = [pc EXCEPT ![r] = "walking"]
    /\ UNCHANGED <<connection, client, slot, queue, error, polls, answer>>

\* The reason may be queued already, still be on its way, or never come.
CallFails(r) ==
    /\ pc[r] = "calling"
    /\ pc' = [pc EXCEPT ![r] = "draining"]
    /\ \E code \in CallCodes: error' = [error EXCEPT ![r] = code]
    /\ polls' = [polls EXCEPT ![r] = DRAIN_POLLS]
    /\ \/ UNCHANGED queue
       \/ /\ Len(queue) < MaxEvents
          /\ \E reason \in Reasons: queue' = Reported(reason)
    /\ UNCHANGED <<connection, client, slot, lock, answer>>

\* ClientContext::error.
Served(r) == [reason |-> Head(queue), reader |-> r]

\* Mutant: the queue is served for as long as there is no reason.
DrainForEver(r) ==
    /\ pc[r] = "draining" /\ slot = None
    /\ polls' = [polls EXCEPT ![r] = @ - 1]
    /\ IF queue = <<>> THEN UNCHANGED <<slot, queue>>
       ELSE slot' = Served(r) /\ queue' = Tail(queue)
    /\ UNCHANGED <<connection, client, lock, pc, error, answer>>

drain_error_events(r) ==
    /\ pc[r] = "draining" /\ slot = None /\ polls[r] > 0
    /\ polls' = [polls EXCEPT ![r] = @ - 1]
    /\ IF queue = <<>> THEN UNCHANGED <<slot, queue>>
       ELSE slot' = Served(r) /\ queue' = Tail(queue)
    /\ UNCHANGED <<connection, client, lock, pc, error, answer>>

failure(r) ==
    /\ pc[r] = "draining" /\ (slot # None \/ polls[r] = 0)
    /\ lock' = None
    /\ Answered(r,
         IF slot = None THEN failure_report(error[r], ReasonOf(error[r]), r)
         ELSE failure_report(error[r], slot.reason, slot.reader))
    /\ UNCHANGED <<connection, client, slot, queue, error, polls>>

\* A partition's failure is told in the error's own words.
Walks(r) ==
    /\ pc[r] = "walking"
    /\ \E report \in {Succeeded, [kind |-> "Kafka", reason |-> None, reader |-> r]}:
         Answered(r, report)
    /\ UNCHANGED <<connection, client, slot, queue, lock, error, polls>>

observed(r) ==
    \/ begin(r) \/ CallReturns(r) \/ CallReturnsToWalk(r) \/ CallFails(r)
    \/ drain_error_events(r) \/ failure(r)

RequestStep(r) == Ask(r) \/ observed(r) \/ Walks(r)

CallsNext == BrokerTrouble \/ \E r \in Requests: RequestStep(r)

\* Blocking threads run and librdkafka's timeouts end its calls; a walk over
\* the watermarks may last as long as it likes.
CallsFairness == \A r \in Requests: WF_callVars(observed(r))

CallsSpec == CallsInit /\ [][CallsNext]_callVars /\ CallsFairness
-----------------------------------------------------------------------------
(* Type invariant. *)
CallsTypeOK ==
    /\ connection \in Settings
    /\ client \in {None, client_config(connection)}
    /\ slot = None \/ (slot.reason \in Reasons /\ slot.reader \in Requests)
    /\ Len(queue) <= MaxEvents /\ \A i \in DOMAIN queue: queue[i] \in Reasons
    /\ lock \in Requests \union {None}
    /\ \A r \in Requests:
        /\ pc[r] \in {"idle", "waiting", "calling", "draining", "walking",
                      "answered"}
        /\ error[r] \in CallCodes \union {None}
        /\ polls[r] \in 0..DRAIN_POLLS
        /\ answer[r] \in Reports \union {None}
        /\ (answer[r] # None) <=> (pc[r] = "answered")

\* However the requests of the tree interleave on the client they share, the
\* reason a request gives for its failure was read off the queue by itself:
\* never what another request polled, be it a moment or an hour ago.
ReasonsAreReadByTheirOwner ==
    \A r \in Requests:
        answer[r] # None /\ answer[r].reason # None => answer[r].reader = r

\* A request that asks for the slot gets it and is done with it, even while
\* another walks the watermarks of a wide topic and never comes back.
NobodyWaitsForAWalk ==
    \A r \in Requests:
        (pc[r] = "waiting") ~> (pc[r] \in {"walking", "answered"})

\* What the Test button tried is what the saved connection connects with.
TestedIsWhatConnects == client # None => client = test_config(connection)

\* A fetch's queue holds the largest message the user expects, whatever its
\* size: one that does not would stall the fetch.
QueueFitsTheLargestMessage ==
    \A size \in Sizes:
        LET config == fetch_consumer_config(connection, size)
        IN config["queued.max.messages.kbytes"] * Kilobyte
             >= config["max.partition.fetch.bytes"]

\* The variables have their types, and what a client is told fits what was
\* tested and what is to be fetched.
ClientInvariant ==
    CallsTypeOK /\ TestedIsWhatConnects /\ QueueFitsTheLargestMessage
=============================================================================
