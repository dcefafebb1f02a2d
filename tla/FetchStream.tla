----------------------------- MODULE FetchStream -----------------------------
(***************************************************************************)
(* One message fetch, from the poll loop to the Data tab: the blocking     *)
(* loop of RdKafkaClient::fetch_messages (backend/kafka/src/client.rs),    *)
(* the forwarding task of forward_in_batches (core/src/message_stream.rs)  *)
(* and the command that joins them, connection_fetch_messages              *)
(* (src-tauri/src/commands/connections.rs).                                *)
(*                                                                         *)
(* The loop sends every message it keeps down an unbounded channel and     *)
(* pushes it onto the result; the task batches the channel into events.    *)
(* The command drops from the result as many messages as the task says it  *)
(* emitted and answers with the rest.  A Stop raises a flag both poll.     *)
(* Which partitions are read, and how far, is decided before the loop; a   *)
(* message is its position in the fetch.                                   *)
(***************************************************************************)
EXTENDS Naturals, Sequences

CONSTANTS Target,      \* messages the filter asks for (total_target)
          MaxIdle,     \* fruitless polls before the loop gives up:
                       \* IDLE_TIMEOUT over the length of one poll
          BatchSize    \* STREAM_BATCH_SIZE

ASSUME FetchStreamAssumption ==
    /\ Target \in Nat
    /\ MaxIdle \in Nat \ {0}
    /\ BatchSize \in Nat \ {0}

VARIABLES
    cancelled,   \* the flag the loop and the forwarding task share
    loop,        \* where the poll loop is
    idle,        \* fruitless polls since the last message
    collected,   \* the result's messages
    channel,     \* sent by the loop, not received by the task
    open,        \* the loop still holds the sender
    task,        \* where the forwarding task is; "none" without streaming
    held,        \* the message received and not yet in the batch, if any
    batch,
    delivered,   \* the messages of all the events emitted, in order
    late,        \* history: events emitted since the Stop
    command,     \* where the command is
    streamed,    \* what the task reported it had emitted
    response     \* the messages the command answers with

loopVars == <<loop, idle, collected, open>>
taskVars == <<task, held, batch, delivered, late>>
commandVars == <<command, streamed, response>>
vars == <<cancelled, loopVars, channel, taskVars, commandVars>>

LoopStates == {"setup", "check", "poll", "returned", "failed"}
TaskStates == {"none", "waiting", "checking", "emitting", "emitting_tail",
               "ended", "panicked"}
CommandStates == {"fetching", "joined", "answered"}

Messages == 1 .. Target

\* The shape of the fetch: messages are those asked for, and the loop gives up
\* before it has polled in vain more than MaxIdle times.
TypeOK ==
    /\ cancelled \in BOOLEAN
    /\ loop \in LoopStates
    /\ idle \in 0 .. MaxIdle
    /\ collected \in Seq(Messages)
    /\ channel \in Seq(Messages)
    /\ open \in BOOLEAN
    /\ task \in TaskStates
    /\ held \in {<<>>} \union {<<m>> : m \in Messages}
    /\ batch \in Seq(Messages)
    /\ delivered \in Seq(Messages)
    /\ late \in Nat
    /\ command \in CommandStates
    /\ streamed \in 0 .. Target
    /\ response \in Seq(Messages)

\* A fetch streams when the tab asks it to (stream_updates).
Init ==
    /\ cancelled = FALSE
    /\ loop = "setup" /\ idle = 0 /\ collected = <<>> /\ open = TRUE
    /\ channel = <<>>
    /\ task \in {"none", "waiting"}
    /\ held = <<>> /\ batch = <<>> /\ delivered = <<>> /\ late = 0
    /\ command = "fetching" /\ streamed = 0 /\ response = <<>>

\* The Data tab's Stop, or a disconnect: any time before the command is over.
Stop ==
    /\ command # "answered"
    /\ ~cancelled
    /\ cancelled' = TRUE
    /\ UNCHANGED <<loopVars, channel, taskVars, commandVars>>
-----------------------------------------------------------------------------
(* The poll loop. *)

\* For comparison: the sender outlives the closure.
LeaveHoldingTheSender(how) == loop' = how /\ open' = open

\* The closure ends, and the sender it owns is dropped with it.
Leave(how) == loop' = how /\ open' = FALSE

\* Building clients, metadata, watermarks and assignment: any of them can
\* fail, and a Stop caught between two of them is an empty result.
Setup ==
    /\ loop = "setup"
    /\ \/ cancelled /\ Leave("returned")
       \/ Leave("failed")
       \/ loop' = "check" /\ UNCHANGED open
    /\ UNCHANGED <<cancelled, idle, collected, channel, taskVars, commandVars>>

\* For comparison: a while that does not look at the flag, and one that reads
\* one message too many.
CheckWithoutFlag ==
    /\ loop = "check"
    /\ IF Len(collected) < Target /\ idle < MaxIdle
       THEN loop' = "poll" /\ UNCHANGED open
       ELSE Leave("returned")
    /\ UNCHANGED <<cancelled, idle, collected, channel, taskVars, commandVars>>

CheckOneMore ==
    /\ loop = "check"
    /\ IF Len(collected) <= Target /\ idle < MaxIdle /\ ~cancelled
       THEN loop' = "poll" /\ UNCHANGED open
       ELSE Leave("returned")
    /\ UNCHANGED <<cancelled, idle, collected, channel, taskVars, commandVars>>

\* The condition of the while.
Check ==
    /\ loop = "check"
    /\ IF Len(collected) < Target /\ idle < MaxIdle /\ ~cancelled
       THEN loop' = "poll" /\ UNCHANGED open
       ELSE Leave("returned")
    /\ UNCHANGED <<cancelled, idle, collected, channel, taskVars, commandVars>>

\* A message the fetch keeps: sent, when anyone listens, and pushed.  It can
\* be the one that ends the last partition or spends the byte budget.
Keep ==
    LET message == Len(collected) + 1
    IN  /\ loop = "poll"
        /\ collected' = Append(collected, message)
        /\ channel' = IF task \in {"none", "ended", "panicked"} THEN channel
                      ELSE Append(channel, message)
        /\ idle' = 0
        /\ (loop' = "check" /\ UNCHANGED open) \/ Leave("returned")
        /\ UNCHANGED <<cancelled, taskVars, commandVars>>

\* Nothing there, or an error: only time passes.
PollNothing ==
    /\ loop = "poll"
    /\ idle' = idle + 1
    /\ loop' = "check"
    /\ UNCHANGED <<cancelled, collected, open, channel, taskVars, commandVars>>

\* A record of a partition already read as far as the filter asks, or the end
\* of a partition; the last partition to finish ends the loop.
Skip ==
    /\ loop = "poll"
    /\ idle' \in {0, idle}
    /\ (loop' = "check" /\ UNCHANGED open) \/ Leave("returned")
    /\ UNCHANGED <<cancelled, collected, channel, taskVars, commandVars>>

LoopStep == Setup \/ Check \/ Keep \/ PollNothing \/ Skip
-----------------------------------------------------------------------------
(* The forwarding task. *)

\* recv, bounded by the batch interval while a batch is waiting for company.
Receive ==
    /\ task = "waiting"
    /\ channel # <<>>
    /\ held' = <<Head(channel)>>
    /\ channel' = Tail(channel)
    /\ task' = "checking"
    /\ UNCHANGED <<cancelled, loopVars, batch, delivered, late, commandVars>>

\* The interval elapses only while there is nothing to receive.
IntervalElapses ==
    /\ task = "waiting"
    /\ batch # <<>>
    /\ channel = <<>> /\ open
    /\ task' = "emitting"
    /\ UNCHANGED <<cancelled, loopVars, channel, held, batch, delivered, late,
                   commandVars>>

\* The fetch dropped its sender: what is left of the batch goes.
ChannelClosed ==
    /\ task = "waiting"
    /\ channel = <<>> /\ ~open
    /\ task' = IF batch = <<>> THEN "ended" ELSE "emitting_tail"
    /\ UNCHANGED <<cancelled, loopVars, channel, held, batch, delivered, late,
                   commandVars>>

\* For comparison: the backlog is drained after a Stop as well.
TakeAnyway ==
    /\ task = "checking"
    /\ held' = <<>>
    /\ batch' = batch \o held
    /\ task' = IF Len(batch) + 1 >= BatchSize THEN "emitting" ELSE "waiting"
    /\ UNCHANGED <<cancelled, loopVars, channel, delivered, late, commandVars>>

\* A Stop drops the message, the batch and whatever is still queued.
Take ==
    /\ task = "checking"
    /\ held' = <<>>
    /\ IF cancelled
       THEN task' = "ended" /\ batch' = <<>> /\ channel' = <<>>
       ELSE /\ batch' = batch \o held
            /\ task' = IF Len(batch) + 1 >= BatchSize THEN "emitting"
                       ELSE "waiting"
            /\ UNCHANGED channel
    /\ UNCHANGED <<cancelled, loopVars, delivered, late, commandVars>>

EventOut ==
    /\ delivered' = delivered \o batch
    /\ late' = IF cancelled THEN late + 1 ELSE late

Emit ==
    /\ task \in {"emitting", "emitting_tail"}
    /\ EventOut
    /\ batch' = <<>>
    /\ task' = IF task = "emitting" THEN "waiting" ELSE "ended"
    /\ UNCHANGED <<cancelled, loopVars, channel, held, commandVars>>

\* Serializing or emitting a batch panics, before or after the event is out.
Panic ==
    /\ task \in {"emitting", "emitting_tail"}
    /\ EventOut \/ UNCHANGED <<delivered, late>>
    /\ task' = "panicked"
    /\ batch' = <<>> /\ channel' = <<>>
    /\ UNCHANGED <<cancelled, loopVars, held, commandVars>>

TaskStep ==
    Receive \/ IntervalElapses \/ ChannelClosed \/ Take \/ Emit \/ Panic
-----------------------------------------------------------------------------
(* The command. *)

\* For comparison: whatever was fetched is taken to have been streamed.
JoinAssumingAll ==
    /\ command = "fetching"
    /\ loop \in {"returned", "failed"}
    /\ task \in {"none", "ended", "panicked"}
    /\ streamed' = IF task = "none" THEN 0 ELSE Len(collected)
    /\ command' = "joined"
    /\ UNCHANGED <<cancelled, loopVars, channel, taskVars, response>>

\* forward_in_batches returns its count of emitted messages; a task that
\* panicked counts as having emitted nothing.
Join ==
    /\ command = "fetching"
    /\ loop \in {"returned", "failed"}
    /\ task \in {"none", "ended", "panicked"}
    /\ streamed' = IF task = "ended" THEN Len(delivered) ELSE 0
    /\ command' = "joined"
    /\ UNCHANGED <<cancelled, loopVars, channel, taskVars, response>>

\* For comparison: one message too many is drained.
RemainderPastOne(messages, n) == SubSeq(messages, n + 2, Len(messages))

\* The first streamed messages are drained from the result.
Remainder(messages, n) == SubSeq(messages, n + 1, Len(messages))

Answer ==
    /\ command = "joined"
    /\ command' = "answered"
    /\ response' = IF loop = "returned" THEN Remainder(collected, streamed)
                   ELSE <<>>
    /\ UNCHANGED <<cancelled, loopVars, channel, taskVars, streamed>>

CommandStep == Join \/ Answer
-----------------------------------------------------------------------------
Next == Stop \/ LoopStep \/ TaskStep \/ CommandStep

\* The loop has a thread of its own, and Tokio runs a task that can go on.
Spec == /\ Init /\ [][Next]_vars
        /\ WF_vars(LoopStep) /\ WF_vars(TaskStep) /\ WF_vars(CommandStep)
-----------------------------------------------------------------------------
\* A fetch, as the Data tab sees it.
Delivery == INSTANCE FetchDelivery
    WITH fetched <- collected,
         shown <- delivered \o response,
         outcome <- IF command # "answered" THEN "open"
                    ELSE IF loop = "returned" THEN "complete" ELSE "failed"

\* The events and the response together bring the tab every message fetched,
\* in order, however Stops, partial batches and a panicking task interleave
\* (connection_fetch_messages: the response is "exactly the missing messages").
DeliversWhatWasFetched == Delivery!Spec

\* No message crosses twice while the forwarding task lives, stopped or not
\* (DataTab.tsx appends the response to the streamed rows without comparing).
ShownOnce ==
    command = "answered" /\ loop = "returned" /\ task # "panicked"
        => delivered \o response = collected

\* After a Stop at most the batch already being put together still crosses,
\* whatever is queued behind it (the check in forward_in_batches).
StopSilencesTheStream == late <= 1

\* A stopped fetch answers: neither side waits for the other, and a broker
\* that keeps sending cannot keep it going (the flag in the while's condition).
StopEndsTheFetch == cancelled ~> command = "answered"

\* A fetch nobody stops answers as well, once the broker has no more records
\* of partitions that are already read to send (idle_elapsed, the dropped
\* sender, the joined task).
QuietBrokerEndsTheFetch ==
    <>[][~Skip]_vars => <>(command = "answered")

\* The variables have their types, and what has crossed when the fetch answers
\* is what was collected, each message once.
StreamInvariant == TypeOK /\ ShownOnce
=============================================================================
