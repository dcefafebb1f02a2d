------------------------- MODULE KafkaClientProofs -------------------------
(***************************************************************************)
(* What goes on at the backend's clients of a cluster: the stream of a     *)
(* fetch, the requests on a pooled client, and the row of the tree that    *)
(* watches its cluster.                                                    *)
(*                                                                           *)
(* The stream (StreamIInv), for a fetch of any length, streamed in batches *)
(* of any size: every message crosses once and in order, a Stop silences   *)
(* it, and together the loop, the forwarding task and the command          *)
(* implement FetchDelivery.  Messages are numbered as they are collected,  *)
(* so that a sequence is known by where it starts and how long it is.      *)
(* While the forwarding task lives, what is delivered, batched, held and   *)
(* queued are consecutive and together as long as what is collected        *)
(* (Pipeline); once it is over, what was delivered is still a beginning of *)
(* it.                                                                     *)
(*                                                                           *)
(* However many requests share a client, and however long the queue of its *)
(* events, each reports the reason it has read itself.  Only the request   *)
(* that has the slot's lock calls, drains and writes the slot (Exclusive). *)
(* It clears the slot before it calls, so what the slot holds when its     *)
(* call has failed was served by itself (Fresh); what is in the slot after *)
(* the lock is released is for nobody.                                     *)
(*                                                                           *)
(* A ping ends in time because every address has been dialled once the     *)
(* delay is over, none later, and no dial outlasts its timeout (OnTime).   *)
(* The row asks for a disconnect only after as many misses as strikes,     *)
(* since it has no strike but for a miss, and one left behind by an ended  *)
(* session counts once (Struck).                                           *)
(***************************************************************************)
EXTENDS FetchStream, ClusterWatch, BrokerCalls, BasicLemmas, SequenceTheorems

-----------------------------------------------------------------------------
(* The stream of the backend.                                              *)

\* The messages after the first n, in order.
Follows(s, n) == \A i \in 1 .. Len(s) : s[i] = n + i

TaskLives == task \in {"waiting", "checking", "emitting", "emitting_tail"}

Batched == Len(delivered) + Len(batch)
Received == Batched + Len(held)

\* Messages are where their numbers say.
Pipeline ==
    /\ Follows(collected, 0) /\ Follows(delivered, 0)
    /\ Follows(batch, Len(delivered))
    /\ Follows(held, Batched) /\ Follows(channel, Received)
    /\ Len(delivered) <= Len(collected)
    /\ TaskLives => Received + Len(channel) = Len(collected)
    /\ task = "checking" => Len(held) = 1
    /\ task \in {"none", "waiting", "emitting", "emitting_tail"} => held = <<>>
    /\ task \in {"none", "ended", "panicked"} => batch = <<>>
    /\ task = "none" => delivered = <<>>

\* The loop polls only while it may.
Polling ==
    /\ Len(collected) <= Target
    /\ loop = "poll" => Len(collected) < Target /\ idle < MaxIdle

\* The command goes on only when the loop and the task are over.
Commanding ==
    /\ command # "fetching" =>
          /\ loop \in {"returned", "failed"}
          /\ task \in {"none", "ended", "panicked"}
          /\ streamed = IF task = "ended" THEN Len(delivered) ELSE 0
    /\ response = IF command = "answered" /\ loop = "returned"
                  THEN Remainder(collected, streamed) ELSE <<>>

\* After a Stop the batch in hand goes, and no other.
Silenced ==
    /\ late \in {0, 1}
    /\ late = 1 => /\ cancelled /\ batch = <<>>
                   /\ task \notin {"emitting", "emitting_tail"}

\* The inductive invariant.
StreamIInv == TypeOK /\ Pipeline /\ Polling /\ Commanding /\ Silenced
-----------------------------------------------------------------------------
\* A sequence of consecutive messages grows by the next one,
LEMMA FollowsAppend ==
    ASSUME NEW s \in Seq(Messages), NEW n \in Nat, Follows(s, n),
           NEW e \in Messages, e = n + Len(s) + 1
    PROVE  Follows(Append(s, e), n)
<1>1. /\ Len(Append(s, e)) = Len(s) + 1 /\ Len(s) \in Nat
      /\ \A i \in 1 .. Len(s) : Append(s, e)[i] = s[i]
      /\ Append(s, e)[Len(s) + 1] = e
  OBVIOUS
<1>2. \A i \in 1 .. Len(s) + 1 : i \in 1 .. Len(s) \/ i = Len(s) + 1
  BY <1>1
<1> QED BY <1>1, <1>2 DEF Follows

\* by the sequence that follows it,
LEMMA FollowsConcat ==
    ASSUME NEW s \in Seq(Messages), NEW t \in Seq(Messages), NEW n \in Nat,
           Follows(s, n), Follows(t, n + Len(s))
    PROVE  Follows(s \o t, n)
<1>1. /\ Len(s \o t) = Len(s) + Len(t) /\ Len(s) \in Nat /\ Len(t) \in Nat
      /\ \A i \in 1 .. Len(s) : (s \o t)[i] = s[i]
      /\ \A i \in 1 .. Len(t) : (s \o t)[Len(s) + i] = t[i]
  OBVIOUS
<1> SUFFICES ASSUME NEW i \in 1 .. Len(s) + Len(t) PROVE (s \o t)[i] = n + i
  BY <1>1 DEF Follows
<1>2. CASE i <= Len(s)
  BY <1>1, <1>2 DEF Follows
<1>3. CASE i > Len(s)
  <2> DEFINE j == i - Len(s)
  <2>1. j \in 1 .. Len(t) /\ i = Len(s) + j
    BY <1>1, <1>3
  <2>2. (s \o t)[i] = t[j] /\ t[j] = (n + Len(s)) + j
    BY <1>1, <2>1 DEF Follows
  <2> QED BY <1>1, <2>1, <2>2
<1> QED BY <1>1, <1>2, <1>3

\* and loses its first.
LEMMA FollowsTail ==
    ASSUME NEW s \in Seq(Messages), NEW n \in Nat, Follows(s, n), s # <<>>
    PROVE  /\ Head(s) = n + 1 /\ Head(s) \in Messages
           /\ Tail(s) \in Seq(Messages) /\ Len(Tail(s)) = Len(s) - 1
           /\ Follows(Tail(s), n + 1)
<1>1. /\ Len(s) \in Nat \ {0} /\ Head(s) = s[1] /\ s[1] \in Messages
      /\ Tail(s) \in Seq(Messages) /\ Len(Tail(s)) = Len(s) - 1
      /\ \A i \in 1 .. Len(s) - 1 : Tail(s)[i] = s[i + 1]
  OBVIOUS
<1>2. \A i \in 1 .. Len(s) - 1 : i + 1 \in 1 .. Len(s) /\ n + (i + 1) = (n + 1) + i
  BY <1>1
<1> QED BY <1>1, <1>2 DEF Follows
-----------------------------------------------------------------------------
\* Nothing is collected yet.
LEMMA StreamInitInv == Init => StreamIInv
<1> SUFFICES ASSUME Init PROVE StreamIInv
  OBVIOUS
<1> USE FetchStreamAssumption DEF Init
<1>1. TypeOK
  <2>1. <<>> \in Seq(Messages) /\ 0 \in 0 .. MaxIdle /\ 0 \in 0 .. Target
    OBVIOUS
  <2> QED BY <2>1 DEF TypeOK, LoopStates, TaskStates, CommandStates
<1>2. Pipeline
  BY DEF Pipeline, Follows, TaskLives, Batched, Received
<1>3. Polling /\ Commanding /\ Silenced
  BY DEF Polling, Commanding, Silenced
<1> QED BY <1>1, <1>2, <1>3 DEF StreamIInv

\* Everything that has a length has a natural one.
LEMMA Lengths ==
    ASSUME TypeOK
    PROVE  /\ held \in Seq(Messages)
           /\ Len(held) \in Nat /\ Len(batch) \in Nat /\ Len(channel) \in Nat
           /\ Len(delivered) \in Nat /\ Len(collected) \in Nat
           /\ Batched \in Nat /\ Received \in Nat
<1>1. held \in Seq(Messages)
  <2>1. CASE held = <<>>
    BY <2>1
  <2>2. CASE held \in {<<m>> : m \in Messages}
    <3>1. PICK m \in Messages : held = <<m>>
      BY <2>2
    <3> QED BY <3>1
  <2> QED BY <2>1, <2>2 DEF TypeOK
<1>2. /\ Len(held) \in Nat /\ Len(batch) \in Nat /\ Len(channel) \in Nat
      /\ Len(delivered) \in Nat /\ Len(collected) \in Nat
  BY <1>1 DEF TypeOK
<1> QED BY <1>1, <1>2 DEF Batched, Received

\* What a step does not touch stays as it was.
LEMMA PipelineFrame ==
    ASSUME Pipeline, UNCHANGED <<collected, channel, task, held, batch, delivered>>
    PROVE  Pipeline'
BY DEF Pipeline, Follows, TaskLives, Batched, Received

\* The same of what the command has in hand.
LEMMA CommandingFrame ==
    ASSUME Commanding, UNCHANGED <<command, streamed, response>>,
           command # "fetching" => UNCHANGED <<loop, task, delivered>>,
           command = "answered" => UNCHANGED collected
    PROVE  Commanding'
BY DEF Commanding, Remainder

\* A Stop raises the flag.
LEMMA StopInv == StreamIInv /\ Stop => StreamIInv'
<1> SUFFICES ASSUME StreamIInv, Stop PROVE StreamIInv'
  OBVIOUS
<1> USE DEF StreamIInv, Stop, loopVars, taskVars, commandVars
<1>1. TypeOK' /\ Polling' /\ Silenced'
  BY DEF TypeOK, Polling, Silenced
<1>2. Pipeline'
  BY PipelineFrame
<1>3. Commanding'
  BY CommandingFrame
<1> QED BY <1>1, <1>2, <1>3

\* The steps of the loop that keep no message.
LEMMA LoopInv ==
    ASSUME StreamIInv, Setup \/ Check \/ PollNothing \/ Skip
    PROVE  StreamIInv'
<1> USE DEF StreamIInv, loopVars, taskVars, commandVars
<1>1. /\ loop \in {"setup", "check", "poll"}
      /\ UNCHANGED <<cancelled, collected, channel, taskVars, commandVars>>
  BY DEF Setup, Check, PollNothing, Skip
<1>2. TypeOK' /\ Polling'
  <2>1. CASE Setup
    BY <2>1 DEF Setup, Leave, TypeOK, Polling, LoopStates
  <2>2. CASE Check
    BY <2>2 DEF Check, Leave, TypeOK, Polling, LoopStates
  <2>3. CASE PollNothing
    BY <2>3, FetchStreamAssumption DEF PollNothing, TypeOK, Polling, LoopStates
  <2>4. CASE Skip
    <3>1. idle' \in 0 .. MaxIdle
      BY <2>4, FetchStreamAssumption DEF Skip, TypeOK
    <3>2. CASE loop' = "check" /\ UNCHANGED open
      BY <1>1, <3>1, <3>2 DEF TypeOK, Polling, LoopStates
    <3>3. CASE Leave("returned")
      BY <1>1, <3>1, <3>3 DEF Leave, TypeOK, Polling, LoopStates
    <3> QED BY <2>4, <3>2, <3>3 DEF Skip
  <2> QED BY <2>1, <2>2, <2>3, <2>4
<1>3. Pipeline'
  BY <1>1, PipelineFrame
<1>4. Silenced'
  BY <1>1 DEF Silenced
<1>5. Commanding'
  BY <1>1, CommandingFrame DEF Commanding
<1> QED BY <1>2, <1>3, <1>4, <1>5

\* A message that is kept follows those that were collected, and, while
\* anyone listens, those that are queued.
LEMMA KeepInv == StreamIInv /\ Keep => StreamIInv'
<1> SUFFICES ASSUME StreamIInv, Keep PROVE StreamIInv'
  OBVIOUS
<1> USE DEF StreamIInv, loopVars, taskVars, commandVars
<1> DEFINE m == Len(collected) + 1
<1>1. /\ loop = "poll" /\ m \in Messages
      /\ collected' = Append(collected, m)
      /\ UNCHANGED <<cancelled, taskVars, commandVars>>
  BY FetchStreamAssumption DEF Keep, Polling, TypeOK, Messages
<1>2. /\ Len(collected') = m
      /\ \A i \in 1 .. Len(collected) : collected'[i] = collected[i]
      /\ collected'[m] = m
  BY <1>1 DEF TypeOK
<1>3. TypeOK' /\ Polling'
  <2>1. idle' = 0 /\ loop' \in {"check", "returned"} /\ open' \in BOOLEAN
    BY DEF Keep, Leave, TypeOK
  <2>2. collected' \in Seq(Messages) /\ channel' \in Seq(Messages)
    BY <1>1 DEF Keep, TypeOK
  <2>3. Len(collected') <= Target
    BY <1>1, <1>2, FetchStreamAssumption DEF Messages
  <2> QED BY <1>1, <2>1, <2>2, <2>3, FetchStreamAssumption
          DEF TypeOK, Polling, LoopStates
<1>4. Pipeline'
  <2>1. Follows(collected', 0) /\ Len(delivered) <= Len(collected')
    BY <1>1, <1>2 DEF Pipeline, Follows, TypeOK
  <2>2. CASE task \in {"none", "ended", "panicked"}
    BY <1>1, <2>1, <2>2 DEF Keep, Pipeline, Follows, TaskLives, Batched, Received
  <2>3. CASE task \notin {"none", "ended", "panicked"}
    <3>1. TaskLives /\ channel' = Append(channel, m)
      BY <1>1, <2>3 DEF Keep, TaskLives, TypeOK, TaskStates
    <3>2. Len(channel') = Len(channel) + 1
      BY <3>1 DEF TypeOK
    <3>3. Received + Len(channel) + 1 = m /\ Received' = Received /\ Received \in Nat
      BY <1>1, <3>1, Lengths DEF Pipeline, Received, Batched
    <3>4. Follows(channel', Received')
      BY <1>1, <3>1, <3>3, FollowsAppend DEF Pipeline, TypeOK
    <3>5. Received' + Len(channel') = Len(collected')
      BY <1>1, <1>2, <3>2, <3>3, Lengths
    <3> QED BY <1>1, <2>1, <3>1, <3>4, <3>5 DEF Pipeline, Follows, TaskLives, Batched
  <2> QED BY <2>2, <2>3
<1>5. Silenced'
  BY <1>1 DEF Silenced
<1>6. Commanding'
  BY <1>1, CommandingFrame DEF Commanding
<1> QED BY <1>3, <1>4, <1>5, <1>6

\* recv takes the message that is next in the channel.
LEMMA ReceiveInv == StreamIInv /\ Receive => StreamIInv'
<1> SUFFICES ASSUME StreamIInv, Receive PROVE StreamIInv'
  OBVIOUS
<1> USE DEF StreamIInv, loopVars, taskVars, commandVars
<1>1. /\ task = "waiting" /\ task' = "checking" /\ held = <<>> /\ held' = <<Head(channel)>>
      /\ UNCHANGED <<cancelled, loopVars, batch, delivered, late, commandVars>>
  BY DEF Receive, Pipeline
<1>2. Received = Batched /\ Received \in Nat
  BY <1>1, Lengths DEF Received, Batched
<1>3. /\ Head(channel) = Received + 1 /\ Head(channel) \in Messages
      /\ channel' \in Seq(Messages) /\ Len(channel') = Len(channel) - 1
      /\ Follows(channel', Received + 1)
  BY <1>2, FollowsTail DEF Receive, Pipeline, TypeOK
<1>4. TypeOK'
  BY <1>1, <1>3 DEF TypeOK, TaskStates
<1>5. Pipeline'
  <2>1. Batched' = Batched /\ Received' = Received + 1 /\ Len(held') = 1
    BY <1>1, <1>2 DEF Received, Batched
  <2>2. Follows(held', Batched')
    BY <1>1, <1>2, <1>3, <2>1 DEF Follows
  <2>3. Received' + Len(channel') = Len(collected')
    BY <1>1, <1>2, <1>3, <2>1, Lengths DEF Pipeline, TaskLives
  <2> QED BY <1>1, <1>3, <2>1, <2>2, <2>3 DEF Pipeline, TaskLives
<1>6. Polling' /\ Silenced'
  BY <1>1 DEF Polling, Silenced
<1>7. Commanding'
  BY <1>1, CommandingFrame DEF Commanding
<1> QED BY <1>4, <1>5, <1>6, <1>7

\* The batch is put out for emission with nothing held: its interval is over,
\* or there is nothing left to wait for.
LEMMA WaitedInv == StreamIInv /\ (IntervalElapses \/ ChannelClosed) => StreamIInv'
<1> SUFFICES ASSUME StreamIInv, IntervalElapses \/ ChannelClosed PROVE StreamIInv'
  OBVIOUS
<1> USE DEF StreamIInv, loopVars, taskVars, commandVars
<1>1. /\ task = "waiting" /\ held = <<>>
      /\ \/ task' = "ended" /\ batch = <<>>
         \/ task' \in {"emitting", "emitting_tail"} /\ batch # <<>>
      /\ UNCHANGED <<cancelled, loopVars, channel, held, batch, delivered, late,
                     commandVars>>
  BY DEF IntervalElapses, ChannelClosed, Pipeline
<1>2. TypeOK' /\ Polling' /\ Silenced'
  BY <1>1 DEF TypeOK, TaskStates, Polling, Silenced
<1>3. Pipeline'
  BY <1>1 DEF Pipeline, Follows, TaskLives, Batched, Received
<1>4. Commanding'
  BY <1>1, CommandingFrame DEF Commanding
<1> QED BY <1>2, <1>3, <1>4

\* The message joins the batch it follows, or a Stop drops them both.
LEMMA TakeInv == StreamIInv /\ Take => StreamIInv'
<1> SUFFICES ASSUME StreamIInv, Take PROVE StreamIInv'
  OBVIOUS
<1> USE DEF StreamIInv, loopVars, taskVars, commandVars
<1>1. /\ task = "checking" /\ held' = <<>> /\ Len(held) = 1
      /\ UNCHANGED <<cancelled, loopVars, delivered, late, commandVars>>
  BY DEF Take, Pipeline
<1>2. Polling'
  BY <1>1 DEF Polling
<1>3. Commanding'
  BY <1>1, CommandingFrame DEF Commanding
<1>4. CASE cancelled
  <2>1. task' = "ended" /\ batch' = <<>> /\ channel' = <<>>
    BY <1>4 DEF Take
  <2>2. TypeOK' /\ Silenced'
    BY <1>1, <1>4, <2>1 DEF TypeOK, TaskStates, Silenced
  <2>3. Pipeline'
    BY <1>1, <2>1 DEF Pipeline, Follows, TaskLives, Batched, Received
  <2> QED BY <1>2, <1>3, <2>2, <2>3
<1>5. CASE ~cancelled
  <2>1. /\ task' \in {"waiting", "emitting"} /\ batch' = batch \o held
        /\ UNCHANGED channel
    BY <1>5 DEF Take
  <2>2. /\ batch' \in Seq(Messages) /\ Len(batch') = Len(batch) + Len(held)
        /\ Follows(batch', Len(delivered))
    BY <1>5, <2>1, Lengths, FollowsConcat DEF TypeOK, Pipeline, Batched
  <2>3. TypeOK' /\ Silenced'
    BY <1>1, <1>5, <2>1, <2>2 DEF TypeOK, TaskStates, Silenced
  <2>4. Batched' = Received /\ Received' = Received
    BY <1>1, <2>2, Lengths DEF Batched, Received
  <2>5. Pipeline'
    BY <1>1, <2>1, <2>2, <2>4 DEF Pipeline, TaskLives, Follows
  <2> QED BY <1>2, <1>3, <2>3, <2>5
<1> QED BY <1>4, <1>5

\* An event brings the batch, which follows what was delivered; a Stop it
\* comes after has no other to let through.
LEMMA EmitInv == StreamIInv /\ (Emit \/ Panic) => StreamIInv'
<1> SUFFICES ASSUME StreamIInv, Emit \/ Panic PROVE StreamIInv'
  OBVIOUS
<1> USE DEF StreamIInv, loopVars, taskVars, commandVars
<1>1. /\ task \in {"emitting", "emitting_tail"} /\ held = <<>> /\ batch' = <<>>
      /\ UNCHANGED <<cancelled, loopVars, held, commandVars>>
      /\ EventOut \/ UNCHANGED <<delivered, late>>
      /\ \/ task' \in {"waiting", "ended"} /\ UNCHANGED channel /\ EventOut
         \/ task' = "panicked" /\ channel' = <<>>
  BY DEF Emit, Panic, Pipeline
<1>2. late = 0
  BY <1>1 DEF Silenced
<1>3. late' = 0 \/ (late' = 1 /\ cancelled)
  BY <1>1, <1>2 DEF EventOut
<1>4. Received = Batched /\ Batched <= Len(collected)
  BY <1>1, Lengths DEF Received, Pipeline, TaskLives
<1>5. /\ delivered' \in Seq(Messages) /\ Follows(delivered', 0)
      /\ Len(delivered') <= Len(collected')
      /\ EventOut => Len(delivered') = Batched
  <2>1. CASE EventOut
    <3>1. delivered' = delivered \o batch
      BY <2>1 DEF EventOut
    <3>2. delivered' \in Seq(Messages) /\ Len(delivered') = Batched
      BY <3>1 DEF TypeOK, Batched
    <3>3. 0 + Len(delivered) = Len(delivered)
      BY Lengths
    <3>4. Follows(delivered', 0)
      BY <3>1, <3>3, FollowsConcat DEF TypeOK, Pipeline
    <3> QED BY <1>1, <1>4, <3>2, <3>4
  <2>2. CASE UNCHANGED <<delivered, late>> /\ ~EventOut
    BY <1>1, <2>2 DEF TypeOK, Pipeline
  <2> QED BY <1>1, <2>1, <2>2
<1>6. TypeOK' /\ Polling' /\ Silenced'
  <2>1. task' \in {"waiting", "ended", "panicked"}
    BY <1>1
  <2>2. channel' = channel \/ channel' = <<>>
    BY <1>1
  <2>3. <<>> \in Seq(Messages) /\ channel \in Seq(Messages)
    BY DEF TypeOK
  <2>4. channel' \in Seq(Messages)
    BY <2>2, <2>3
  <2> QED BY <1>1, <1>3, <1>5, <2>1, <2>4 DEF TypeOK, TaskStates, Polling, Silenced
<1>7. Pipeline'
  <2>1. CASE task' \in {"waiting", "ended"} /\ UNCHANGED channel /\ EventOut
    <3>1. Batched' = Batched /\ Received' = Received
      BY <1>1, <1>4, <1>5, <2>1, Lengths DEF Batched, Received
    <3> QED BY <1>1, <1>4, <1>5, <2>1, <3>1 DEF Pipeline, TaskLives, Follows
  <2>2. CASE task' = "panicked" /\ channel' = <<>>
    BY <1>1, <1>5, <2>2 DEF Pipeline, TaskLives, Follows
  <2> QED BY <1>1, <2>1, <2>2
<1>8. Commanding'
  BY <1>1, CommandingFrame DEF Commanding
<1> QED BY <1>6, <1>7, <1>8

\* The command joins a task that is over, and answers with the rest.
LEMMA CommandInv == StreamIInv /\ CommandStep => StreamIInv'
<1> SUFFICES ASSUME StreamIInv, CommandStep PROVE StreamIInv'
  OBVIOUS
<1> USE DEF StreamIInv, loopVars, taskVars, commandVars
<1>1. UNCHANGED <<cancelled, loopVars, channel, taskVars>>
  BY DEF CommandStep, Join, Answer
<1>2. Pipeline' /\ Polling' /\ Silenced'
  BY <1>1, PipelineFrame DEF Polling, Silenced
<1>3. CASE Join
  <2>1. streamed' \in 0 .. Target
    BY <1>3, FetchStreamAssumption, Lengths DEF Join, Pipeline, Polling
  <2> QED BY <1>1, <1>2, <1>3, <2>1 DEF Join, TypeOK, CommandStates, Commanding
<1>4. CASE Answer
  <2>1. Remainder(collected, streamed) \in Seq(Messages)
    BY Lengths DEF Remainder, TypeOK
  <2> QED BY <1>1, <1>2, <1>4, <2>1 DEF Answer, TypeOK, CommandStates, Commanding
<1> QED BY <1>3, <1>4 DEF CommandStep

\* Every step keeps the invariant.
LEMMA StreamNextInv == StreamIInv /\ [Next]_vars => StreamIInv'
<1> SUFFICES ASSUME StreamIInv, [Next]_vars PROVE StreamIInv'
  OBVIOUS
<1>1. CASE UNCHANGED vars
  BY <1>1 DEF vars, loopVars, taskVars, commandVars, StreamIInv, TypeOK, Pipeline, Follows,
     TaskLives, Batched, Received, Polling, Commanding, Remainder, Silenced
<1>2. CASE Stop
  BY <1>2, StopInv
<1>3. CASE LoopStep
  BY <1>3, LoopInv, KeepInv DEF LoopStep
<1>4. CASE TaskStep
  BY <1>4, ReceiveInv, WaitedInv, TakeInv, EmitInv DEF TaskStep
<1>5. CASE CommandStep
  BY <1>5, CommandInv
<1> QED BY <1>1, <1>2, <1>3, <1>4, <1>5 DEF Next
-----------------------------------------------------------------------------
\* The invariant holds of every fetch.
LEMMA StreamInvHolds == Spec => []StreamIInv
BY StreamInitInv, StreamNextInv, PTL DEF Spec

\* What was delivered, followed by the rest of what was collected, is what was
\* collected.
LEMMA DeliveredIsWhole ==
    ASSUME StreamIInv
    PROVE  /\ delivered \o Remainder(collected, Len(delivered)) = collected
           /\ Remainder(collected, 0) = collected
           /\ delivered \o <<>> = delivered
<1> USE DEF StreamIInv, TypeOK
<1>1. /\ delivered \in Seq(Messages) /\ collected \in Seq(Messages)
      /\ Len(delivered) \in Nat /\ Len(collected) \in Nat
      /\ Len(delivered) <= Len(collected)
      /\ \A i \in 1 .. Len(delivered) : delivered[i] = collected[i]
  BY Lengths DEF Pipeline, Follows
<1>2. delivered \o SubSeq(collected, Len(delivered) + 1, Len(collected)) = collected
  BY <1>1
<1>3. SubSeq(collected, 0 + 1, Len(collected)) = collected
  BY <1>1
<1> QED BY <1>1, <1>2, <1>3 DEF Remainder

\* The variables have their types, and once the command has answered, the
\* events and the response together are the result, each message once
\* (connection_fetch_messages drains what forward_in_batches says it sent).
THEOREM StreamIsSound == Spec => []StreamInvariant
<1>1. StreamIInv => StreamInvariant
  <2> SUFFICES ASSUME StreamIInv PROVE StreamInvariant
    OBVIOUS
  <2>1. ASSUME command = "answered", loop = "returned", task # "panicked"
        PROVE  delivered \o response = collected
    <3>1. response = Remainder(collected, streamed)
      BY <2>1 DEF StreamIInv, Commanding
    <3>2. streamed = Len(delivered)
      BY <2>1 DEF StreamIInv, Commanding, Pipeline
    <3> QED BY <3>1, <3>2, DeliveredIsWhole
  <2> QED BY <2>1 DEF StreamIInv, StreamInvariant, ShownOnce
<1> QED BY <1>1, StreamInvHolds, PTL

\* Once the flag is up, at most the batch already being emitted still crosses,
\* however much is queued (the check in forward_in_batches).
THEOREM StopSilences == Spec => []StopSilencesTheStream
<1>1. StreamIInv => StopSilencesTheStream
  BY DEF StreamIInv, Silenced, StopSilencesTheStream
<1> QED BY <1>1, StreamInvHolds, PTL
-----------------------------------------------------------------------------
\* A step of the loop fetches a message or none.
LEMMA LoopRefines ==
    ASSUME StreamIInv, Stop \/ LoopStep
    PROVE  [Delivery!Next]_Delivery!vars
<1> USE DEF StreamIInv, loopVars, taskVars, commandVars
<1>1. UNCHANGED <<delivered, commandVars>>
  BY DEF Stop, LoopStep, Setup, Check, Keep, PollNothing, Skip
<1>2. command # "answered"
  BY DEF Stop, LoopStep, Setup, Check, Keep, PollNothing, Skip, Commanding
<1>3. CASE Keep
  BY <1>1, <1>2, <1>3 DEF Keep, Delivery!Next, Delivery!Fetch
<1>4. CASE ~Keep
  <2>1. UNCHANGED collected
    BY <1>4 DEF Stop, LoopStep, Setup, Check, PollNothing, Skip
  <2> QED BY <1>1, <1>2, <2>1 DEF Delivery!vars
<1> QED BY <1>3, <1>4

\* An event shows the messages that come next.
LEMMA TaskRefines ==
    ASSUME StreamIInv, TaskStep
    PROVE  [Delivery!Next]_Delivery!vars
<1> USE DEF StreamIInv, loopVars, taskVars, commandVars
<1>1. UNCHANGED <<collected, commandVars>>
  BY DEF TaskStep, Receive, IntervalElapses, ChannelClosed, Take, Emit, Panic
<1>2. TaskLives
  BY DEF TaskStep, Receive, IntervalElapses, ChannelClosed, Take, Emit, Panic, TaskLives
<1>3. command = "fetching" /\ response = <<>>
  BY <1>2 DEF TaskLives, Commanding, TypeOK, CommandStates
<1>4. CASE UNCHANGED delivered
  BY <1>1, <1>3, <1>4 DEF Delivery!vars
<1>5. CASE delivered' = delivered \o batch /\ batch # <<>>
  <2>1. StreamIInv'
    BY StreamNextInv DEF Next
  <2>2. delivered' \in Seq(Messages) /\ Len(delivered') = Len(delivered) + Len(batch)
    BY <1>5 DEF TypeOK
  <2>3. Len(batch) \in Nat \ {0} /\ Len(delivered) \in Nat /\ Len(collected) \in Nat
    BY <1>5 DEF TypeOK
  <2>4. Len(delivered') <= Len(collected)
    BY <1>1, <2>1 DEF Pipeline
  <2>5. Follows(delivered', 0) /\ Follows(collected, 0)
    BY <2>1 DEF Pipeline, Follows
  <2>6. delivered' = SubSeq(collected, 1, Len(delivered'))
    BY <2>2, <2>3, <2>4, <2>5 DEF Follows, TypeOK
  <2>7. delivered \o response = delivered /\ (delivered \o response)' = delivered'
    BY <1>1, <1>3, <2>2 DEF TypeOK
  <2>8. Len(delivered') \in Len(delivered) + 1 .. Len(collected)
    BY <2>2, <2>3, <2>4
  <2>9. Delivery!Show
    BY <1>1, <1>3, <2>6, <2>7, <2>8 DEF Delivery!Show
  <2> QED BY <2>9 DEF Delivery!Next
<1>6. UNCHANGED delivered \/ (delivered' = delivered \o batch /\ batch # <<>>)
  <2>1. UNCHANGED delivered \/ delivered' = delivered \o batch
    BY DEF TaskStep, Receive, IntervalElapses, ChannelClosed, Take, Emit, Panic, EventOut
  <2>2. batch = <<>> => delivered \o batch = delivered
    BY DEF TypeOK
  <2> QED BY <2>1, <2>2
<1> QED BY <1>4, <1>5, <1>6

\* The answer completes what is shown, or fails and adds nothing.
LEMMA CommandRefines ==
    ASSUME StreamIInv, CommandStep
    PROVE  [Delivery!Next]_Delivery!vars
<1> USE DEF StreamIInv, loopVars, taskVars, commandVars
<1>1. UNCHANGED <<loop, collected, delivered>>
  BY DEF CommandStep, Join, Answer
<1>2. CASE Join
  BY <1>1, <1>2 DEF Join, Delivery!vars
<1>3. CASE Answer
  <2>1. /\ command = "joined" /\ command' = "answered" /\ response = <<>>
        /\ loop \in {"returned", "failed"} /\ task \in {"none", "ended", "panicked"}
    BY <1>3 DEF Answer, Commanding
  <2>2. delivered \o response = delivered
    BY <2>1, DeliveredIsWhole
  <2>3. CASE loop = "failed"
    <3>1. response' = <<>>
      BY <1>3, <2>3 DEF Answer
    <3>2. (delivered \o response)' = delivered \o response
      BY <1>1, <2>1, <3>1
    <3>3. Delivery!Fail
      BY <1>1, <2>1, <2>3, <3>2 DEF Delivery!Fail
    <3> QED BY <3>3 DEF Delivery!Next
  <2>4. CASE loop = "returned"
    <3>1. response' = Remainder(collected, streamed)
      BY <1>3, <2>4 DEF Answer
    <3>2. (delivered \o response)' \in {collected, delivered \o collected}
      <4>1. CASE task = "ended"
        <5>1. streamed = Len(delivered)
          BY <2>1, <4>1 DEF Commanding
        <5> QED BY <1>1, <3>1, <5>1, DeliveredIsWhole
      <4>2. CASE task # "ended"
        <5>1. streamed = 0
          BY <2>1, <4>2 DEF Commanding
        <5> QED BY <1>1, <3>1, <5>1, DeliveredIsWhole
      <4> QED BY <4>1, <4>2
    <3>3. Delivery!Complete
      BY <1>1, <2>1, <2>2, <2>4, <3>2 DEF Delivery!Complete
    <3> QED BY <3>3 DEF Delivery!Next
  <2> QED BY <2>1, <2>3, <2>4
<1> QED BY <1>2, <1>3 DEF CommandStep

\* The loop, the forwarding task and the command, whatever their
\* interleavings, Stops and panics, show the tab what was fetched, in order
\* and in the end all of it (the doc of connection_fetch_messages).
THEOREM StreamDelivers == Spec => DeliversWhatWasFetched
<1>1. Init => Delivery!Init
  BY DEF Init, Delivery!Init
<1>2. StreamIInv /\ [Next]_vars => [Delivery!Next]_Delivery!vars
  <2> SUFFICES ASSUME StreamIInv, [Next]_vars PROVE [Delivery!Next]_Delivery!vars
    OBVIOUS
  <2>1. CASE UNCHANGED vars
    BY <2>1 DEF vars, loopVars, taskVars, commandVars, Delivery!vars
  <2>2. CASE Next
    BY <2>2, LoopRefines, TaskRefines, CommandRefines DEF Next
  <2> QED BY <2>1, <2>2
<1> QED BY <1>1, <1>2, StreamInvHolds, PTL DEF Spec, Delivery!Spec, DeliversWhatWasFetched

-----------------------------------------------------------------------------
(* The requests on a pooled client.                                        *)

PcStates == {"idle", "waiting", "calling", "draining", "walking", "answered"}

Shape ==
    /\ pc \in [Requests -> PcStates]
    /\ DOMAIN answer = Requests

\* The lock says who is between begin and failure.
Exclusive ==
    \A r \in Requests : pc[r] \in {"calling", "draining"} <=> lock = r

\* The slot of the request that has it is empty or its own.
Fresh ==
    \A r \in Requests :
        /\ pc[r] = "calling" => slot = None
        /\ pc[r] = "draining" /\ slot # None => slot.reader = r

\* The inductive invariant.
IInv == Shape /\ Exclusive /\ Fresh /\ ReasonsAreReadByTheirOwner
-----------------------------------------------------------------------------
\* Nobody has asked.
LEMMA InitInv == CallsInit => IInv
BY CallsAssumption DEF CallsInit, IInv, Shape, PcStates, Exclusive, Fresh,
   ReasonsAreReadByTheirOwner

\* Trouble is queued; it is in nobody's slot before it is served.
LEMMA TroubleInv == IInv /\ BrokerTrouble => IInv'
BY DEF BrokerTrouble, IInv, Shape, Exclusive, Fresh, ReasonsAreReadByTheirOwner

\* A report with a reason that the request gives itself keeps the property.
LEMMA AnswerKeeps ==
    ASSUME DOMAIN answer = Requests, ReasonsAreReadByTheirOwner,
           NEW r \in Requests, NEW report,
           answer' = [answer EXCEPT ![r] = report],
           report.reason # None => report.reader = r
    PROVE  ReasonsAreReadByTheirOwner'
BY DEF ReasonsAreReadByTheirOwner

\* A step of a request that does not have the slot.
LEMMA OutsideInv ==
    ASSUME IInv, NEW r \in Requests, Ask(r) \/ Walks(r)
    PROVE  IInv'
<1> USE DEF IInv
<1>1. /\ pc[r] \in {"idle", "walking"} /\ UNCHANGED <<slot, lock>>
      /\ \E to \in {"waiting", "answered"} : pc' = [pc EXCEPT ![r] = to]
  BY DEF Ask, Walks, Answered
<1>2. Shape' /\ Exclusive' /\ Fresh'
  <2>1. PICK to \in {"waiting", "answered"} : pc' = [pc EXCEPT ![r] = to]
    BY <1>1
  <2>2. DOMAIN answer' = Requests
    BY DEF Ask, Walks, Answered, Shape
  <2>3. /\ pc'[r] = to
        /\ \A q \in Requests \ {r} : pc'[q] = pc[q]
        /\ pc' \in [Requests -> PcStates]
    BY <2>1 DEF Shape, PcStates
  <2> QED BY <1>1, <2>2, <2>3 DEF Shape, Exclusive, Fresh
<1>3. ReasonsAreReadByTheirOwner'
  <2>1. UNCHANGED answer \/ \E report :
            /\ answer' = [answer EXCEPT ![r] = report]
            /\ report.reason # None => report.reader = r
    <3>1. CASE Walks(r)
      <4>1. PICK report \in {Succeeded, [kind |-> "Kafka", reason |-> None, reader |-> r]} :
              answer' = [answer EXCEPT ![r] = report]
        BY <3>1 DEF Walks, Answered
      <4>2. report.reason = None
        BY <4>1 DEF Succeeded
      <4> QED BY <4>1, <4>2
    <3>2. CASE Ask(r) /\ ~UNCHANGED answer
      <4>1. answer' = [answer EXCEPT ![r] =
                failure_report("ClientCreation", "not_set", r)]
        BY <3>2 DEF Ask
      <4>2. failure_report("ClientCreation", "not_set", r).reader = r
        BY DEF failure_report
      <4> QED BY <4>1, <4>2
    <3> QED BY <3>1, <3>2
  <2>2. CASE UNCHANGED answer
    BY <2>2 DEF ReasonsAreReadByTheirOwner
  <2>3. CASE ~UNCHANGED answer
    BY <2>1, <2>3, AnswerKeeps DEF Shape
  <2> QED BY <2>2, <2>3
<1> QED BY <1>2, <1>3

\* A step of the request that has the slot, or takes it.
LEMMA ObservedInv ==
    ASSUME IInv, NEW r \in Requests, observed(r)
    PROVE  IInv'
<1> USE CallsAssumption DEF IInv
<1>1. CASE begin(r)
  BY <1>1 DEF begin, Forgotten, Shape, PcStates, Exclusive, Fresh,
     ReasonsAreReadByTheirOwner
<1>2. CASE CallReturns(r)
  <2>1. lock = r /\ lock' = None /\ pc' = [pc EXCEPT ![r] = "answered"]
        /\ UNCHANGED slot /\ answer' = [answer EXCEPT ![r] = Succeeded]
    BY <1>2 DEF CallReturns, Answered, Exclusive
  <2>2. ReasonsAreReadByTheirOwner'
    BY <2>1, AnswerKeeps DEF Succeeded, Shape
  <2> QED BY <2>1, <2>2 DEF Shape, PcStates, Exclusive, Fresh
<1>3. CASE CallReturnsToWalk(r)
  BY <1>3 DEF CallReturnsToWalk, Shape, PcStates, Exclusive, Fresh,
     ReasonsAreReadByTheirOwner
<1>4. CASE CallFails(r)
  BY <1>4 DEF CallFails, Shape, PcStates, Exclusive, Fresh,
     ReasonsAreReadByTheirOwner
<1>5. CASE drain_error_events(r)
  <2>1. pc[r] = "draining" /\ lock = r /\ UNCHANGED <<pc, lock, answer>>
    BY <1>5 DEF drain_error_events, Exclusive
  <2>2. slot' = slot \/ slot'.reader = r
    BY <1>5 DEF drain_error_events, Served
  <2>3. \A q \in Requests : pc[q] \in {"calling", "draining"} => q = r
    BY <2>1 DEF Exclusive
  <2> QED BY <2>1, <2>2, <2>3 DEF Shape, Exclusive, Fresh,
             ReasonsAreReadByTheirOwner
<1>6. CASE failure(r)
  <2> DEFINE report ==
        IF slot = None THEN failure_report(error[r], ReasonOf(error[r]), r)
        ELSE failure_report(error[r], slot.reason, slot.reader)
  <2>1. lock = r /\ lock' = None /\ pc' = [pc EXCEPT ![r] = "answered"]
        /\ UNCHANGED slot /\ answer' = [answer EXCEPT ![r] = report]
    BY <1>6 DEF failure, Answered, Exclusive
  <2>2. report.reader = r
    BY <1>6 DEF failure, Fresh, failure_report
  <2> HIDE DEF report
  <2>3. ReasonsAreReadByTheirOwner'
    BY <2>1, <2>2, AnswerKeeps DEF Shape
  <2> QED BY <2>1, <2>3 DEF Shape, PcStates, Exclusive, Fresh
<1> QED BY <1>1, <1>2, <1>3, <1>4, <1>5, <1>6 DEF observed

\* Every step keeps the invariant.
LEMMA NextInv == IInv /\ [CallsNext]_callVars => IInv'
<1> SUFFICES ASSUME IInv, [CallsNext]_callVars PROVE IInv'
  OBVIOUS
<1>1. CASE UNCHANGED callVars
  BY <1>1 DEF callVars, IInv, Shape, Exclusive, Fresh, ReasonsAreReadByTheirOwner
<1>2. CASE BrokerTrouble
  BY <1>2, TroubleInv
<1>3. ASSUME NEW r \in Requests, RequestStep(r) PROVE IInv'
  BY <1>3, OutsideInv, ObservedInv DEF RequestStep
<1> QED BY <1>1, <1>2, <1>3 DEF CallsNext

\* Whatever requests share a client, a request that gives a reason for its
\* failure has read that reason off the queue itself (ObservedClient: begin
\* forgets, failure drains, and both are under the slot's lock).
THEOREM OwnReasons == CallsSpec => []ReasonsAreReadByTheirOwner
<1>1. IInv => ReasonsAreReadByTheirOwner
  BY DEF IInv
<1> QED BY <1>1, InitInv, NextInv, PTL DEF CallsSpec
-----------------------------------------------------------------------------
(* What a client is told. *)

\* Twice the largest message in kilobytes, rounded down, is room for it, and
\* so is the floor if twice does not reach it.
LEMMA PrefetchHoldsOne ==
    ASSUME NEW size \in Nat
    PROVE  PrefetchKilobytes(size) * Kilobyte >= size
PROOF
<1> DEFINE twice == (size * 2) \div Kilobyte
<1>1. Kilobyte \in Nat /\ Kilobyte > 0 /\ PREFETCH_FLOOR \in Nat
      /\ PREFETCH_FLOOR >= 1
  BY ConfigAssumption
<1>2. /\ twice \in Nat
      /\ Kilobyte * twice <= size * 2
      /\ size * 2 < Kilobyte * twice + Kilobyte
  BY <1>1
<1>3. PrefetchKilobytes(size) = IF twice > PREFETCH_FLOOR THEN twice
                                ELSE PREFETCH_FLOOR
  BY DEF PrefetchKilobytes
<1> HIDE DEF twice
<1>4. CASE twice > PREFETCH_FLOOR
  <2>1. Kilobyte * twice >= Kilobyte * 2
    BY <1>1, <1>2, <1>4
  <2>2. Kilobyte * twice \in Int /\ Kilobyte * twice = twice * Kilobyte
    BY <1>1, <1>2
  <2> DEFINE room == Kilobyte * twice
  <2>3. room \in Int /\ room >= Kilobyte * 2 /\ size * 2 < room + Kilobyte
    BY <1>2, <2>1, <2>2
  <2> HIDE DEF room
  <2>4. room >= size
    BY <1>1, <2>3
  <2> QED BY <1>3, <1>4, <2>2, <2>4 DEF room
<1>5. CASE ~(twice > PREFETCH_FLOOR)
  <2> DEFINE room == Kilobyte * twice
             floor == PREFETCH_FLOOR * Kilobyte
  <2>1. /\ room \in Int /\ floor \in Int /\ room <= floor /\ Kilobyte <= floor
        /\ size * 2 < room + Kilobyte
    BY <1>1, <1>2, <1>5
  <2> HIDE DEF room, floor
  <2>2. floor >= size
    BY <1>1, <2>1
  <2> QED BY <1>3, <1>5, <2>2 DEF floor
<1> QED BY <1>4, <1>5

\* A setting that was told first counts.
LEMMA ToldFirst ==
    ASSUME NEW config, NEW rest, NEW property
    PROVE  /\ property \in DOMAIN config => /\ property \in DOMAIN (config ++ rest)
                                            /\ (config ++ rest)[property] = config[property]
           /\ property \in DOMAIN rest => property \in DOMAIN (config ++ rest)
           /\ property \in DOMAIN rest /\ property \notin DOMAIN config
                => (config ++ rest)[property] = rest[property]
BY DEF ++

\* Later settings win: a fetch's own are not its connection's.
LEMMA FetchSettings ==
    ASSUME NEW settings, NEW size
    PROVE  LET config == fetch_consumer_config(settings, size)
           IN  /\ config["queued.max.messages.kbytes"] = PrefetchKilobytes(size)
               /\ config["max.partition.fetch.bytes"] = size
PROOF
<1> DEFINE rest == client_config(settings)
           kbytes == PrefetchKilobytes(size)
<1> HIDE DEF rest, kbytes
<1>1. fetch_consumer_config(settings, size) =
        Set("group.id", "salty-message-browser")
          ++ Set("enable.auto.commit", FALSE)
          ++ Set("max.partition.fetch.bytes", size)
          ++ Set("queued.max.messages.kbytes", kbytes)
          ++ Set("fetch.queue.backoff.ms", 10)
          ++ Set("fetch.wait.max.ms", 50)
          ++ Set("enable.partition.eof", TRUE)
          ++ rest
  BY DEF fetch_consumer_config, rest, kbytes
<1> DEFINE c1 == Set("group.id", "salty-message-browser")
                   ++ Set("enable.auto.commit", FALSE)
           c2 == c1 ++ Set("max.partition.fetch.bytes", size)
           c3 == c2 ++ Set("queued.max.messages.kbytes", kbytes)
           c4 == c3 ++ Set("fetch.queue.backoff.ms", 10)
           c5 == c4 ++ Set("fetch.wait.max.ms", 50)
           c6 == c5 ++ Set("enable.partition.eof", TRUE)
           c7 == c6 ++ rest
<1>2. DOMAIN c1 = {"group.id", "enable.auto.commit"}
  BY DEF Set, ++
<1> HIDE DEF c1
<1>3. /\ DOMAIN c2 = DOMAIN c1 \union {"max.partition.fetch.bytes"}
      /\ c2["max.partition.fetch.bytes"] = size
  BY <1>2 DEF Set, ++
<1> HIDE DEF c2
<1>4. /\ "max.partition.fetch.bytes" \in DOMAIN c3
      /\ "queued.max.messages.kbytes" \in DOMAIN c3
      /\ c3["max.partition.fetch.bytes"] = size
      /\ c3["queued.max.messages.kbytes"] = kbytes
  BY <1>2, <1>3 DEF Set, ++
<1> HIDE DEF c3
<1>5. /\ "max.partition.fetch.bytes" \in DOMAIN c5
      /\ "queued.max.messages.kbytes" \in DOMAIN c5
      /\ c5["max.partition.fetch.bytes"] = size
      /\ c5["queued.max.messages.kbytes"] = kbytes
  BY <1>4, ToldFirst
<1> HIDE DEF c5
<1>6. /\ "max.partition.fetch.bytes" \in DOMAIN c6
      /\ "queued.max.messages.kbytes" \in DOMAIN c6
      /\ c6["max.partition.fetch.bytes"] = size
      /\ c6["queued.max.messages.kbytes"] = kbytes
  BY <1>5 DEF ++
<1> HIDE DEF c6
<1>7. /\ c7["max.partition.fetch.bytes"] = size
      /\ c7["queued.max.messages.kbytes"] = kbytes
  BY <1>6, ToldFirst
<1>8. fetch_consumer_config(settings, size) = c7
  BY <1>1 DEF c1, c2, c3, c5, c6
<1> QED BY <1>7, <1>8 DEF kbytes

\* The queue of a fetch is room for the largest message, whatever its size.
LEMMA QueueFits == QueueFitsTheLargestMessage
PROOF
<1> SUFFICES ASSUME NEW size \in Sizes
             PROVE  LET config == fetch_consumer_config(connection, size)
                    IN config["queued.max.messages.kbytes"] * Kilobyte
                         >= config["max.partition.fetch.bytes"]
  BY DEF QueueFitsTheLargestMessage
<1>1. size \in Nat
  BY CallsAssumption
<1> QED BY <1>1, PrefetchHoldsOne, FetchSettings

\* The variables of the requests have their types.
CallsTyped ==
    /\ connection \in Settings
    /\ client \in {None, client_config(connection)}
    /\ slot \in {None} \union [reason : Reasons, reader : Requests]
    /\ queue \in Seq(Reasons) /\ Len(queue) <= MaxEvents
    /\ lock \in Requests \union {None}
    /\ pc \in [Requests -> PcStates]
    /\ error \in [Requests -> CallCodes \union {None}]
    /\ polls \in [Requests -> 0 .. DRAIN_POLLS]
    /\ answer \in [Requests -> Reports \union {None}]
    /\ \A r \in Requests : answer[r] # None <=> pc[r] = "answered"

\* They have as it starts.
LEMMA InitTyped == CallsInit => CallsTyped
BY CallsAssumption DEF CallsInit, CallsTyped, PcStates

\* What is reported is a report.
LEMMA ReportsAre ==
    /\ Succeeded \in Reports
    /\ \A r \in Requests : [kind |-> "Kafka", reason |-> None, reader |-> r] \in Reports
    /\ \A code : \A r \in Requests :
          /\ failure_report(code, "not_set", r) \in Reports
          /\ failure_report(code, ReasonOf(code), r) \in Reports
          /\ \A reason \in Reasons : failure_report(code, reason, r) \in Reports
BY DEF Succeeded, Reports, failure_report, ReasonOf, Reasons

\* One more event, or one less.
LEMMA EventsTyped ==
    ASSUME NEW q \in Seq(Reasons)
    PROVE  /\ Len(q) \in Nat
           /\ \A reason \in Reasons : /\ Append(q, reason) \in Seq(Reasons)
                                      /\ Len(Append(q, reason)) = Len(q) + 1
           /\ q # <<>> => /\ Head(q) \in Reasons /\ Tail(q) \in Seq(Reasons)
                          /\ Len(Tail(q)) = Len(q) - 1
OBVIOUS

\* A request's step keeps the types.
LEMMA RequestTyped ==
    ASSUME CallsTyped, NEW r \in Requests, RequestStep(r)
    PROVE  CallsTyped'
PROOF
<1> USE CallsAssumption DEF CallsTyped
<1>1. CASE Ask(r)
  <2> DEFINE config == IF client = None THEN client_config(connection) ELSE client
  <2>1. config = client_config(connection)
    OBVIOUS
  <2> HIDE DEF config
  <2>2. CASE RefusedConfig(config)
    <3>1. /\ pc' = [pc EXCEPT ![r] = "answered"]
          /\ answer' = [answer EXCEPT ![r] =
                           failure_report("ClientCreation", "not_set", r)]
          /\ UNCHANGED <<client, connection, slot, queue, lock, error, polls>>
      BY <1>1, <2>2 DEF Ask, config
    <3>2. failure_report("ClientCreation", "not_set", r) \in Reports
      BY ReportsAre
    <3> QED BY <3>1, <3>2 DEF PcStates
  <2>3. CASE ~RefusedConfig(config)
    <3>1. /\ client' = config /\ pc' = [pc EXCEPT ![r] = "waiting"]
          /\ pc[r] = "idle"
          /\ UNCHANGED <<answer, connection, slot, queue, lock, error, polls>>
      BY <1>1, <2>3 DEF Ask, config
    <3> QED BY <2>1, <3>1 DEF PcStates
  <2> QED BY <2>2, <2>3
<1>2. CASE Walks(r)
  <2>1. PICK report \in {Succeeded, [kind |-> "Kafka", reason |-> None, reader |-> r]} :
          Answered(r, report)
    BY <1>2 DEF Walks
  <2>2. report \in Reports
    BY <2>1, ReportsAre
  <2> QED BY <1>2, <2>1, <2>2 DEF Walks, Answered, PcStates
<1>3. CASE begin(r)
  BY <1>3 DEF begin, Forgotten, PcStates
<1>4. CASE CallReturns(r)
  BY <1>4, ReportsAre DEF CallReturns, Answered, PcStates
<1>5. CASE CallReturnsToWalk(r)
  BY <1>5 DEF CallReturnsToWalk, PcStates
<1>6. CASE CallFails(r)
  <2>1. queue' \in Seq(Reasons) /\ Len(queue') <= MaxEvents
    <3>1. CASE UNCHANGED queue
      BY <3>1
    <3>2. CASE ~UNCHANGED queue
      <4>1. PICK reason \in Reasons :
              queue' = Append(queue, reason) /\ Len(queue) < MaxEvents
        BY <1>6, <3>2 DEF CallFails, Reported
      <4>2. /\ Append(queue, reason) \in Seq(Reasons)
            /\ Len(Append(queue, reason)) = Len(queue) + 1 /\ Len(queue) \in Nat
        BY EventsTyped
      <4> QED BY <4>1, <4>2
    <3> QED BY <3>1, <3>2
  <2> QED BY <1>6, <2>1 DEF CallFails, PcStates
<1>7. CASE drain_error_events(r)
  <2>1. /\ queue' \in Seq(Reasons) /\ Len(queue') <= MaxEvents
        /\ slot' \in {None} \union [reason : Reasons, reader : Requests]
    <3>1. CASE queue = <<>>
      BY <1>7, <3>1 DEF drain_error_events
    <3>2. CASE queue # <<>>
      <4>1. /\ queue' = Tail(queue)
            /\ slot' = [reason |-> Head(queue), reader |-> r]
        BY <1>7, <3>2 DEF drain_error_events, Served
      <4>2. /\ Head(queue) \in Reasons /\ Tail(queue) \in Seq(Reasons)
            /\ Len(Tail(queue)) = Len(queue) - 1 /\ Len(queue) \in Nat
        BY <3>2, EventsTyped
      <4> QED BY <4>1, <4>2
    <3> QED BY <3>1, <3>2
  <2>2. polls' \in [Requests -> 0 .. DRAIN_POLLS]
    BY <1>7 DEF drain_error_events
  <2> QED BY <1>7, <2>1, <2>2 DEF drain_error_events
<1>8. CASE failure(r)
  <2> DEFINE report ==
        IF slot = None THEN failure_report(error[r], ReasonOf(error[r]), r)
        ELSE failure_report(error[r], slot.reason, slot.reader)
  <2>1. report \in Reports
    BY ReportsAre
  <2>2. /\ pc' = [pc EXCEPT ![r] = "answered"]
        /\ answer' = [answer EXCEPT ![r] = report] /\ lock' = None
        /\ UNCHANGED <<connection, client, slot, queue, error, polls>>
    BY <1>8 DEF failure, Answered
  <2> HIDE DEF report
  <2> QED BY <2>1, <2>2 DEF PcStates
<1> QED BY <1>1, <1>2, <1>3, <1>4, <1>5, <1>6, <1>7, <1>8
        DEF RequestStep, observed

\* What a pooled client is told is what the Test button tried, its queue is
\* room for the largest message, and the requests' bookkeeping has its types:
\* the queue within its bound, a drain within its budget, an answer exactly
\* once a request has ended (client_config and test_connection build one
\* configuration; fetch_consumer_config doubles the largest message).
THEOREM ClientIsSound == CallsSpec => []ClientInvariant
PROOF
<1>1. CallsTyped => ClientInvariant
  <2> SUFFICES ASSUME CallsTyped PROVE CallsTypeOK /\ TestedIsWhatConnects
    BY QueueFits DEF ClientInvariant
  <2>1. CallsTypeOK
    BY DEF CallsTyped, CallsTypeOK, PcStates
  <2>2. TestedIsWhatConnects
    BY DEF CallsTyped, TestedIsWhatConnects, client_config, test_config,
       BrokerSslConfig, FormSslConfig
  <2> QED BY <2>1, <2>2
<1>2. CallsTyped /\ [CallsNext]_callVars => CallsTyped'
  <2>1. CallsTyped /\ BrokerTrouble => CallsTyped'
    BY EventsTyped, CallsAssumption DEF CallsTyped, BrokerTrouble, Reported
  <2>2. CallsTyped /\ UNCHANGED callVars => CallsTyped'
    BY DEF CallsTyped, callVars
  <2> QED BY <2>1, <2>2, RequestTyped DEF CallsNext
<1> QED BY <1>1, <1>2, InitTyped, PTL DEF CallsSpec
-----------------------------------------------------------------------------
(* The row that watches its cluster. *)

PingTyped ==
    /\ links \in [Addresses -> Links] /\ pinging \in BOOLEAN /\ clock \in Nat
    /\ dialled \in [Addresses -> Nat \union {NotYet}]
    /\ failed \subseteq Addresses

\* Nothing is dialled once the delay is over, and no dial outlasts its timeout.
OnTime ==
    /\ ~pinging => clock = 0
    /\ clock <= PING_FANOUT_DELAY + TCP_PING_TIMEOUT
    /\ \A a \in Addresses : dialled[a] # NotYet =>
          /\ dialled[a] <= clock /\ dialled[a] <= PING_FANOUT_DELAY
          /\ a \notin failed => clock <= dialled[a] + TCP_PING_TIMEOUT
    /\ clock > PING_FANOUT_DELAY =>
          \A a \in Addresses : dialled[a] # NotYet

PingIInv == PingTyped /\ OnTime

\* A strike stands for a miss, and a status left behind for one.
Struck ==
    /\ misses \in 0 .. UNREACHABLE_POLLS_BEFORE_DISCONNECT
    /\ strikes \in 0 .. UNREACHABLE_POLLS_BEFORE_DISCONNECT - 1
    /\ strikes <= misses
    /\ status = "UNREACHABLE" => misses >= 1
    /\ ~isConnected => strikes = 0

RowTyped ==
    /\ session \in 0 .. MaxSessions /\ sessions \in 0 .. MaxSessions
    /\ status \in {"UNKNOWN", "REACHABLE", "UNREACHABLE"}
    /\ isConnected \in BOOLEAN /\ contents \in 0 .. MaxSessions

\* The inductive invariant of the row.
WatchIInv == PingIInv /\ RowTyped /\ Struck

\* Nothing has happened.
LEMMA InitWatch == WatchInit => WatchIInv
PROOF
<1> SUFFICES ASSUME WatchInit PROVE WatchIInv
  OBVIOUS
<1> USE PingAssumption, WatchAssumption DEF WatchInit, PingInit
<1>1. PingTyped
  BY DEF PingTyped, NobodyDialled
<1>2. OnTime
  <2>1. \A a \in Addresses : dialled[a] = NotYet
    BY DEF NobodyDialled
  <2>2. clock = 0 /\ ~(0 > PING_FANOUT_DELAY)
        /\ 0 <= PING_FANOUT_DELAY + TCP_PING_TIMEOUT
    OBVIOUS
  <2> QED BY <2>1, <2>2 DEF OnTime
<1>3. RowTyped
  <2>1. isConnected \in BOOLEAN /\ status = "UNKNOWN"
    BY Zenon
  <2>2. session = 0 /\ sessions = 0 /\ contents = 0
    BY DEF NoSession
  <2> QED BY <2>1, <2>2 DEF RowTyped
<1>4. Struck
  BY DEF Struck
<1> QED BY <1>1, <1>2, <1>3, <1>4 DEF WatchIInv, PingIInv

\* A ping that begins, goes on or ends keeps its time.
LEMMA PingKeepsTime ==
    ASSUME PingIInv, UNCHANGED links,
           StartPing \/ PingGoesOn \/ (pinging /\ Over)
    PROVE  PingIInv'
PROOF
<1> USE PingAssumption DEF PingIInv, PingTyped
<1>1. CASE StartPing
  <2>1. /\ dialled' = [a \in Addresses |-> IF a = First THEN 0 ELSE NotYet]
        /\ pinging' = TRUE /\ clock' = 0 /\ failed' = {}
    BY <1>1 DEF StartPing
  <2>2. PingTyped'
    BY <2>1
  <2>3. \A a \in Addresses : dialled'[a] # NotYet => dialled'[a] = 0
    BY <2>1
  <2>4. OnTime'
    BY <2>1, <2>3 DEF OnTime
  <2> QED BY <2>2, <2>4
<1>2. CASE pinging /\ Over
  <2>1. /\ dialled' = [a \in Addresses |-> NotYet]
        /\ pinging' = FALSE /\ clock' = 0 /\ failed' = {}
    BY <1>2 DEF Over, NobodyDialled
  <2>2. PingTyped'
    BY <2>1
  <2>3. \A a \in Addresses : dialled'[a] = NotYet
    BY <2>1
  <2>4. OnTime'
    BY <2>1, <2>3 DEF OnTime
  <2> QED BY <2>2, <2>4
<1>3. ASSUME NEW a \in Addresses, Dial(a) PROVE PingIInv'
  <2>1. /\ pinging /\ dialled[a] = NotYet /\ clock >= PING_FANOUT_DELAY
        /\ dialled' = [dialled EXCEPT ![a] = clock]
        /\ UNCHANGED <<pinging, clock, failed>>
    BY <1>3 DEF Dial, Due
  <2>2. clock <= PING_FANOUT_DELAY
    BY <2>1 DEF OnTime
  <2>3. PingTyped'
    BY <2>1
  <2>4. OnTime'
    BY <2>1, <2>2 DEF OnTime
  <2> QED BY <2>3, <2>4
<1>4. ASSUME NEW a \in Addresses, Fails(a) PROVE PingIInv'
  BY <1>4 DEF Fails, OnTime
<1>5. CASE Tick
  <2>1. /\ pinging /\ failed # Addresses /\ clock' = clock + 1
        /\ \A a \in Addresses : ~Due(a) /\ ~(Dialling(a) /\ Expired(a))
        /\ UNCHANGED <<pinging, dialled, failed>>
    BY <1>5 DEF Tick
  <2>2. ASSUME NEW a \in Addresses, dialled[a] # NotYet, a \notin failed
        PROVE  clock' <= dialled[a] + TCP_PING_TIMEOUT
    <3>1. clock # dialled[a] + TCP_PING_TIMEOUT
      BY <2>1, <2>2 DEF Dialling, Expired
    <3>2. clock <= dialled[a] + TCP_PING_TIMEOUT
      BY <2>2 DEF OnTime
    <3>3. dialled[a] \in Nat
      BY <2>2
    <3> QED BY <2>1, <3>1, <3>2, <3>3
  <2>3. clock >= PING_FANOUT_DELAY =>
          \A a \in Addresses : dialled[a] # NotYet
    BY <2>1 DEF Due
  <2>4. clock' <= PING_FANOUT_DELAY + TCP_PING_TIMEOUT
    <3>1. CASE clock < PING_FANOUT_DELAY
      BY <2>1, <3>1
    <3>2. CASE clock >= PING_FANOUT_DELAY
      <4>1. PICK a \in Addresses : a \notin failed
        BY <2>1
      <4>2. dialled[a] # NotYet /\ dialled[a] \in Nat
        BY <2>3, <3>2
      <4>3. dialled[a] <= PING_FANOUT_DELAY
        BY <4>2 DEF OnTime
      <4>4. clock' <= dialled[a] + TCP_PING_TIMEOUT
        BY <2>2, <4>1, <4>2
      <4> QED BY <2>1, <4>2, <4>3, <4>4
    <3> QED BY <3>1, <3>2
  <2>5. OnTime'
    <3>1. \A a \in Addresses : dialled'[a] # NotYet =>
            /\ dialled'[a] <= clock' /\ dialled'[a] <= PING_FANOUT_DELAY
            /\ a \notin failed' => clock' <= dialled'[a] + TCP_PING_TIMEOUT
      BY <2>1, <2>2 DEF OnTime
    <3>2. clock' > PING_FANOUT_DELAY =>
            \A a \in Addresses : dialled'[a] # NotYet
      BY <2>1, <2>3
    <3> QED BY <2>1, <2>4, <3>1, <3>2 DEF OnTime
  <2> QED BY <2>1, <2>5
<1> QED BY <1>1, <1>2, <1>3, <1>4, <1>5 DEF PingGoesOn

\* The effect that counts strikes, after misses have been counted.
LEMMA EffectKeepsStrikes ==
    ASSUME WatchIInv, NEW connected \in BOOLEAN, NEW said, NEW n,
           useUnreachableDisconnect(connected, said),
           n \in 0 .. UNREACHABLE_POLLS_BEFORE_DISCONNECT,
           connected /\ said = "UNREACHABLE" =>
               n >= strikes + 1 \/ n = UNREACHABLE_POLLS_BEFORE_DISCONNECT
    PROVE  /\ strikes' \in 0 .. UNREACHABLE_POLLS_BEFORE_DISCONNECT - 1
           /\ strikes' <= n
           /\ ~connected => strikes' = 0
           /\ AsksToDisconnect => n >= UNREACHABLE_POLLS_BEFORE_DISCONNECT
PROOF
<1> USE WatchAssumption DEF AsksToDisconnect
<1> DEFINE strike == connected /\ said = "UNREACHABLE"
           out == strike /\ strikes + 1 >= UNREACHABLE_POLLS_BEFORE_DISCONNECT
<1>1. /\ strikes' = IF strike /\ ~out THEN strikes + 1 ELSE 0
      /\ disconnecting' = (disconnecting \/ out)
  BY DEF useUnreachableDisconnect
<1>2. strikes \in 0 .. UNREACHABLE_POLLS_BEFORE_DISCONNECT - 1
  BY DEF WatchIInv, Struck
<1>3. CASE ~strike
  <2>1. ~out /\ strikes' = 0
    BY <1>1, <1>3
  <2>2. ~AsksToDisconnect
    BY <1>1, <2>1
  <2> QED BY <2>1, <2>2
<1>4. CASE strike /\ ~out
  <2>1. strikes' = strikes + 1
    BY <1>1, <1>4
  <2>2. ~AsksToDisconnect
    BY <1>1, <1>4
  <2> QED BY <1>2, <1>4, <2>1, <2>2
<1>5. CASE out
  <2>1. strikes' = 0
    BY <1>1, <1>5
  <2>2. n >= UNREACHABLE_POLLS_BEFORE_DISCONNECT
    BY <1>2, <1>5
  <2> QED BY <2>1, <2>2
<1> QED BY <1>3, <1>4, <1>5

\* An answer of a ping is read.
LEMMA StatusSeen ==
    ASSUME WatchIInv, NEW said \in {"REACHABLE", "UNREACHABLE"},
           SeeStatus(said)
    PROVE  /\ RowTyped' /\ Struck' /\ UNCHANGED links
           /\ AsksToDisconnect => misses' >= UNREACHABLE_POLLS_BEFORE_DISCONNECT
PROOF
<1> USE WatchAssumption
<1>1. /\ status' = said /\ CountMisses(said)
      /\ useUnreachableDisconnect(isConnected, said)
      /\ UNCHANGED <<isConnected, contents, links, session, sessions, changes>>
  BY DEF SeeStatus
<1>2. /\ misses \in 0 .. UNREACHABLE_POLLS_BEFORE_DISCONNECT
      /\ strikes \in 0 .. UNREACHABLE_POLLS_BEFORE_DISCONNECT - 1
      /\ strikes <= misses /\ isConnected \in BOOLEAN
  BY DEF WatchIInv, Struck, RowTyped
<1>3. /\ misses' \in 0 .. UNREACHABLE_POLLS_BEFORE_DISCONNECT
      /\ said = "UNREACHABLE" =>
           \/ misses' >= strikes + 1
           \/ misses' = UNREACHABLE_POLLS_BEFORE_DISCONNECT
      /\ said = "UNREACHABLE" => misses' >= 1
  BY <1>1, <1>2 DEF CountMisses
<1>4. /\ strikes' \in 0 .. UNREACHABLE_POLLS_BEFORE_DISCONNECT - 1
      /\ strikes' <= misses'
      /\ ~isConnected => strikes' = 0
      /\ AsksToDisconnect => misses' >= UNREACHABLE_POLLS_BEFORE_DISCONNECT
  BY <1>1, <1>2, <1>3, EffectKeepsStrikes
<1>5. RowTyped'
  BY <1>1 DEF WatchIInv, RowTyped
<1> QED BY <1>1, <1>3, <1>4, <1>5 DEF Struck

\* A step of the row asks for a disconnect only after as many misses.
LEMMA WatchStep ==
    WatchIInv /\ [WatchNext]_watchVars
      => /\ WatchIInv'
         /\ AsksToDisconnect => misses' >= UNREACHABLE_POLLS_BEFORE_DISCONNECT
PROOF
<1> SUFFICES ASSUME WatchIInv, [WatchNext]_watchVars
             PROVE  /\ WatchIInv'
                    /\ AsksToDisconnect =>
                         misses' >= UNREACHABLE_POLLS_BEFORE_DISCONNECT
  OBVIOUS
<1> USE WatchAssumption DEF rowVars
<1>0. PingIInv /\ RowTyped /\ Struck
  BY DEF WatchIInv
<1>1. CASE SeeConnected
  <2>1. /\ isConnected' \in BOOLEAN /\ isConnected' # isConnected
        /\ useUnreachableDisconnect(isConnected', status)
        /\ contents' \in {contents, NoSession}
        /\ UNCHANGED <<pingVars, links, session, sessions, status, misses>>
    BY <1>1 DEF SeeConnected, useClusterDisconnectCleanup
  <2>2. misses \in 0 .. UNREACHABLE_POLLS_BEFORE_DISCONNECT
    BY <1>0 DEF Struck
  <2>3. isConnected' /\ status = "UNREACHABLE" => misses >= strikes + 1
    <3>1. isConnected \in BOOLEAN
      BY <1>0 DEF RowTyped
    <3>2. isConnected' => ~isConnected
      BY <2>1, <3>1, Zenon
    <3> QED BY <1>0, <3>2 DEF Struck
  <2>4. /\ strikes' \in 0 .. UNREACHABLE_POLLS_BEFORE_DISCONNECT - 1
        /\ strikes' <= misses
        /\ ~isConnected' => strikes' = 0
        /\ AsksToDisconnect => misses >= UNREACHABLE_POLLS_BEFORE_DISCONNECT
    BY <2>1, <2>2, <2>3, EffectKeepsStrikes
  <2>5. PingIInv'
    BY <1>0, <2>1 DEF PingIInv, PingTyped, OnTime, pingVars
  <2>6. RowTyped'
    BY <1>0, <2>1 DEF RowTyped, NoSession
  <2>7. Struck'
    BY <1>0, <2>1, <2>4 DEF Struck
  <2> QED BY <2>1, <2>4, <2>5, <2>6, <2>7 DEF WatchIInv
<1>2. CASE PollStatus \/ PingRuns
  <2>1. UNCHANGED <<rowVars, links, session, sessions>>
        /\ (StartPing \/ PingGoesOn)
    BY <1>2 DEF PollStatus, PingRuns
  <2>2. PingIInv'
    BY <1>0, <2>1, PingKeepsTime
  <2> QED BY <1>0, <2>1, <2>2
          DEF WatchIInv, RowTyped, Struck, AsksToDisconnect
<1>3. CASE PingAnswers
  <2>1. PICK said \in {"REACHABLE", "UNREACHABLE"} :
          SeeStatus(said) /\ pinging /\ Over
    BY <1>3 DEF PingAnswers, Reaches, Connects, Dialling, AllFailed
  <2>2. UNCHANGED links
    BY <2>1 DEF SeeStatus
  <2>3. PingIInv'
    BY <1>0, <2>1, <2>2, PingKeepsTime
  <2> QED BY <2>1, <2>3, StatusSeen DEF WatchIInv
<1>4. CASE NetworkChanges
  <2>1. /\ links' \in [Addresses -> Links]
        /\ UNCHANGED <<pingVars, rowVars, session, sessions>>
    BY <1>4 DEF NetworkChanges
  <2> QED BY <1>0, <2>1 DEF WatchIInv, PingIInv, PingTyped, OnTime, pingVars,
          RowTyped, Struck, AsksToDisconnect
<1>5. CASE UNCHANGED watchVars
  BY <1>0, <1>5 DEF watchVars, pingVars, WatchIInv, PingIInv, PingTyped, OnTime,
     RowTyped, Struck, AsksToDisconnect
<1>6. CASE Connect \/ SessionEnds \/ Disconnected \/ LoadContents
  <2>1. /\ UNCHANGED <<pingVars, links, isConnected, status, strikes, misses>>
        /\ disconnecting' => disconnecting
    BY <1>6 DEF Connect, SessionEnds, Disconnected, LoadContents
  <2>2. RowTyped'
    <3>1. CASE Connect
      BY <1>0, <3>1 DEF RowTyped, Connect, NoSession
    <3>2. CASE SessionEnds
      BY <1>0, <3>2 DEF RowTyped, SessionEnds, NoSession
    <3>3. CASE Disconnected
      BY <1>0, <3>3 DEF RowTyped, Disconnected, NoSession
    <3>4. CASE LoadContents
      BY <1>0, <3>4 DEF RowTyped, LoadContents, NoSession
    <3> QED BY <1>6, <3>1, <3>2, <3>3, <3>4
  <2>3. PingIInv'
    BY <1>0, <2>1 DEF PingIInv, PingTyped, OnTime, pingVars
  <2>4. Struck' /\ ~AsksToDisconnect
    BY <1>0, <2>1 DEF Struck, AsksToDisconnect
  <2> QED BY <2>2, <2>3, <2>4 DEF WatchIInv
<1> QED BY <1>1, <1>2, <1>3, <1>4, <1>5, <1>6 DEF WatchNext

\* However many addresses a cluster has, however many of them are dead or
\* silent, and however the network changes under it: a ping answers within
\* one delay and one timeout (ping_bootstrap spawns all dials at once), and
\* the row's bookkeeping has its types, its strikes short of the last one.
THEOREM PingsAreOnTime == WatchSpec => []WatchInvariant
PROOF
<1>1. WatchIInv => WatchInvariant
  BY DEF WatchIInv, PingIInv, PingTyped, OnTime, RowTyped, Struck,
     WatchInvariant, WatchTypeOK, PingTypeOK, PingAnswersInTime
<1> QED BY <1>1, InitWatch, WatchStep, PTL DEF WatchSpec

\* The row asks for a disconnect only when as many polls in a row as
\* UNREACHABLE_POLLS_BEFORE_DISCONNECT found nobody, whatever that number is
\* and whatever sessions began and ended between them (the effect of
\* useUnreachableDisconnect, which counts on every poll and starts over on
\* every other answer).
THEOREM NoDisconnectOverOneMiss == WatchSpec => TwoMissesEndASession
PROOF
<1>1. WatchIInv /\ [WatchNext]_watchVars =>
        [AsksToDisconnect =>
           misses' >= UNREACHABLE_POLLS_BEFORE_DISCONNECT]_watchVars
  BY WatchStep
<1> QED BY <1>1, InitWatch, WatchStep, PTL DEF WatchSpec, TwoMissesEndASession
=============================================================================
