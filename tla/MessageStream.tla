--------------------------- MODULE MessageStream ---------------------------
(***************************************************************************)
(* A message on its way from one sub-program to another: the output sinks  *)
(* of the senders (output_sink.rs), the input stream core they share with  *)
(* the receiving program (input_stream.rs) and that program reading it.    *)
(*                                                                         *)
(* Every action is one critical section of the mutex of an input core or   *)
(* of a sink core, with the code up to the next lock; a waker taken out of *)
(* a core is called in the same action, except where the code steals the   *)
(* thread between taking and calling it (pc "sent").  A task whose waker   *)
(* was called is in `woken' until it is polled; a task may also be polled  *)
(* when it is not in woken (the process holds several futures, or another  *)
(* thread is stolen to run it).                                            *)
(*                                                                         *)
(* An async sender repeats `sink.send(m).await', the Send future of the    *)
(* futures crate: poll_ready, start_send, then poll_flush until it is      *)
(* ready.  An immediate sender repeats `sink.send_immediate(m)'.  The      *)
(* waker OutputSink::when_message_sent is left out: it belongs to the task *)
(* that owns the sink, which cannot flush it while it waits in poll_ready. *)
(***************************************************************************)
EXTENDS Integers, Sequences, FiniteSets, Functions

CONSTANTS Senders,      \* tasks that own an output sink
          Immediate,    \* the sets of them that may be using send_immediate
          Inputs,       \* input streams; also names the task that reads it
          WithSources,  \* inputs read through messages_with_sources()
          Cores,        \* output sink cores
          CoreOf,       \* the core a sender's sink is attached to
          Disconnected, \* OutputSinkTarget::Disconnected
          Discard,      \* OutputSinkTarget::Discard
          MaxWaiting,   \* InputStreamCore::max_waiting
          IdleQueueLen, \* argument of wait_for_idle
          ResendAfterError, \* senders go on using a sink that returned an error
          MaxMessages,  \* bound: messages per sender
          MaxSends,     \* bound: messages of all senders together
          MaxBlocks,    \* bound: simultaneous BlockedStreams per input
          MaxChanges,   \* bound: changes of the target of a sink core
          MaxWakers,    \* bound: no spurious poll once this many wakers wait for slots
          None

ASSUME StreamAssumption ==
    /\ Immediate \subseteq SUBSET Senders /\ WithSources \subseteq Inputs
    /\ CoreOf \in [Senders -> Cores]
    /\ ResendAfterError \in BOOLEAN
    /\ {MaxWaiting, IdleQueueLen, MaxMessages, MaxSends, MaxBlocks, MaxChanges, MaxWakers} \subseteq Nat
    /\ Senders \cap Inputs = {}
    /\ Disconnected # Discard /\ {Disconnected, Discard} \cap Inputs = {}
    /\ None \notin Senders \cup Inputs \cup Nat

Messages == Senders \X (1..MaxMessages)
Targets == Inputs \cup {Disconnected, Discard}
MaxIdleLen == IF IdleQueueLen > MaxWaiting THEN IdleQueueLen ELSE MaxWaiting

VARIABLES
    waiting_messages,     \* InputStreamCore, per input: the queue
    when_message_sent,    \*   the reader's waker is registered
    when_slots_available, \*   the senders waiting for a slot, oldest first
    blocked,              \*   number of BlockedStreams
    closed, idle, dropped,
    waiting_for_idle,
    max_idle_queue_len,
    in_table,             \* the scene core's sub_program_inputs holds the input
    reader,               \* per input: what the program that reads it is doing
    last_message_source,  \* SubProgramCore of the reader
    target,               \* OutputSinkCore, per core
    when_target_changed,  \*   the sender to wake, or None
    waiting_message,      \* OutputSink, per sender: the unsent message, or None
    yield_after_sending,
    pc,                   \* per sender: the next critical section of its operation
    attempt,              \*   which attempt of send_immediate; 0 in a task that uses send
    via,                  \*   the input whose Arc the operation holds, or None
    holding,              \*   it has taken that input's when_message_sent
    current,              \*   number of the message it sends (0: none yet)
    asleep,               \* senders whose last poll returned Pending
    woken,                \* tasks whose waker was called since they were last polled
    changes,              \* per core: changes of target so far
    received,             \* history, per input: what its reader took out
    discarded, failed, drained \* history: discarded, returned in an error, dropped with the stream

inputVars == <<waiting_messages, when_message_sent, when_slots_available, blocked, closed, idle,
               dropped, waiting_for_idle, max_idle_queue_len, in_table, reader, last_message_source>>
sinkVars == <<target, when_target_changed, waiting_message, yield_after_sending, changes>>
senderVars == <<pc, attempt, via, holding, current, asleep>>
history == <<received, discarded, failed, drained>>
vars == <<inputVars, sinkVars, senderVars, woken, history>>

TypeOK ==
    /\ waiting_messages \in [Inputs -> Seq(Messages)]
    /\ when_message_sent \in [Inputs -> BOOLEAN]
    /\ when_slots_available \in [Inputs -> Seq(Senders)]
    /\ blocked \in [Inputs -> 0..MaxBlocks]
    /\ closed \in [Inputs -> BOOLEAN] /\ idle \in [Inputs -> BOOLEAN]
    /\ dropped \in [Inputs -> BOOLEAN] /\ in_table \in [Inputs -> BOOLEAN]
    /\ waiting_for_idle \in [Inputs -> 0..1]
    /\ max_idle_queue_len \in [Inputs -> {MaxWaiting, MaxIdleLen}]
    /\ reader \in [Inputs -> {"running", "parked", "wait_for_idle", "finishing", "ended"}]
    /\ last_message_source \in [Inputs -> Senders \cup {None}]
    /\ target \in [Cores -> Targets]
    /\ when_target_changed \in [Cores -> Senders \cup {None}]
    /\ waiting_message \in [Senders -> 1..MaxMessages \cup {None}]
    /\ yield_after_sending \in [Senders -> BOOLEAN]
    /\ pc \in [Senders -> {"start", "poll_ready", "start_send", "push", "sent", "poll_flush",
                           "flush_read", "flush_push", "flush_register",
                           "immediate_read", "immediate_push", "stopped"}]
    /\ attempt \in [Senders -> 0..3]
    /\ via \in [Senders -> Inputs \cup {None}]
    /\ holding \in [Senders -> BOOLEAN]
    /\ current \in [Senders -> 0..MaxMessages]
    /\ asleep \subseteq Senders /\ woken \subseteq Senders \cup Inputs
    /\ changes \in [Cores -> 0..MaxChanges]
    /\ received \in [Inputs -> Seq(Messages)]
    /\ discarded \subseteq Messages /\ failed \subseteq Messages /\ drained \subseteq Messages

Init ==
    /\ waiting_messages = [i \in Inputs |-> <<>>]
    /\ when_message_sent = [i \in Inputs |-> FALSE]
    /\ when_slots_available = [i \in Inputs |-> <<>>]
    /\ blocked = [i \in Inputs |-> 0]
    /\ closed = [i \in Inputs |-> FALSE] /\ idle = [i \in Inputs |-> FALSE]
    /\ dropped = [i \in Inputs |-> FALSE] /\ in_table = [i \in Inputs |-> TRUE]
    /\ waiting_for_idle = [i \in Inputs |-> 0]
    /\ max_idle_queue_len = [i \in Inputs |-> MaxWaiting]
    /\ reader = [i \in Inputs |-> "running"]
    /\ last_message_source = [i \in Inputs |-> None]
    /\ target \in [Cores -> Inputs \cup {Disconnected}]
    /\ when_target_changed = [c \in Cores |-> None]
    /\ waiting_message = [s \in Senders |-> None]
    /\ yield_after_sending = [s \in Senders |-> FALSE]
    /\ pc = [s \in Senders |-> "start"]
    /\ attempt \in {[s \in Senders |-> IF s \in S THEN 1 ELSE 0] : S \in Immediate}
    /\ via = [s \in Senders |-> None]
    /\ holding = [s \in Senders |-> FALSE]
    /\ current = [s \in Senders |-> 0]
    /\ asleep = {} /\ woken = {}
    /\ changes = [c \in Cores |-> 0]
    /\ received = [i \in Inputs |-> <<>>]
    /\ discarded = {} /\ failed = {} /\ drained = {}

----------------------------------------------------------------------------
(***************************************************************************)
(* The input stream core.  SlotWaiters(i) are the senders that wait for a  *)
(* slot, ReaderIfRegistered(i) the reader, if its waker is registered.     *)
(***************************************************************************)
\* The Weak of a sink target can be upgraded.
Alive(i) == in_table[i] \/ reader[i] # "ended" \/ \E s \in Senders : via[s] = i

SlotLimit(i) == IF waiting_for_idle[i] > 0 THEN max_idle_queue_len[i] ELSE MaxWaiting

\* Mutant: a closed stream takes messages.
CanSend_Closed(i) == blocked[i] = 0 /\ Len(waiting_messages[i]) <= SlotLimit(i)

\* Mutant: one message too many.
CanSend_Overfull(i) == ~closed[i] /\ blocked[i] = 0 /\ Len(waiting_messages[i]) <= SlotLimit(i) + 1

\* InputStreamCore::send accepts a message.
CanSend(i) == ~closed[i] /\ blocked[i] = 0 /\ Len(waiting_messages[i]) <= SlotLimit(i)

\* is_queue_full, of a queue of that length
IsQueueFull(len) == MaxWaiting + 1 <= len

\* Mutant: the message goes to the front.
QueueAfterSend_Front(q, m) == <<m>> \o q

QueueAfterSend(q, m) == Append(q, m)

\* The part of send and send_with_overfill that queues message m.
Enqueue(i, m) ==
    /\ waiting_messages' = [waiting_messages EXCEPT ![i] = QueueAfterSend(@, m)]
    /\ idle' = [idle EXCEPT ![i] = FALSE]
    /\ when_message_sent' = [when_message_sent EXCEPT ![i] = FALSE]
    /\ UNCHANGED <<when_slots_available, blocked, closed, dropped, waiting_for_idle,
                   max_idle_queue_len, in_table, reader, last_message_source>>

SlotWaiters(i) == Range(when_slots_available[i])
ReaderIfRegistered(i) == IF when_message_sent[i] THEN {i} ELSE {}

\* close(): called when the scene stops, by a CloseWhenDropped target, or through
\* StreamId::close_input.
Close(i) ==
    /\ in_table[i] /\ ~closed[i]
    /\ closed' = [closed EXCEPT ![i] = TRUE]
    /\ when_slots_available' = [when_slots_available EXCEPT ![i] = <<>>]
    /\ when_message_sent' = [when_message_sent EXCEPT ![i] = FALSE]
    /\ woken' = woken \cup SlotWaiters(i) \cup ReaderIfRegistered(i)
    /\ UNCHANGED <<waiting_messages, blocked, idle, dropped, waiting_for_idle, max_idle_queue_len,
                   in_table, reader, last_message_source, sinkVars, senderVars, history>>

\* InputStreamBlocker::block
Block(i) ==
    /\ Alive(i) /\ blocked[i] < MaxBlocks
    /\ blocked' = [blocked EXCEPT ![i] = @ + 1]
    /\ UNCHANGED <<waiting_messages, when_message_sent, when_slots_available, closed, idle,
                   dropped, waiting_for_idle, max_idle_queue_len, in_table, reader,
                   last_message_source, sinkVars, senderVars, woken, history>>

\* Mutant: unblocking wakes the oldest waiter only.
WokenByUnblock_One(i) == IF blocked[i] = 1 /\ when_slots_available[i] # <<>>
                         THEN {Head(when_slots_available[i])} ELSE {}

\* The senders woken when a BlockedStream of i is dropped.
WokenByUnblock(i) == IF blocked[i] = 1 THEN SlotWaiters(i) ELSE {}

\* Drop for BlockedStream
Unblock(i) ==
    /\ Alive(i) /\ blocked[i] > 0
    /\ blocked' = [blocked EXCEPT ![i] = @ - 1]
    /\ when_slots_available' =
         IF blocked[i] = 1 THEN [when_slots_available EXCEPT ![i] = <<>>] ELSE when_slots_available
    /\ woken' = woken \cup WokenByUnblock(i)
    /\ UNCHANGED <<waiting_messages, when_message_sent, closed, idle, dropped, waiting_for_idle,
                   max_idle_queue_len, in_table, reader, last_message_source, sinkVars,
                   senderVars, history>>

\* InputStreamCore::waiting_for_idle, for a program that awaits wait_for_idle()
WaitForIdle(i) ==
    /\ reader[i] = "running"
    /\ reader' = [reader EXCEPT ![i] = "wait_for_idle"]
    /\ waiting_for_idle' = [waiting_for_idle EXCEPT ![i] = @ + 1]
    /\ max_idle_queue_len' = [max_idle_queue_len EXCEPT ![i] =
                                IF IdleQueueLen > @ THEN IdleQueueLen ELSE @]
    /\ when_slots_available' = [when_slots_available EXCEPT ![i] = <<>>]
    /\ woken' = woken \cup SlotWaiters(i)
    /\ UNCHANGED <<waiting_messages, when_message_sent, blocked, closed, idle, dropped,
                   in_table, last_message_source, sinkVars, senderVars, history>>

WaitsAfterIdle(i) == [waiting_for_idle EXCEPT ![i] = @ - 1]

\* The idle notification arrives and the IdleInputStreamCore is dropped.
EndWaitForIdle(i) ==
    /\ reader[i] = "wait_for_idle"
    /\ reader' = [reader EXCEPT ![i] = "running"]
    /\ waiting_for_idle' = WaitsAfterIdle(i)
    /\ max_idle_queue_len' = IF waiting_for_idle[i] = 1
                              THEN [max_idle_queue_len EXCEPT ![i] = MaxWaiting]
                              ELSE max_idle_queue_len
    /\ UNCHANGED <<waiting_messages, when_message_sent, when_slots_available, blocked, closed,
                   idle, dropped, in_table, last_message_source, sinkVars, senderVars, woken, history>>

----------------------------------------------------------------------------
(***************************************************************************)
(* The program that reads the stream                                       *)
(***************************************************************************)
\* The sender woken when a message is taken out.
SlotsFreed(i) == IF when_slots_available[i] = <<>> THEN {} ELSE {Head(when_slots_available[i])}

\* poll_next returns a message.
PollNextMessage(i) ==
    /\ reader[i] = "running" /\ waiting_messages[i] # <<>>
    /\ waiting_messages' = [waiting_messages EXCEPT ![i] = Tail(@)]
    /\ when_slots_available' = [when_slots_available EXCEPT ![i] =
                                  IF @ = <<>> THEN @ ELSE Tail(@)]
    /\ idle' = [idle EXCEPT ![i] = FALSE]
    /\ woken' = woken \cup SlotsFreed(i)
    /\ last_message_source' = [last_message_source EXCEPT ![i] = Head(waiting_messages[i])[1]]
    /\ received' = [received EXCEPT ![i] = Append(@, Head(waiting_messages[i]))]
    /\ UNCHANGED <<when_message_sent, blocked, closed, dropped, waiting_for_idle,
                   max_idle_queue_len, in_table, reader, sinkVars, senderVars,
                   discarded, failed, drained>>

\* poll_next returns None.
PollNextClosed(i) ==
    /\ reader[i] = "running" /\ waiting_messages[i] = <<>> /\ closed[i]
    /\ reader' = [reader EXCEPT ![i] = "finishing"]
    /\ last_message_source' = [last_message_source EXCEPT ![i] = None]
    /\ UNCHANGED <<waiting_messages, when_message_sent, when_slots_available, blocked, closed,
                   idle, dropped, waiting_for_idle, max_idle_queue_len, in_table, sinkVars,
                   senderVars, woken, history>>

\* The senders woken before the reader goes to sleep: all that wait for a slot.
WokenByPending(i) == SlotWaiters(i)

\* poll_next returns Pending.
PollNextPending(i) ==
    /\ reader[i] = "running" /\ waiting_messages[i] = <<>> /\ ~closed[i]
    /\ reader' = [reader EXCEPT ![i] = "parked"]
    /\ when_message_sent' = [when_message_sent EXCEPT ![i] = TRUE]
    /\ idle' = [idle EXCEPT ![i] = TRUE]
    /\ when_slots_available' = [when_slots_available EXCEPT ![i] = <<>>]
    /\ woken' = woken \cup WokenByPending(i)
    /\ last_message_source' = [last_message_source EXCEPT ![i] = None]
    /\ UNCHANGED <<waiting_messages, blocked, closed, dropped, waiting_for_idle,
                   max_idle_queue_len, in_table, sinkVars, senderVars, history>>

\* The process of the reader is polled, by a runner or by a thief.
PollReader(i) ==
    /\ reader[i] = "parked"
    /\ reader' = [reader EXCEPT ![i] = "running"]
    /\ woken' = woken \ {i}
    /\ UNCHANGED <<waiting_messages, when_message_sent, when_slots_available, blocked, closed,
                   idle, dropped, waiting_for_idle, max_idle_queue_len, in_table,
                   last_message_source, sinkVars, senderVars, history>>

\* Drop for InputStream, and for InputStreamWithSources, which does neither mark the
\* core as dropped nor empty its queue nor wake anything.
DropStream(i) ==
    /\ reader[i] \in {"running", "finishing"}
    /\ reader' = [reader EXCEPT ![i] = "ended"]
    /\ idle' = [idle EXCEPT ![i] = TRUE]
    /\ closed' = [closed EXCEPT ![i] = TRUE]
    /\ IF i \in WithSources
       THEN UNCHANGED <<waiting_messages, when_message_sent, when_slots_available, dropped,
                        woken, drained>>
       ELSE /\ dropped' = [dropped EXCEPT ![i] = TRUE]
            /\ drained' = drained \cup Range(waiting_messages[i])
            /\ waiting_messages' = [waiting_messages EXCEPT ![i] = <<>>]
            /\ when_slots_available' = [when_slots_available EXCEPT ![i] = <<>>]
            /\ when_message_sent' = [when_message_sent EXCEPT ![i] = FALSE]
            /\ woken' = woken \cup SlotWaiters(i) \cup ReaderIfRegistered(i)
    /\ UNCHANGED <<blocked, waiting_for_idle, max_idle_queue_len, in_table, last_message_source,
                   sinkVars, senderVars, received, discarded, failed>>

\* The closing code of the reader's process takes the input out of the scene's table.
FinishReader(i) ==
    /\ reader[i] = "ended" /\ in_table[i]
    /\ in_table' = [in_table EXCEPT ![i] = FALSE]
    /\ UNCHANGED <<waiting_messages, when_message_sent, when_slots_available, blocked, closed,
                   idle, dropped, waiting_for_idle, max_idle_queue_len, reader,
                   last_message_source, sinkVars, senderVars, woken, history>>

----------------------------------------------------------------------------
(***************************************************************************)
(* The sink core's target                                                  *)
(***************************************************************************)
\* connect_output_to_input, connect_output_to_discard, disconnect_output, reconnect_sink
ChangeTarget(c, t) ==
    /\ changes[c] < MaxChanges /\ t # target[c] /\ (t \in Inputs => in_table[t])
    /\ target' = [target EXCEPT ![c] = t]
    /\ when_target_changed' = [when_target_changed EXCEPT ![c] = None]
    /\ woken' = woken \cup ({when_target_changed[c]} \ {None})
    /\ changes' = [changes EXCEPT ![c] = @ + 1]
    /\ UNCHANGED <<inputVars, waiting_message, yield_after_sending, senderVars, history>>

----------------------------------------------------------------------------
(***************************************************************************)
(* The senders                                                             *)
(***************************************************************************)
Message(s) == <<s, current[s]>>
TargetOf(s) == target[CoreOf[s]]
Connected(s) == TargetOf(s) \in Inputs /\ Alive(TargetOf(s))
Lost(s) == TargetOf(s) \in Inputs /\ ~Alive(TargetOf(s))

At(s, label) == pc[s] = label /\ s \notin asleep
Go(s, label) == pc' = [pc EXCEPT ![s] = label]

\* The operation ends; without the sink if it failed and the sender does not go on.
Succeed(s) == Go(s, "start")
Fail(s) == Go(s, IF ResendAfterError THEN "start" ELSE "stopped")
\* The message is returned to the sender in the error.
Returned(s) == failed' = failed \cup {Message(s)}

UsesImmediate(s) == attempt[s] > 0

\* The bound on the messages of all senders together.
SendsLeft == FoldFunction(+, 0, current) < MaxSends

BeginSend(s) ==
    /\ At(s, "start") /\ current[s] < MaxMessages /\ SendsLeft
    /\ current' = [current EXCEPT ![s] = @ + 1]
    /\ attempt' = [attempt EXCEPT ![s] = IF UsesImmediate(s) THEN 1 ELSE 0]
    /\ Go(s, IF UsesImmediate(s) THEN "immediate_read" ELSE "poll_ready")
    /\ UNCHANGED <<inputVars, sinkVars, via, holding, asleep, woken, history>>

\* The sender's task is polled again and goes on with the call that was Pending.
PollSender(s) ==
    /\ s \in asleep
    /\ s \notin woken => \A i \in Inputs : Len(when_slots_available[i]) < MaxWakers
    /\ asleep' = asleep \ {s}
    /\ woken' = woken \ {s}
    /\ UNCHANGED <<inputVars, sinkVars, pc, attempt, via, holding, current, history>>

\* Mutant: poll_ready does not look for a message that is still unsent.
SinkIsFree_Always(s) == TRUE

SinkIsFree(s) == waiting_message[s] = None

\* poll_ready: Pending, an error or Ready.
PollReadyWaits(s) ==
    /\ At(s, "poll_ready")
    /\ ~SinkIsFree(s) \/ TargetOf(s) = Disconnected
    /\ when_target_changed' = IF ~SinkIsFree(s) THEN when_target_changed
                              ELSE [when_target_changed EXCEPT ![CoreOf[s]] = s]
    /\ asleep' = asleep \cup {s}
    /\ UNCHANGED <<inputVars, target, waiting_message, yield_after_sending, changes,
                   pc, attempt, via, holding, current, woken, history>>

PollReadyFails(s) ==
    /\ At(s, "poll_ready") /\ SinkIsFree(s) /\ Lost(s)
    /\ target' = [target EXCEPT ![CoreOf[s]] = Disconnected]
    /\ Fail(s) /\ Returned(s)
    /\ UNCHANGED <<inputVars, when_target_changed, waiting_message, yield_after_sending, changes,
                   attempt, via, holding, current, asleep, woken, received, discarded, drained>>

PollReady(s) ==
    /\ At(s, "poll_ready") /\ SinkIsFree(s)
    /\ TargetOf(s) = Discard \/ Connected(s)
    /\ Go(s, "start_send")
    /\ UNCHANGED <<inputVars, sinkVars, attempt, via, holding, current, asleep, woken, history>>

\* start_send: the section that reads the target.
StartSend(s) ==
    /\ At(s, "start_send")
    /\ yield_after_sending' = [yield_after_sending EXCEPT ![s] = FALSE]
    /\ \/ /\ TargetOf(s) = Disconnected
          /\ waiting_message' = [waiting_message EXCEPT ![s] = current[s]]
          /\ Go(s, "poll_flush")
          /\ UNCHANGED <<target, via, discarded, failed>>
       \/ /\ TargetOf(s) = Discard
          /\ discarded' = discarded \cup {Message(s)}
          /\ waiting_message' = [waiting_message EXCEPT ![s] = None]
          /\ Go(s, "poll_flush")
          /\ UNCHANGED <<target, via, failed>>
       \/ /\ Connected(s)
          /\ via' = [via EXCEPT ![s] = TargetOf(s)]
          /\ Go(s, "push")
          /\ UNCHANGED <<target, waiting_message, discarded, failed>>
       \/ /\ Lost(s)
          /\ target' = [target EXCEPT ![CoreOf[s]] = Disconnected]
          /\ Fail(s) /\ Returned(s)
          /\ UNCHANGED <<waiting_message, via, discarded>>
    /\ UNCHANGED <<inputVars, when_target_changed, changes, attempt, holding, current, asleep,
                   woken, received, drained>>

\* start_send: the section of the input core.  The message is queued, ...
PushQueued(s) ==
    /\ At(s, "push") /\ CanSend(via[s])
    /\ Enqueue(via[s], Message(s))
    /\ holding' = [holding EXCEPT ![s] = when_message_sent[via[s]]]
    /\ waiting_message' = [waiting_message EXCEPT ![s] = None]
    /\ \E stolen \in BOOLEAN : \* steal_thread_for_program polled the target
         yield_after_sending' = [yield_after_sending EXCEPT ![s] =
            when_message_sent[via[s]] /\ ~stolen /\ IsQueueFull(Len(waiting_messages[via[s]]) + 1)]
    /\ Go(s, "sent")
    /\ UNCHANGED <<target, when_target_changed, changes, attempt, via, current, asleep, woken, history>>

\* ... or returned because the stream is closed or waits for idle, or kept in the sink.
PushRefused(s) ==
    /\ At(s, "push") /\ ~CanSend(via[s])
    /\ via' = [via EXCEPT ![s] = None]
    /\ IF closed[via[s]] \/ waiting_for_idle[via[s]] > 0
       THEN Fail(s) /\ Returned(s) /\ UNCHANGED waiting_message
       ELSE /\ waiting_message' = [waiting_message EXCEPT ![s] = current[s]]
            /\ Go(s, "poll_flush")
            /\ UNCHANGED failed
    /\ UNCHANGED <<inputVars, target, when_target_changed, yield_after_sending, changes,
                   attempt, holding, current, asleep, woken, received, discarded, drained>>

\* The reader's waker is called, whether or not the thread was stolen.
WokenBySend(s) == IF holding[s] THEN {via[s]} ELSE {}

\* start_send and try_send_immediate, once the thread is given back.
WakeTarget(s) ==
    /\ At(s, "sent")
    /\ woken' = woken \cup WokenBySend(s)
    /\ holding' = [holding EXCEPT ![s] = FALSE]
    /\ via' = [via EXCEPT ![s] = None]
    /\ IF UsesImmediate(s) THEN Succeed(s) ELSE Go(s, "poll_flush")
    /\ UNCHANGED <<inputVars, sinkVars, attempt, current, asleep, history>>

\* poll_flush: up to the first lock.
PollFlush(s) ==
    /\ At(s, "poll_flush")
    /\ \/ /\ yield_after_sending[s]
          /\ yield_after_sending' = [yield_after_sending EXCEPT ![s] = FALSE]
          /\ asleep' = asleep \cup {s} /\ woken' = woken \cup {s}
          /\ UNCHANGED <<pc, when_target_changed>>
       \/ /\ ~yield_after_sending[s] /\ waiting_message[s] = None
          /\ Succeed(s)
          /\ UNCHANGED <<when_target_changed, yield_after_sending, asleep, woken>>
       \/ /\ ~yield_after_sending[s] /\ waiting_message[s] # None
          /\ when_target_changed' = [when_target_changed EXCEPT ![CoreOf[s]] = None]
          /\ Go(s, "flush_read")
          /\ UNCHANGED <<yield_after_sending, asleep, woken>>
    /\ UNCHANGED <<inputVars, target, waiting_message, changes, attempt, via, holding, current, history>>

\* poll_flush: the section that reads the target.
FlushRead(s) ==
    /\ At(s, "flush_read")
    /\ \/ /\ TargetOf(s) = Disconnected
          /\ when_target_changed' = [when_target_changed EXCEPT ![CoreOf[s]] = s]
          /\ asleep' = asleep \cup {s}
          /\ Go(s, "poll_flush")
          /\ UNCHANGED <<target, waiting_message, via, discarded>>
       \/ /\ TargetOf(s) = Discard
          /\ discarded' = discarded \cup {<<s, waiting_message[s]>>}
          /\ waiting_message' = [waiting_message EXCEPT ![s] = None]
          /\ Succeed(s)
          /\ UNCHANGED <<target, when_target_changed, via, asleep>>
       \/ /\ Connected(s)
          /\ via' = [via EXCEPT ![s] = TargetOf(s)]
          /\ Go(s, "flush_push")
          /\ UNCHANGED <<target, when_target_changed, waiting_message, asleep, discarded>>
       \/ /\ Lost(s)  \* the message stays in waiting_message
          /\ target' = [target EXCEPT ![CoreOf[s]] = Disconnected]
          /\ when_target_changed' = [when_target_changed EXCEPT ![CoreOf[s]] = s]
          /\ Fail(s)
          /\ UNCHANGED <<waiting_message, via, asleep, discarded>>
    /\ UNCHANGED <<inputVars, yield_after_sending, changes, attempt, holding, current, woken,
                   received, failed, drained>>

\* Mutant: the message stays in the sink when it was sent.
SinkAfterFlush_Kept(s) == waiting_message

SinkAfterFlush(s) == [waiting_message EXCEPT ![s] = None]

\* poll_flush: the section of the input core.
FlushQueued(s) ==
    /\ At(s, "flush_push") /\ CanSend(via[s])
    /\ Enqueue(via[s], <<s, waiting_message[s]>>)
    /\ woken' = woken \cup ReaderIfRegistered(via[s])
    /\ waiting_message' = SinkAfterFlush(s)
    /\ via' = [via EXCEPT ![s] = None]
    /\ Succeed(s)
    /\ UNCHANGED <<target, when_target_changed, yield_after_sending, changes, attempt, holding,
                   current, asleep, history>>

\* Mutant: the sender's waker is not stored with the input.
SlotsWhenFull_None(s) == when_slots_available

\* wake_when_slots_available
SlotsWhenFull(s) == [when_slots_available EXCEPT ![via[s]] = Append(@, s)]

FlushRefused(s) ==
    /\ At(s, "flush_push") /\ ~CanSend(via[s])
    /\ IF closed[via[s]] \/ waiting_for_idle[via[s]] > 0
       THEN /\ failed' = failed \cup {<<s, waiting_message[s]>>}
            /\ waiting_message' = [waiting_message EXCEPT ![s] = None]
            /\ via' = [via EXCEPT ![s] = None]
            /\ Fail(s)
            /\ UNCHANGED when_slots_available
       ELSE /\ when_slots_available' = SlotsWhenFull(s)
            /\ Go(s, "flush_register")
            /\ UNCHANGED <<waiting_message, via, failed>>
    /\ UNCHANGED <<waiting_messages, when_message_sent, blocked, closed, idle, dropped,
                   waiting_for_idle, max_idle_queue_len, in_table, reader, last_message_source,
                   target, when_target_changed, yield_after_sending, changes, attempt, holding,
                   current, asleep, woken, received, discarded, drained>>

\* poll_flush: with the input core unlocked, the sink core is locked once more.
FlushRegister(s) ==
    /\ At(s, "flush_register")
    /\ when_target_changed' = [when_target_changed EXCEPT ![CoreOf[s]] = s]
    /\ via' = [via EXCEPT ![s] = None]
    /\ asleep' = asleep \cup {s}
    /\ Go(s, "poll_flush")
    /\ UNCHANGED <<inputVars, target, waiting_message, yield_after_sending, changes, attempt,
                   holding, current, woken, history>>

\* send_immediate: two calls of try_send_immediate, then the overfilling attempt;
\* each first reads the target.
ImmediateRead(s) ==
    /\ At(s, "immediate_read")
    /\ \/ /\ TargetOf(s) = Discard
          /\ discarded' = discarded \cup {Message(s)}
          /\ Succeed(s)
          /\ UNCHANGED <<attempt, via, failed>>
       \/ /\ Connected(s)
          /\ via' = [via EXCEPT ![s] = TargetOf(s)]
          /\ Go(s, "immediate_push")
          /\ UNCHANGED <<attempt, discarded, failed>>
       \/ /\ TargetOf(s) = Disconnected \/ Lost(s)
          /\ IF attempt[s] < 3
             THEN attempt' = [attempt EXCEPT ![s] = @ + 1] /\ UNCHANGED <<pc, failed>>
             ELSE Fail(s) /\ Returned(s) /\ UNCHANGED attempt
          /\ UNCHANGED <<via, discarded>>
    /\ UNCHANGED <<inputVars, sinkVars, holding, current, asleep, woken, received, drained>>

\* Each attempt's section of the input core.
ImmediateAccepts(s) == IF attempt[s] < 3 THEN CanSend(via[s]) ELSE ~closed[via[s]]

ImmediateQueued(s) ==
    /\ At(s, "immediate_push") /\ ImmediateAccepts(s)
    /\ Enqueue(via[s], Message(s))
    /\ holding' = [holding EXCEPT ![s] = when_message_sent[via[s]]]
    /\ Go(s, "sent")
    /\ UNCHANGED <<sinkVars, attempt, via, current, asleep, woken, history>>

ImmediateRefused(s) ==
    /\ At(s, "immediate_push") /\ ~ImmediateAccepts(s)
    /\ via' = [via EXCEPT ![s] = None]
    /\ IF attempt[s] < 3
       THEN attempt' = [attempt EXCEPT ![s] = @ + 1] /\ Go(s, "immediate_read") /\ UNCHANGED failed
       ELSE Fail(s) /\ Returned(s) /\ UNCHANGED attempt
    /\ UNCHANGED <<inputVars, sinkVars, holding, current, asleep, woken, received, discarded, drained>>

SenderStep(s) ==
    \/ PollReadyWaits(s) \/ PollReadyFails(s) \/ PollReady(s)
    \/ StartSend(s) \/ PushQueued(s) \/ PushRefused(s) \/ WakeTarget(s)
    \/ PollFlush(s) \/ FlushRead(s) \/ FlushQueued(s) \/ FlushRefused(s) \/ FlushRegister(s)
    \/ ImmediateRead(s) \/ ImmediateQueued(s) \/ ImmediateRefused(s)

ReaderStep(i) == PollNextMessage(i) \/ PollNextClosed(i) \/ PollNextPending(i)

Next ==
    \/ \E s \in Senders : BeginSend(s) \/ PollSender(s) \/ SenderStep(s)
    \/ \E i \in Inputs :
         \/ ReaderStep(i) \/ PollReader(i) \/ DropStream(i) \/ FinishReader(i)
         \/ Close(i) \/ Block(i) \/ Unblock(i) \/ WaitForIdle(i) \/ EndWaitForIdle(i)
    \/ \E c \in Cores, t \in Targets : ChangeTarget(c, t)

Spec == Init /\ [][Next]_vars

\* A thread that runs a task goes on; a task that was woken is polled (SceneScheduler);
\* a program that reads its input goes on reading it until it is closed.
Fairness ==
    /\ \A s \in Senders : WF_vars(SenderStep(s)) /\ WF_vars(s \in woken /\ PollSender(s))
    /\ \A i \in Inputs : WF_vars(ReaderStep(i)) /\ WF_vars(i \in woken /\ PollReader(i))

FairSpec == Spec /\ Fairness

(***************************************************************************)
(* Properties                                                              *)
(***************************************************************************)
Accepted(i) == received[i] \o waiting_messages[i]

Undecided(s, n) ==
    \/ waiting_message[s] = n
    \/ n = current[s] /\ pc[s] \in {"poll_ready", "start_send", "push", "immediate_read", "immediate_push"}

CountIf(b) == IF b THEN 1 ELSE 0

\* Through back-pressure, retries of poll_flush, overfilling and changes of target, every
\* message that a sender began to send is in exactly one place: still in its sink, queued
\* or received at exactly one input, discarded, returned in an error, or dropped with the
\* stream.  None is lost, none is delivered twice.
EveryMessageInOnePlace ==
    \A s \in Senders : \A n \in 1..current[s] :
        Cardinality({i \in Inputs : <<s, n>> \in Range(Accepted(i))})
          + CountIf(<<s, n>> \in discarded) + CountIf(<<s, n>> \in failed)
          + CountIf(<<s, n>> \in drained) + CountIf(Undecided(s, n)) = 1

\* An input receives the messages of one sender in the order they were sent.
MessagesInOrder ==
    \A i \in Inputs : \A j, k \in DOMAIN Accepted(i) :
        j < k /\ Accepted(i)[j][1] = Accepted(i)[k][1] => Accepted(i)[j][2] < Accepted(i)[k][2]

\* Back-pressure: the senders that do not overfill the queue put at most one message more
\* into it than its limit (num_slots' comment), or than the limit of wait_for_idle.
BackPressure ==
    \A i \in Inputs :
        Cardinality({j \in DOMAIN waiting_messages[i] : ~UsesImmediate(waiting_messages[i][j][1])})
          <= MaxIdleLen + 1

\* The reader sleeps and nothing is about to wake it.
ReaderSleeps(i) ==
    reader[i] = "parked" /\ i \notin woken /\ ~\E s \in Senders : via[s] = i /\ holding[s]

\* A reader only sleeps while there is nothing for it to do, whichever thread takes and
\* calls its waker: its stream is empty and open, a send would find its waker, and no
\* sender waits for a slot unless the stream is blocked.
SleepingReaderHasNoWork ==
    \A i \in Inputs : ReaderSleeps(i) =>
        /\ waiting_messages[i] = <<>> /\ ~closed[i] /\ when_message_sent[i]
        /\ blocked[i] = 0 => when_slots_available[i] = <<>>

SenderSleeps(s) == s \in asleep \ woken

\* A sender only sleeps for a cause that will wake it: its sink is disconnected and holds
\* its waker, or it waits for a slot of an open input that is blocked or whose reader is
\* not asleep.  So a sender and its reader never sleep on each other, and neither a close,
\* the end of the program, an unblock nor a wait for idle leaves a sender behind.
SleepingSenderHasCause ==
    \A s \in Senders : SenderSleeps(s) =>
        \/ TargetOf(s) = Disconnected /\ when_target_changed[CoreOf[s]] = s
        \/ \E i \in Inputs : /\ TargetOf(s) = i /\ s \in SlotWaiters(i)
                             /\ ~closed[i] /\ waiting_for_idle[i] = 0
                             /\ blocked[i] > 0 \/ ~ReaderSleeps(i)

\* Every wake-up that the two cores owe is given or still to come: neither the reader
\* nor a sender sleeps for nothing.
WakeUpsAreKept == TypeOK /\ SleepingReaderHasNoWork /\ SleepingSenderHasCause

Sending(s) == pc[s] \notin {"start", "stopped"}

\* Programs stop blocking their inputs and waiting for idle.
Quiet == <>[](\A i \in Inputs : blocked[i] = 0 /\ waiting_for_idle[i] = 0)

\* Once nobody blocks the streams any more, every send ends, with success or an error,
\* however many senders compete for the slots, unless its sink is disconnected.
SendEnds == Quiet => \A s \in Senders : Sending(s) ~> (~Sending(s) \/ TargetOf(s) = Disconnected)

\* A queued message leaves the queue: the reader takes it or drops its stream.  Only
\* a program that is waiting for idle leaves it there.
QueuedIsReceived ==
    \A i \in Inputs : \A m \in Messages :
        m \in Range(waiting_messages[i])
          ~> (m \notin Range(waiting_messages[i]) \/ reader[i] = "wait_for_idle")
=============================================================================
