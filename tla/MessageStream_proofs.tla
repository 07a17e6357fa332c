------------------------ MODULE MessageStream_proofs ------------------------
(***************************************************************************)
(* Proofs about a message on its way, for any senders, inputs, cores and   *)
(* limits.                                                                 *)
(*                                                                         *)
(* A step of a sender does one of three things to the messages that it has *)
(* begun to send: it leaves them where they are, begins with the next, or  *)
(* parts with the one in hand, to one place (SenderEffects).  That the     *)
(* places stay exclusive needs that numbers that were not begun are        *)
(* nowhere (NothingEarly), and that an input holds the messages of a       *)
(* sender in their order, so that a stream that is dropped drops nothing   *)
(* that was received.                                                      *)
(*                                                                         *)
(* A reader's wake-up is kept because whoever takes its waker holds it     *)
(* until it calls it.  A sender's is kept because it registers with an     *)
(* input that is not asleep (SenderMissesNothing), which tells all who     *)
(* wait before it goes to sleep; this takes SendersUndisturbed.            *)
(***************************************************************************)
EXTENDS MessageStream, FiniteSetTheorems, SequenceTheorems, TLAPS

\* What a sender's operation has at hand at each of its critical sections.
SenderOK(s) ==
    /\ pc[s] \in {"push", "sent", "flush_push", "flush_register", "immediate_push"} <=> via[s] # None
    /\ holding[s] => pc[s] = "sent"
    /\ s \in asleep => pc[s] \in {"poll_ready", "poll_flush"}
    /\ pc[s] \notin {"start", "stopped"} => current[s] > 0
    /\ UsesImmediate(s) =>
         /\ pc[s] \in {"start", "immediate_read", "immediate_push", "sent", "stopped"}
         /\ waiting_message[s] = None
    /\ ~UsesImmediate(s) => pc[s] \notin {"immediate_read", "immediate_push"}
    /\ pc[s] \in {"start_send", "push", "sent"} => waiting_message[s] = None
    /\ pc[s] = "poll_flush" => waiting_message[s] \in {None, current[s]}
    /\ pc[s] \in {"flush_read", "flush_push", "flush_register"} => waiting_message[s] = current[s]
    /\ waiting_message[s] # None =>
         waiting_message[s] <= current[s] /\ (pc[s] = "poll_ready" => waiting_message[s] < current[s])

SenderShape == \A s \in Senders : SenderOK(s)

\* A program waits for idle once at a time, and only while it runs.
ReaderShape == \A i \in Inputs : waiting_for_idle[i] = 1 <=> reader[i] = "wait_for_idle"

\* The inputs that have taken m, and whether it is elsewhere.
TakenAt(m) == {i \in Inputs : m \in Range(Accepted(i))}

\* m, which s has begun to send, is in one place.
InPlace(s, n) ==
    LET m == <<s, n>>
        Out == m \in discarded
        Err == m \in failed
        Gone == m \in drained
    IN  \/ /\ TakenAt(m) = {}
           /\ \/ Out /\ ~Err /\ ~Gone /\ ~Undecided(s, n)
              \/ ~Out /\ Err /\ ~Gone /\ ~Undecided(s, n)
              \/ ~Out /\ ~Err /\ Gone /\ ~Undecided(s, n)
              \/ ~Out /\ ~Err /\ ~Gone /\ Undecided(s, n)
        \/ /\ \E i \in Inputs : TakenAt(m) = {i}
           /\ ~Out /\ ~Err /\ ~Gone /\ ~Undecided(s, n)

AllInPlace == \A s \in Senders : \A n \in 1..current[s] : InPlace(s, n)

\* Nothing is anywhere before it is sent.
NothingEarly ==
    \A s \in Senders : \A n \in current[s] + 1 .. MaxMessages :
        TakenAt(<<s, n>>) = {} /\ <<s, n>> \notin discarded \cup failed \cup drained

\* The cause for which a sender may sleep at input i.
WaitsForSlot(s, i) ==
    /\ TargetOf(s) = i /\ s \in SlotWaiters(i)
    /\ ~closed[i] /\ waiting_for_idle[i] = 0
    /\ blocked[i] > 0 \/ ~ReaderSleeps(i)

\* The circumstances under which no wake-up of a sender is lost: no reader uses
\* messages_with_sources, and every sink has a core of its own, which is not reconnected.
\* Without any one of them the code does lose wake-ups.
SendersUndisturbed ==
    /\ WithSources = {} /\ MaxChanges = 0
    /\ \A s, t \in Senders : CoreOf[s] = CoreOf[t] => s = t

\* Between registering with the input and falling asleep a sender misses nothing.
SenderMissesNothing ==
    \A s \in Senders :
      /\ pc[s] = "flush_register" => s \in woken \/ WaitsForSlot(s, via[s])
      /\ pc[s] \in {"flush_push", "flush_register"} => TargetOf(s) = via[s]
      /\ pc[s] \in {"start", "poll_ready"} /\ waiting_message[s] # None =>
           TargetOf(s) = Disconnected /\ when_target_changed[CoreOf[s]] = s

Shape == TypeOK /\ SenderShape /\ ReaderShape

----------------------------------------------------------------------------
(* Types and shapes. *)

\* An input core takes messages, and gives them out, of the type of all messages.
LEMMA EnqueueTypes ==
  ASSUME TypeOK, NEW i \in Inputs, NEW m \in Messages, Enqueue(i, m)
  PROVE  /\ waiting_messages' \in [Inputs -> Seq(Messages)]
         /\ idle' \in [Inputs -> BOOLEAN] /\ when_message_sent' \in [Inputs -> BOOLEAN]
<1>1. Append(waiting_messages[i], m) \in Seq(Messages)
  BY DEF TypeOK
<1> QED BY <1>1 DEF TypeOK, Enqueue, QueueAfterSend

\* What a sender has at hand, where it needs it.
LEMMA MessageTypes ==
  ASSUME TypeOK, SenderShape, NEW s \in Senders
  PROVE  /\ pc[s] \notin {"start", "stopped"} => Message(s) \in Messages
         /\ waiting_message[s] # None => <<s, waiting_message[s]>> \in Messages
         /\ pc[s] \in {"push", "sent", "flush_push", "flush_register", "immediate_push"} => via[s] \in Inputs
         /\ pc[s] \in {"flush_read", "flush_push", "flush_register"} =>
              waiting_message[s] # None /\ waiting_message[s] = current[s]
<1>1. None \notin Nat
  BY StreamAssumption
<1>2. current[s] \in 0..MaxMessages /\ MaxMessages \in Nat
  BY StreamAssumption DEF TypeOK
<1> QED BY <1>1, <1>2 DEF TypeOK, SenderShape, SenderOK, Message, Messages

\* Who waits for an input, or is queued with it, is a sender, and its messages are messages.
LEMMA SlotTypes ==
  ASSUME TypeOK, NEW i \in Inputs
  PROVE  /\ SlotWaiters(i) \subseteq Senders /\ ReaderIfRegistered(i) \subseteq Inputs
         /\ SlotsFreed(i) \subseteq SlotWaiters(i)
         /\ when_slots_available[i] # <<>> => Tail(when_slots_available[i]) \in Seq(Senders)
         /\ Range(waiting_messages[i]) \subseteq Messages
<1>1. when_slots_available[i] \in Seq(Senders) /\ waiting_messages[i] \in Seq(Messages)
  BY DEF TypeOK
<1>2. SlotWaiters(i) \subseteq Senders
  BY <1>1 DEF SlotWaiters, Range
<1>3. Range(waiting_messages[i]) \subseteq Messages
  BY <1>1 DEF Range
<1>4. SlotsFreed(i) \subseteq SlotWaiters(i)
  BY <1>1 DEF SlotsFreed, SlotWaiters, Range
<1>5. ReaderIfRegistered(i) \subseteq Inputs
  BY DEF ReaderIfRegistered
<1> QED BY <1>1, <1>2, <1>3, <1>4, <1>5

\* The steps on an input keep the types.
LEMMA InputTypes ==
  ASSUME Shape, NEW i \in Inputs,
         \/ ReaderStep(i) \/ PollReader(i) \/ DropStream(i) \/ FinishReader(i)
         \/ Close(i) \/ Block(i) \/ Unblock(i) \/ WaitForIdle(i) \/ EndWaitForIdle(i)
  PROVE  TypeOK'
<1> USE DEF sinkVars, senderVars, history
<1>t. TypeOK /\ ReaderShape
  BY DEF Shape
<1>s. /\ SlotWaiters(i) \subseteq Senders /\ ReaderIfRegistered(i) \subseteq Inputs
      /\ SlotsFreed(i) \subseteq Senders
      /\ when_slots_available[i] # <<>> => Tail(when_slots_available[i]) \in Seq(Senders)
      /\ Range(waiting_messages[i]) \subseteq Messages
  BY <1>t, SlotTypes
<1>a. {MaxWaiting, IdleQueueLen, MaxMessages, MaxBlocks} \subseteq Nat
  BY StreamAssumption
<1>1. CASE PollNextMessage(i)
  <2>1. waiting_messages[i] \in Seq(Messages) /\ waiting_messages[i] # <<>> /\ received[i] \in Seq(Messages)
    BY <1>1, <1>t DEF PollNextMessage, TypeOK
  <2>2. /\ Tail(waiting_messages[i]) \in Seq(Messages) /\ Head(waiting_messages[i]) \in Messages
        /\ Append(received[i], Head(waiting_messages[i])) \in Seq(Messages)
    BY <2>1
  <2>3. Head(waiting_messages[i])[1] \in Senders
    BY <2>2 DEF Messages
  <2>4. when_slots_available' \in [Inputs -> Seq(Senders)]
    BY <1>1, <1>s, <1>t DEF PollNextMessage, TypeOK
  <2>5. waiting_messages' \in [Inputs -> Seq(Messages)] /\ received' \in [Inputs -> Seq(Messages)]
    BY <1>1, <2>2, <1>t DEF PollNextMessage, TypeOK
  <2>6. last_message_source' \in [Inputs -> Senders \cup {None}]
    BY <1>1, <2>3, <1>t DEF PollNextMessage, TypeOK
  <2> QED BY <1>1, <1>s, <2>4, <2>5, <2>6, <1>t DEF PollNextMessage, TypeOK
<1>2. CASE PollNextClosed(i)
  BY <1>2, <1>t DEF PollNextClosed, TypeOK
<1>3. CASE PollNextPending(i)
  <2>1. /\ when_slots_available' \in [Inputs -> Seq(Senders)]
        /\ last_message_source' \in [Inputs -> Senders \cup {None}]
    BY <1>3, <1>t DEF PollNextPending, TypeOK
  <2>2. when_message_sent' \in [Inputs -> BOOLEAN] /\ idle' \in [Inputs -> BOOLEAN]
    BY <1>3, <1>t DEF PollNextPending, TypeOK
  <2> QED BY <1>3, <1>s, <2>1, <2>2, <1>t DEF PollNextPending, WokenByPending, TypeOK
<1>4. CASE PollReader(i)
  BY <1>4, <1>t DEF PollReader, TypeOK
<1>5. CASE DropStream(i)
  <2>1. CASE i \in WithSources
    BY <1>5, <2>1, <1>t DEF DropStream, TypeOK
  <2>2. CASE i \notin WithSources
    <3>1. /\ idle' \in [Inputs -> BOOLEAN] /\ closed' \in [Inputs -> BOOLEAN]
          /\ dropped' \in [Inputs -> BOOLEAN] /\ when_message_sent' \in [Inputs -> BOOLEAN]
      <4>1. /\ idle \in [Inputs -> BOOLEAN] /\ closed \in [Inputs -> BOOLEAN]
            /\ dropped \in [Inputs -> BOOLEAN] /\ when_message_sent \in [Inputs -> BOOLEAN]
        BY <1>t DEF TypeOK
      <4> QED BY <1>5, <2>2, <4>1 DEF DropStream
    <3>2. /\ waiting_messages' \in [Inputs -> Seq(Messages)]
          /\ when_slots_available' \in [Inputs -> Seq(Senders)]
      <4>1. waiting_messages \in [Inputs -> Seq(Messages)] /\ when_slots_available \in [Inputs -> Seq(Senders)]
        BY <1>t DEF TypeOK
      <4>2. /\ waiting_messages' = [waiting_messages EXCEPT ![i] = <<>>]
            /\ when_slots_available' = [when_slots_available EXCEPT ![i] = <<>>]
        BY <1>5, <2>2 DEF DropStream
      <4>3. <<>> \in Seq(Messages) /\ <<>> \in Seq(Senders)
        OBVIOUS
      <4> QED BY <4>1, <4>2, <4>3
    <3>3. woken' \subseteq Senders \cup Inputs /\ drained' \subseteq Messages
      BY <1>5, <1>s, <2>2, <1>t DEF DropStream, TypeOK
    <3>4. /\ reader' \in [Inputs -> {"running", "parked", "wait_for_idle", "finishing", "ended"}]
          /\ UNCHANGED <<blocked, waiting_for_idle, max_idle_queue_len, in_table, last_message_source,
                         sinkVars, senderVars, received, discarded, failed>>
      BY <1>5, <1>t DEF DropStream, TypeOK
    <3> QED BY <3>1, <3>2, <3>3, <3>4, <1>t DEF TypeOK
  <2> QED BY <2>1, <2>2
<1>6. CASE FinishReader(i)
  BY <1>6, <1>t DEF FinishReader, TypeOK
<1>7. CASE Close(i)
  <2>1. /\ closed' \in [Inputs -> BOOLEAN] /\ when_message_sent' \in [Inputs -> BOOLEAN]
        /\ when_slots_available' \in [Inputs -> Seq(Senders)]
    BY <1>7, <1>t DEF Close, TypeOK
  <2>2. woken' \subseteq Senders \cup Inputs
    BY <1>7, <1>s, <1>t DEF Close, TypeOK
  <2>3. UNCHANGED <<waiting_messages, blocked, idle, dropped, waiting_for_idle, max_idle_queue_len, in_table,
                    reader, last_message_source, sinkVars, senderVars, history>>
    BY <1>7 DEF Close
  <2> QED BY <1>t, <2>1, <2>2, <2>3 DEF TypeOK
<1>8. CASE Block(i)
  BY <1>8, <1>a, <1>t DEF Block, TypeOK
<1>9. CASE Unblock(i)
  <2>1. blocked' \in [Inputs -> 0..MaxBlocks]
    <3>1. blocked \in [Inputs -> 0..MaxBlocks] /\ MaxBlocks \in Nat
      BY <1>a, <1>t DEF TypeOK
    <3>2. blocked[i] > 0 /\ blocked' = [blocked EXCEPT ![i] = blocked[i] - 1]
      BY <1>9 DEF Unblock
    <3>3. blocked[i] - 1 \in 0..MaxBlocks
      BY <3>1, <3>2
    <3> QED BY <3>1, <3>2, <3>3
  <2>2. when_slots_available' \in [Inputs -> Seq(Senders)] /\ woken' \subseteq Senders \cup Inputs
    BY <1>9, <1>s, <1>t DEF Unblock, WokenByUnblock, TypeOK
  <2> QED BY <1>9, <2>1, <2>2, <1>t DEF Unblock, TypeOK
<1>10. CASE WaitForIdle(i)
  <2>1. waiting_for_idle[i] = 0
    BY <1>10, <1>t DEF WaitForIdle, ReaderShape, TypeOK
  <2>2. max_idle_queue_len' \in [Inputs -> {MaxWaiting, MaxIdleLen}]
    BY <1>10, <1>a, <1>t DEF WaitForIdle, TypeOK, MaxIdleLen
  <2> QED BY <1>10, <1>s, <2>1, <2>2, <1>t DEF WaitForIdle, TypeOK
<1>11. CASE EndWaitForIdle(i)
  <2>1. waiting_for_idle[i] = 1
    BY <1>11, <1>t DEF EndWaitForIdle, ReaderShape
  <2> QED BY <1>11, <2>1, <1>t DEF EndWaitForIdle, WaitsAfterIdle, TypeOK
<1> QED BY <1>1, <1>2, <1>3, <1>4, <1>5, <1>6, <1>7, <1>8, <1>9, <1>10, <1>11 DEF ReaderStep

\* The steps of a sender keep the types.
LEMMA SenderTypes ==
  ASSUME Shape, NEW s \in Senders, BeginSend(s) \/ PollSender(s) \/ SenderStep(s)
  PROVE  TypeOK'
<1> USE DEF inputVars, sinkVars, senderVars, history, Go, Succeed, Fail, At
<1>a. {MaxWaiting, MaxMessages} \subseteq Nat /\ CoreOf[s] \in Cores /\ None \notin Nat
  BY StreamAssumption
<1>t. TypeOK /\ SenderShape
  BY DEF Shape
<1>m. /\ pc[s] \notin {"start", "stopped"} => Message(s) \in Messages
      /\ waiting_message[s] # None => <<s, waiting_message[s]>> \in Messages
      /\ pc[s] \in {"push", "sent", "flush_push", "flush_register", "immediate_push"} => via[s] \in Inputs
      /\ pc[s] \in {"flush_read", "flush_push", "flush_register"} => waiting_message[s] # None
  BY <1>t, MessageTypes
<1>n. pc[s] \notin {"start", "stopped"} => current[s] \in 1..MaxMessages
  <2>1. pc[s] \notin {"start", "stopped"} => current[s] > 0
    BY <1>t DEF SenderShape, SenderOK
  <2>2. current[s] \in 0..MaxMessages
    BY <1>t DEF TypeOK
  <2> QED BY <1>a, <2>1, <2>2
<1>k. attempt[s] < 3 => attempt[s] + 1 \in 0..3
  <2>1. attempt[s] \in 0..3
    BY <1>t DEF TypeOK
  <2> QED BY <2>1
<1> DEFINE PCs == {"start", "poll_ready", "start_send", "push", "sent", "poll_flush", "flush_read", "flush_push",
                   "flush_register", "immediate_read", "immediate_push", "stopped"}
<1>v. /\ waiting_message \in [Senders -> 1..MaxMessages \cup {None}]
      /\ pc \in [Senders -> PCs]
      /\ attempt \in [Senders -> 0..3]
      /\ via \in [Senders -> Inputs \cup {None}]
      /\ holding \in [Senders -> BOOLEAN]
      /\ yield_after_sending \in [Senders -> BOOLEAN]
      /\ target \in [Cores -> Targets]
      /\ when_target_changed \in [Cores -> Senders \cup {None}]
      /\ asleep \subseteq Senders /\ woken \subseteq Senders \cup Inputs
      /\ discarded \subseteq Messages /\ failed \subseteq Messages
  BY <1>t DEF TypeOK
<1>d. Disconnected \in Targets
  BY DEF Targets
<1>1. CASE BeginSend(s)
  <2>1. current[s] \in 0..MaxMessages /\ current[s] < MaxMessages
    BY <1>1, <1>t DEF BeginSend, TypeOK
  <2>2. current[s] + 1 \in 0..MaxMessages
    BY <1>a, <2>1
  <2>3. current' \in [Senders -> 0..MaxMessages]
    BY <1>1, <1>t, <2>2 DEF BeginSend, TypeOK
  <2>4. attempt' \in [Senders -> 0..3]
    BY <1>1, <1>v DEF BeginSend
  <2>5. pc' \in [Senders -> PCs]
    BY <1>1, <1>v DEF BeginSend
  <2>6. UNCHANGED <<inputVars, sinkVars, via, holding, asleep, woken, history>>
    BY <1>1 DEF BeginSend
  <2> QED BY <1>t, <2>3, <2>4, <2>5, <2>6 DEF TypeOK
<1>2. CASE PollSender(s)
  BY <1>2, <1>t DEF PollSender, TypeOK
<1>3. CASE PollReadyWaits(s)
  <2>1. when_target_changed' \in [Cores -> Senders \cup {None}] /\ asleep' \subseteq Senders
    BY <1>3, <1>a, <1>v DEF PollReadyWaits
  <2> QED BY <1>3, <1>t, <2>1 DEF PollReadyWaits, TypeOK
<1>4. CASE PollReadyFails(s)
  <2>1. target' \in [Cores -> Targets] /\ pc' \in [Senders -> PCs]
    BY <1>4, <1>a, <1>d, <1>v DEF PollReadyFails
  <2>2. failed' \subseteq Messages
    BY <1>4, <1>m, <1>v DEF PollReadyFails, Returned
  <2> QED BY <1>4, <1>t, <2>1, <2>2 DEF PollReadyFails, TypeOK
<1>5. CASE PollReady(s)
  BY <1>5, <1>t DEF PollReady, TypeOK
<1>6. CASE StartSend(s)
  <2>1. current[s] \in 1..MaxMessages /\ Message(s) \in Messages
    BY <1>6, <1>n, <1>m DEF StartSend
  <2>2. waiting_message' \in [Senders -> 1..MaxMessages \cup {None}]
    BY <1>6, <1>v, <2>1 DEF StartSend
  <2>3. pc' \in [Senders -> PCs]
    BY <1>6, <1>v DEF StartSend
  <2>4. via' \in [Senders -> Inputs \cup {None}]
    BY <1>6, <1>v DEF StartSend, Connected
  <2>5. target' \in [Cores -> Targets]
    BY <1>6, <1>v, <1>d, <1>a DEF StartSend
  <2>6. failed' \subseteq Messages
    BY <1>6, <1>v, <2>1 DEF StartSend, Returned
  <2>7. discarded' \subseteq Messages
    BY <1>6, <1>v, <2>1 DEF StartSend
  <2>8. yield_after_sending' \in [Senders -> BOOLEAN]
    BY <1>6, <1>v DEF StartSend
  <2>9. UNCHANGED <<inputVars, when_target_changed, changes, attempt, holding, current, asleep,
                    woken, received, drained>>
    BY <1>6 DEF StartSend
  <2> QED BY <1>t, <2>2, <2>3, <2>4, <2>5, <2>6, <2>7, <2>8, <2>9 DEF TypeOK
<1>7. CASE PushQueued(s)
  <2>1. via[s] \in Inputs /\ Message(s) \in Messages
    BY <1>7, <1>m DEF PushQueued
  <2>2. /\ waiting_messages' \in [Inputs -> Seq(Messages)]
        /\ idle' \in [Inputs -> BOOLEAN] /\ when_message_sent' \in [Inputs -> BOOLEAN]
    BY <1>7, <1>t, <2>1, EnqueueTypes DEF PushQueued
  <2>3. holding' \in [Senders -> BOOLEAN]
    BY <1>7, <1>t, <2>1 DEF PushQueued, TypeOK
  <2>4. yield_after_sending' \in [Senders -> BOOLEAN]
    <3>1. PICK stolen \in BOOLEAN : yield_after_sending' = [yield_after_sending EXCEPT ![s] =
          when_message_sent[via[s]] /\ ~stolen /\ IsQueueFull(Len(waiting_messages[via[s]]) + 1)]
      BY <1>7 DEF PushQueued
    <3>2. (when_message_sent[via[s]] /\ ~stolen /\ IsQueueFull(Len(waiting_messages[via[s]]) + 1)) \in BOOLEAN
      OBVIOUS
    <3> QED BY <1>v, <3>1, <3>2
  <2> QED BY <1>7, <1>t, <2>2, <2>3, <2>4 DEF PushQueued, Enqueue, TypeOK
<1>8. CASE PushRefused(s)
  <2>1. current[s] \in 1..MaxMessages /\ Message(s) \in Messages
    BY <1>8, <1>n, <1>m DEF PushRefused
  <2>2. waiting_message' \in [Senders -> 1..MaxMessages \cup {None}]
    BY <1>8, <1>v, <2>1 DEF PushRefused
  <2>3. pc' \in [Senders -> PCs] /\ via' \in [Senders -> Inputs \cup {None}]
    BY <1>8, <1>v DEF PushRefused
  <2>4. failed' \subseteq Messages
    BY <1>8, <1>v, <2>1 DEF PushRefused, Returned
  <2>5. UNCHANGED <<inputVars, target, when_target_changed, yield_after_sending, changes,
                    attempt, holding, current, asleep, woken, received, discarded, drained>>
    BY <1>8 DEF PushRefused
  <2> QED BY <1>t, <2>2, <2>3, <2>4, <2>5 DEF TypeOK
<1>9. CASE WakeTarget(s)
  BY <1>9, <1>m, <1>t DEF WakeTarget, WokenBySend, TypeOK
<1>10. CASE PollFlush(s)
  <2>1. pc' \in [Senders -> PCs] /\ when_target_changed' \in [Cores -> Senders \cup {None}]
    BY <1>10, <1>a, <1>v DEF PollFlush
  <2>2. yield_after_sending' \in [Senders -> BOOLEAN]
    BY <1>10, <1>v DEF PollFlush
  <2>3. asleep' \subseteq Senders /\ woken' \subseteq Senders \cup Inputs
    BY <1>10, <1>v DEF PollFlush
  <2>4. UNCHANGED <<inputVars, target, waiting_message, changes, attempt, via, holding, current, history>>
    BY <1>10 DEF PollFlush
  <2> QED BY <1>t, <2>1, <2>2, <2>3, <2>4 DEF TypeOK
<1>11. CASE FlushRead(s)
  <2>1. <<s, waiting_message[s]>> \in Messages
    BY <1>11, <1>m DEF FlushRead
  <2>2. /\ pc' \in [Senders -> PCs] /\ via' \in [Senders -> Inputs \cup {None}]
        /\ waiting_message' \in [Senders -> 1..MaxMessages \cup {None}]
    BY <1>11, <1>v DEF FlushRead, Connected
  <2>3. /\ target' \in [Cores -> Targets]
        /\ when_target_changed' \in [Cores -> Senders \cup {None}]
    BY <1>11, <1>v, <1>a, <1>d DEF FlushRead
  <2>4. asleep' \subseteq Senders /\ discarded' \subseteq Messages
    BY <1>11, <1>v, <2>1 DEF FlushRead
  <2>5. UNCHANGED <<inputVars, yield_after_sending, changes, attempt, holding, current, woken,
                    received, failed, drained>>
    BY <1>11 DEF FlushRead
  <2> QED BY <1>t, <2>2, <2>3, <2>4, <2>5 DEF TypeOK
<1>12. CASE FlushQueued(s)
  <2>1. via[s] \in Inputs /\ <<s, waiting_message[s]>> \in Messages
    BY <1>12, <1>m DEF FlushQueued
  <2>2. /\ waiting_messages' \in [Inputs -> Seq(Messages)]
        /\ idle' \in [Inputs -> BOOLEAN] /\ when_message_sent' \in [Inputs -> BOOLEAN]
    BY <1>12, <1>t, <2>1, EnqueueTypes DEF FlushQueued
  <2> QED BY <1>12, <1>t, <2>1, <2>2 DEF FlushQueued, Enqueue, ReaderIfRegistered, SinkAfterFlush, TypeOK
<1>13. CASE FlushRefused(s)
  <2>1. via[s] \in Inputs /\ <<s, waiting_message[s]>> \in Messages
    BY <1>13, <1>m DEF FlushRefused
  <2>2. Append(when_slots_available[via[s]], s) \in Seq(Senders)
    BY <1>t, <2>1 DEF TypeOK
  <2>3. when_slots_available' \in [Inputs -> Seq(Senders)]
    <3>1. when_slots_available \in [Inputs -> Seq(Senders)]
      BY <1>t DEF TypeOK
    <3> QED BY <1>13, <2>2, <3>1 DEF FlushRefused, SlotsWhenFull
  <2>4. /\ pc' \in [Senders -> PCs] /\ via' \in [Senders -> Inputs \cup {None}]
        /\ waiting_message' \in [Senders -> 1..MaxMessages \cup {None}]
    BY <1>13, <1>v DEF FlushRefused
  <2>5. failed' \subseteq Messages
    BY <1>13, <1>v, <2>1 DEF FlushRefused
  <2>6. UNCHANGED <<waiting_messages, when_message_sent, blocked, closed, idle, dropped,
                    waiting_for_idle, max_idle_queue_len, in_table, reader, last_message_source,
                    target, when_target_changed, yield_after_sending, changes, attempt, holding,
                    current, asleep, woken, received, discarded, drained>>
    BY <1>13 DEF FlushRefused
  <2> QED BY <1>t, <2>3, <2>4, <2>5, <2>6 DEF TypeOK
<1>14. CASE FlushRegister(s)
  BY <1>14, <1>a, <1>t DEF FlushRegister, TypeOK
<1>15. CASE ImmediateRead(s)
  <2>1. Message(s) \in Messages
    BY <1>15, <1>m DEF ImmediateRead
  <2>2. pc' \in [Senders -> PCs] /\ via' \in [Senders -> Inputs \cup {None}]
    BY <1>15, <1>v DEF ImmediateRead, Connected
  <2>3. attempt' \in [Senders -> 0..3]
    BY <1>15, <1>v, <1>k DEF ImmediateRead
  <2>4. failed' \subseteq Messages /\ discarded' \subseteq Messages
    BY <1>15, <1>v, <2>1 DEF ImmediateRead, Returned
  <2>5. UNCHANGED <<inputVars, sinkVars, holding, current, asleep, woken, received, drained>>
    BY <1>15 DEF ImmediateRead
  <2> QED BY <1>t, <2>2, <2>3, <2>4, <2>5 DEF TypeOK
<1>16. CASE ImmediateQueued(s)
  <2>1. via[s] \in Inputs /\ Message(s) \in Messages
    BY <1>16, <1>m DEF ImmediateQueued
  <2>2. /\ waiting_messages' \in [Inputs -> Seq(Messages)]
        /\ idle' \in [Inputs -> BOOLEAN] /\ when_message_sent' \in [Inputs -> BOOLEAN]
    BY <1>16, <1>t, <2>1, EnqueueTypes DEF ImmediateQueued
  <2>3. holding' \in [Senders -> BOOLEAN]
    BY <1>16, <1>t, <2>1 DEF ImmediateQueued, TypeOK
  <2> QED BY <1>16, <1>t, <2>2, <2>3 DEF ImmediateQueued, Enqueue, TypeOK
<1>17. CASE ImmediateRefused(s)
  <2>1. Message(s) \in Messages
    BY <1>17, <1>m DEF ImmediateRefused
  <2>2. pc' \in [Senders -> PCs] /\ via' \in [Senders -> Inputs \cup {None}]
    BY <1>17, <1>v DEF ImmediateRefused
  <2>3. attempt' \in [Senders -> 0..3]
    BY <1>17, <1>v, <1>k DEF ImmediateRefused
  <2>4. failed' \subseteq Messages
    BY <1>17, <1>v, <2>1 DEF ImmediateRefused, Returned
  <2>5. UNCHANGED <<inputVars, sinkVars, holding, current, asleep, woken, received, discarded, drained>>
    BY <1>17 DEF ImmediateRefused
  <2> QED BY <1>t, <2>2, <2>3, <2>4, <2>5 DEF TypeOK
<1> QED BY <1>1, <1>2, <1>3, <1>4, <1>5, <1>6, <1>7, <1>8, <1>9, <1>10, <1>11, <1>12, <1>13, <1>14,
          <1>15, <1>16, <1>17 DEF SenderStep

\* A change of target keeps the types.
LEMMA TargetTypes ==
  ASSUME Shape, NEW c \in Cores, NEW t \in Targets, ChangeTarget(c, t)
  PROVE  TypeOK'
<1>1. TypeOK
  BY DEF Shape
<1>2. /\ target' \in [Cores -> Targets] /\ when_target_changed' \in [Cores -> Senders \cup {None}]
  BY <1>1 DEF ChangeTarget, TypeOK
<1>3. woken' \subseteq Senders \cup Inputs /\ changes' \in [Cores -> 0..MaxChanges]
  BY <1>1, StreamAssumption DEF ChangeTarget, TypeOK
<1> QED BY <1>1, <1>2, <1>3 DEF ChangeTarget, inputVars, senderVars, history, TypeOK

\* A sender's step leaves the other senders where they are.
LEMMA SenderFrame ==
  ASSUME Shape, NEW s \in Senders, BeginSend(s) \/ PollSender(s) \/ SenderStep(s), NEW t \in Senders, t # s
  PROVE  /\ pc'[t] = pc[t] /\ attempt'[t] = attempt[t] /\ via'[t] = via[t] /\ current'[t] = current[t]
         /\ waiting_message'[t] = waiting_message[t]
         /\ holding'[t] = holding[t]
         /\ t \in asleep' <=> t \in asleep
         /\ t \in woken => t \in woken'
<1> USE DEF sinkVars, senderVars, history, Go, Succeed, Fail
<1>v. /\ waiting_message \in [Senders -> 1..MaxMessages \cup {None}]
      /\ DOMAIN pc = Senders /\ DOMAIN attempt = Senders /\ DOMAIN via = Senders
      /\ DOMAIN holding = Senders /\ DOMAIN current = Senders
  BY DEF Shape, TypeOK
<1>1. CASE BeginSend(s)
  BY <1>1, <1>v DEF BeginSend
<1>2. CASE PollSender(s)
  BY <1>2, <1>v DEF PollSender
<1>3. CASE PollReadyWaits(s)
  BY <1>3, <1>v DEF PollReadyWaits
<1>4. CASE PollReadyFails(s)
  BY <1>4, <1>v DEF PollReadyFails
<1>5. CASE PollReady(s)
  BY <1>5, <1>v DEF PollReady
<1>6. CASE StartSend(s)
  BY <1>6, <1>v DEF StartSend
<1>7. CASE PushQueued(s)
  BY <1>7, <1>v DEF PushQueued
<1>8. CASE PushRefused(s)
  BY <1>8, <1>v DEF PushRefused
<1>9. CASE WakeTarget(s)
  BY <1>9, <1>v DEF WakeTarget
<1>10. CASE PollFlush(s)
  BY <1>10, <1>v DEF PollFlush
<1>11. CASE FlushRead(s)
  BY <1>11, <1>v DEF FlushRead
<1>12. CASE FlushQueued(s)
  BY <1>12, <1>v DEF FlushQueued, SinkAfterFlush
<1>13. CASE FlushRefused(s)
  BY <1>13, <1>v DEF FlushRefused
<1>14. CASE FlushRegister(s)
  BY <1>14, <1>v DEF FlushRegister
<1>15. CASE ImmediateRead(s)
  BY <1>15, <1>v DEF ImmediateRead
<1>16. CASE ImmediateQueued(s)
  BY <1>16, <1>v DEF ImmediateQueued
<1>17. CASE ImmediateRefused(s)
  BY <1>17, <1>v DEF ImmediateRefused
<1> QED BY <1>1, <1>2, <1>3, <1>4, <1>5, <1>6, <1>7, <1>8, <1>9, <1>10, <1>11, <1>12, <1>13, <1>14,
          <1>15, <1>16, <1>17 DEF SenderStep

\* What one operation has at hand is kept by its own steps.
LEMMA SenderKeepsShape ==
  ASSUME Shape, NEW s \in Senders, BeginSend(s) \/ PollSender(s) \/ SenderStep(s)
  PROVE  SenderOK(s)'
<1> USE DEF sinkVars, senderVars, history, Go, Succeed, Fail, At, UsesImmediate, SenderOK
<1>v. /\ waiting_message \in [Senders -> 1..MaxMessages \cup {None}]
      /\ attempt \in [Senders -> 0..3] /\ via \in [Senders -> Inputs \cup {None}]
      /\ DOMAIN pc = Senders /\ DOMAIN holding = Senders /\ current \in [Senders -> 0..MaxMessages]
      /\ None \notin Nat /\ None \notin Inputs /\ MaxMessages \in Nat
  BY StreamAssumption DEF Shape, TypeOK
<1>k. SenderOK(s)
  BY DEF Shape, SenderShape
<1>1. CASE BeginSend(s)
  BY <1>1, <1>k, <1>v DEF BeginSend
<1>2. CASE PollSender(s)
  BY <1>2, <1>k, <1>v DEF PollSender
<1>3. CASE PollReadyWaits(s)
  BY <1>3, <1>k, <1>v DEF PollReadyWaits
<1>4. CASE PollReadyFails(s)
  BY <1>4, <1>k, <1>v DEF PollReadyFails, SinkIsFree
<1>5. CASE PollReady(s)
  BY <1>5, <1>k, <1>v DEF PollReady, SinkIsFree
<1>6. CASE StartSend(s)
  BY <1>6, <1>k, <1>v DEF StartSend, Connected
<1>7. CASE PushQueued(s)
  BY <1>7, <1>k, <1>v DEF PushQueued
<1>8. CASE PushRefused(s)
  BY <1>8, <1>k, <1>v DEF PushRefused
<1>9. CASE WakeTarget(s)
  BY <1>9, <1>k, <1>v DEF WakeTarget
<1>10. CASE PollFlush(s)
  BY <1>10, <1>k, <1>v DEF PollFlush
<1>11. CASE FlushRead(s)
  BY <1>11, <1>k, <1>v DEF FlushRead, Connected
<1>12. CASE FlushQueued(s)
  BY <1>12, <1>k, <1>v DEF FlushQueued, SinkAfterFlush
<1>13. CASE FlushRefused(s)
  BY <1>13, <1>k, <1>v DEF FlushRefused
<1>14. CASE FlushRegister(s)
  BY <1>14, <1>k, <1>v DEF FlushRegister
<1>15. CASE ImmediateRead(s)
  BY <1>15, <1>k, <1>v DEF ImmediateRead, Connected
<1>16. CASE ImmediateQueued(s)
  BY <1>16, <1>k, <1>v DEF ImmediateQueued
<1>17. CASE ImmediateRefused(s)
  BY <1>17, <1>k, <1>v DEF ImmediateRefused
<1> QED BY <1>1, <1>2, <1>3, <1>4, <1>5, <1>6, <1>7, <1>8, <1>9, <1>10, <1>11, <1>12, <1>13, <1>14,
          <1>15, <1>16, <1>17 DEF SenderStep

\* A program waits for idle in its own steps only, and ends one wait before the next.
LEMMA ReaderKeepsShape ==
  ASSUME Shape, NEW i \in Inputs,
         \/ ReaderStep(i) \/ PollReader(i) \/ DropStream(i) \/ FinishReader(i)
         \/ Close(i) \/ Block(i) \/ Unblock(i) \/ WaitForIdle(i) \/ EndWaitForIdle(i)
  PROVE  ReaderShape'
<1>v. waiting_for_idle \in [Inputs -> 0..1] /\ DOMAIN reader = Inputs
  BY DEF Shape, TypeOK
<1>k. ReaderShape
  BY DEF Shape
<1>1. CASE PollNextMessage(i)
  BY <1>1, <1>k DEF PollNextMessage, ReaderShape
<1>2. CASE PollNextClosed(i)
  BY <1>2, <1>v, <1>k DEF PollNextClosed, ReaderShape
<1>3. CASE PollNextPending(i)
  BY <1>3, <1>v, <1>k DEF PollNextPending, ReaderShape
<1>4. CASE PollReader(i)
  BY <1>4, <1>v, <1>k DEF PollReader, ReaderShape
<1>5. CASE DropStream(i)
  BY <1>5, <1>v, <1>k DEF DropStream, ReaderShape
<1>6. CASE FinishReader(i)
  BY <1>6, <1>v, <1>k DEF FinishReader, ReaderShape
<1>7. CASE Close(i)
  BY <1>7, <1>v, <1>k DEF Close, ReaderShape
<1>8. CASE Block(i)
  BY <1>8, <1>v, <1>k DEF Block, ReaderShape
<1>9. CASE Unblock(i)
  BY <1>9, <1>v, <1>k DEF Unblock, ReaderShape
<1>10. CASE WaitForIdle(i)
  BY <1>10, <1>v, <1>k DEF WaitForIdle, ReaderShape
<1>11. CASE EndWaitForIdle(i)
  BY <1>11, <1>v, <1>k DEF EndWaitForIdle, WaitsAfterIdle, ReaderShape
<1> QED BY <1>1, <1>2, <1>3, <1>4, <1>5, <1>6, <1>7, <1>8, <1>9, <1>10, <1>11 DEF ReaderStep

\* Types and shapes are kept by every step.
LEMMA ShapeStep ==
  ASSUME Shape, [Next]_vars
  PROVE  Shape'
<1> USE DEF inputVars, sinkVars, senderVars, history
<1>1. CASE UNCHANGED vars
  BY <1>1 DEF vars, Shape, TypeOK, SenderShape, SenderOK, ReaderShape, UsesImmediate
<1>2. ASSUME NEW s \in Senders, BeginSend(s) \/ PollSender(s) \/ SenderStep(s)
      PROVE  Shape'
  <2>1. TypeOK'
    BY <1>2, SenderTypes
  <2>2. SenderOK(s)'
    BY <1>2, SenderKeepsShape
  <2>3. ASSUME NEW t \in Senders, t # s PROVE SenderOK(t)'
    <3>1. /\ pc'[t] = pc[t] /\ attempt'[t] = attempt[t] /\ via'[t] = via[t] /\ current'[t] = current[t]
          /\ waiting_message'[t] = waiting_message[t]
          /\ holding'[t] = holding[t]
          /\ t \in asleep' <=> t \in asleep
      BY <1>2, <2>3, SenderFrame
    <3>2. SenderOK(t)
      BY DEF Shape, SenderShape
    <3> QED BY <3>1, <3>2 DEF SenderOK, UsesImmediate
  <2>4. UNCHANGED <<waiting_for_idle, reader>>
    BY <1>2 DEF BeginSend, PollSender, SenderStep, PollReadyWaits, PollReadyFails, PollReady, StartSend,
         PushQueued, PushRefused, WakeTarget, PollFlush, FlushRead, FlushQueued, FlushRefused, FlushRegister,
         ImmediateRead, ImmediateQueued, ImmediateRefused, Enqueue
  <2>5. ReaderShape'
    BY <2>4 DEF Shape, ReaderShape
  <2> QED BY <2>1, <2>2, <2>3, <2>5 DEF Shape, SenderShape
<1>3. ASSUME NEW i \in Inputs,
             \/ ReaderStep(i) \/ PollReader(i) \/ DropStream(i) \/ FinishReader(i)
             \/ Close(i) \/ Block(i) \/ Unblock(i) \/ WaitForIdle(i) \/ EndWaitForIdle(i)
      PROVE  Shape'
  <2>1. TypeOK'
    BY <1>3, InputTypes
  <2>2. ReaderShape'
    BY <1>3, ReaderKeepsShape
  <2>3. UNCHANGED <<senderVars, waiting_message>>
    BY <1>3 DEF ReaderStep, PollNextMessage, PollNextClosed, PollNextPending, PollReader, DropStream,
         FinishReader, Close, Block, Unblock, WaitForIdle, EndWaitForIdle
  <2>4. SenderShape'
    BY <2>3 DEF Shape, SenderShape, SenderOK, UsesImmediate
  <2> QED BY <2>1, <2>2, <2>4 DEF Shape
<1>4. ASSUME NEW c \in Cores, NEW t \in Targets, ChangeTarget(c, t)
      PROVE  Shape'
  <2>1. UNCHANGED <<senderVars, waiting_message, waiting_for_idle, reader>>
    BY <1>4 DEF ChangeTarget
  <2> QED BY <1>4, <2>1, TargetTypes DEF Shape, SenderShape, SenderOK, UsesImmediate, ReaderShape
<1> QED BY <1>1, <1>2, <1>3, <1>4 DEF Next

----------------------------------------------------------------------------
(* The reader's wake-ups. *)

\* No step of a sender puts a reader to sleep: who takes its waker holds it until it is called.
LEMMA SendersWakeReaders ==
  ASSUME Shape, NEW s \in Senders, BeginSend(s) \/ PollSender(s) \/ SenderStep(s),
         NEW i \in Inputs, ReaderSleeps(i)'
  PROVE  /\ ReaderSleeps(i)
         /\ when_message_sent[i] => UNCHANGED <<waiting_messages[i], when_message_sent[i]>>
<1> USE DEF inputVars, sinkVars, senderVars, history, At, Go, Succeed, Fail, ReaderSleeps
<1>v. /\ when_message_sent \in [Inputs -> BOOLEAN] /\ holding \in [Senders -> BOOLEAN]
      /\ via \in [Senders -> Inputs \cup {None}] /\ DOMAIN waiting_messages = Inputs
      /\ Senders \cap Inputs = {}
  BY StreamAssumption DEF Shape, TypeOK
<1>h. holding[s] => pc[s] = "sent"
  BY DEF Shape, SenderShape, SenderOK
<1>f. \A t \in Senders : t # s => via'[t] = via[t] /\ holding'[t] = holding[t]
  BY SenderFrame
<1>1. CASE BeginSend(s)
  BY <1>1, <1>v, <1>h, <1>f DEF BeginSend
<1>2. CASE PollSender(s)
  BY <1>2, <1>v, <1>h, <1>f DEF PollSender
<1>3. CASE PollReadyWaits(s)
  BY <1>3, <1>v, <1>h, <1>f DEF PollReadyWaits
<1>4. CASE PollReadyFails(s)
  BY <1>4, <1>v, <1>h, <1>f DEF PollReadyFails
<1>5. CASE PollReady(s)
  BY <1>5, <1>v, <1>h, <1>f DEF PollReady
<1>6. CASE StartSend(s)
  BY <1>6, <1>v, <1>h, <1>f DEF StartSend
<1>7. CASE PushQueued(s)
  <2>1. via[s] \in Inputs
    BY <1>7, MessageTypes DEF PushQueued, Shape
  <2>2. /\ reader' = reader
        /\ i # via[s] => waiting_messages'[i] = waiting_messages[i] /\ when_message_sent'[i] = when_message_sent[i]
    BY <1>7, <1>v DEF PushQueued, Enqueue
  <2>3. CASE i = via[s]
    BY <1>7, <1>v, <1>h, <1>f, <2>2, <2>3 DEF PushQueued, Enqueue
  <2>4. CASE i # via[s]
    BY <1>7, <1>v, <1>h, <1>f, <2>2, <2>4 DEF PushQueued
  <2> QED BY <2>3, <2>4
<1>8. CASE PushRefused(s)
  BY <1>8, <1>v, <1>h, <1>f DEF PushRefused
<1>9. CASE WakeTarget(s)
  BY <1>9, <1>v, <1>h, <1>f DEF WakeTarget, WokenBySend
<1>10. CASE PollFlush(s)
  BY <1>10, <1>v, <1>h, <1>f DEF PollFlush
<1>11. CASE FlushRead(s)
  BY <1>11, <1>v, <1>h, <1>f DEF FlushRead
<1>12. CASE FlushQueued(s)
  <2>1. via[s] \in Inputs
    BY <1>12, MessageTypes DEF FlushQueued, Shape
  <2>2. /\ reader' = reader
        /\ i # via[s] => waiting_messages'[i] = waiting_messages[i] /\ when_message_sent'[i] = when_message_sent[i]
    BY <1>12, <1>v DEF FlushQueued, Enqueue
  <2>3. CASE i = via[s]
    BY <1>12, <1>v, <1>h, <1>f, <2>2, <2>3 DEF FlushQueued, Enqueue, ReaderIfRegistered
  <2>4. CASE i # via[s]
    BY <1>12, <1>v, <1>h, <1>f, <2>2, <2>4 DEF FlushQueued, ReaderIfRegistered
  <2> QED BY <2>3, <2>4
<1>13. CASE FlushRefused(s)
  BY <1>13, <1>v, <1>h, <1>f DEF FlushRefused
<1>14. CASE FlushRegister(s)
  BY <1>14, <1>v, <1>h, <1>f DEF FlushRegister
<1>15. CASE ImmediateRead(s)
  BY <1>15, <1>v, <1>h, <1>f DEF ImmediateRead
<1>16. CASE ImmediateQueued(s)
  <2>1. via[s] \in Inputs
    BY <1>16, MessageTypes DEF ImmediateQueued, Shape
  <2>2. /\ reader' = reader
        /\ i # via[s] => waiting_messages'[i] = waiting_messages[i] /\ when_message_sent'[i] = when_message_sent[i]
    BY <1>16, <1>v DEF ImmediateQueued, Enqueue
  <2>3. CASE i = via[s]
    BY <1>16, <1>v, <1>h, <1>f, <2>2, <2>3 DEF ImmediateQueued, Enqueue
  <2>4. CASE i # via[s]
    BY <1>16, <1>v, <1>h, <1>f, <2>2, <2>4 DEF ImmediateQueued
  <2> QED BY <2>3, <2>4
<1>17. CASE ImmediateRefused(s)
  BY <1>17, <1>v, <1>h, <1>f DEF ImmediateRefused
<1> QED BY <1>1, <1>2, <1>3, <1>4, <1>5, <1>6, <1>7, <1>8, <1>9, <1>10, <1>11, <1>12, <1>13, <1>14,
          <1>15, <1>16, <1>17 DEF SenderStep

\* A sender waits for a slot of an empty stream only if that is blocked.
LEMMA SenderKeepsReaderQuiet ==
  ASSUME Shape, SleepingReaderHasNoWork,
         NEW s \in Senders, BeginSend(s) \/ PollSender(s) \/ SenderStep(s)
  PROVE  SleepingReaderHasNoWork'
<1> SUFFICES ASSUME NEW i \in Inputs, ReaderSleeps(i)'
             PROVE  /\ waiting_messages'[i] = <<>> /\ ~closed'[i] /\ when_message_sent'[i]
                    /\ blocked'[i] = 0 => when_slots_available'[i] = <<>>
  BY DEF SleepingReaderHasNoWork
<1>1. ReaderSleeps(i) /\ (when_message_sent[i] => UNCHANGED <<waiting_messages[i], when_message_sent[i]>>)
  BY SendersWakeReaders
<1>2. /\ waiting_messages[i] = <<>> /\ ~closed[i] /\ when_message_sent[i]
      /\ blocked[i] = 0 => when_slots_available[i] = <<>>
  BY <1>1 DEF SleepingReaderHasNoWork
<1>3. waiting_messages'[i] = <<>> /\ when_message_sent'[i]
  BY <1>1, <1>2
<1>4. UNCHANGED <<closed, blocked>>
  BY DEF BeginSend, PollSender, SenderStep, PollReadyWaits, PollReadyFails, PollReady, StartSend,
         PushQueued, PushRefused, WakeTarget, PollFlush, FlushRead, FlushQueued, FlushRefused, FlushRegister,
         ImmediateRead, ImmediateQueued, ImmediateRefused, Enqueue, inputVars
<1>5. CASE FlushRefused(s) /\ via[s] = i
  <2>1. waiting_for_idle[i] = 0
    BY <1>1 DEF ReaderSleeps, Shape, ReaderShape, TypeOK
  <2>2. 0 <= MaxWaiting /\ Len(waiting_messages[i]) = 0
    BY <1>2, StreamAssumption
  <2>3. blocked[i] # 0
    BY <1>2, <1>5, <2>1, <2>2 DEF FlushRefused, CanSend, SlotLimit
  <2> QED BY <1>2, <1>3, <1>4, <2>3
<1>6. CASE ~(FlushRefused(s) /\ via[s] = i)
  <2>1. DOMAIN when_slots_available = Inputs
    BY DEF Shape, TypeOK
  <2>2. when_slots_available'[i] = when_slots_available[i]
    BY <1>6, <2>1 DEF BeginSend, PollSender, SenderStep, PollReadyWaits, PollReadyFails, PollReady, StartSend,
         PushQueued, PushRefused, WakeTarget, PollFlush, FlushRead, FlushQueued, FlushRefused, FlushRegister,
         ImmediateRead, ImmediateQueued, ImmediateRefused, Enqueue, SlotsWhenFull, inputVars
  <2> QED BY <1>2, <1>3, <1>4, <2>2
<1> QED BY <1>5, <1>6

\* The reader looks at everything before it goes to sleep, and is woken by the rest.
LEMMA ReaderKeepsReaderQuiet ==
  ASSUME Shape, SleepingReaderHasNoWork, NEW i \in Inputs,
         \/ ReaderStep(i) \/ PollReader(i) \/ DropStream(i) \/ FinishReader(i)
         \/ Close(i) \/ Block(i) \/ Unblock(i) \/ WaitForIdle(i) \/ EndWaitForIdle(i)
  PROVE  SleepingReaderHasNoWork'
<1> USE DEF sinkVars, senderVars, history
<1>v. /\ when_message_sent \in [Inputs -> BOOLEAN] /\ closed \in [Inputs -> BOOLEAN]
      /\ DOMAIN waiting_messages = Inputs /\ DOMAIN when_slots_available = Inputs
      /\ DOMAIN reader = Inputs /\ blocked \in [Inputs -> 0..MaxBlocks] /\ MaxBlocks \in Nat
  BY StreamAssumption DEF Shape, TypeOK
<1>k. \A j \in Inputs : ReaderSleeps(j) =>
        /\ waiting_messages[j] = <<>> /\ ~closed[j] /\ when_message_sent[j]
        /\ blocked[j] = 0 => when_slots_available[j] = <<>>
  BY DEF SleepingReaderHasNoWork
<1>1. CASE PollNextMessage(i)
  BY <1>1, <1>v, <1>k DEF PollNextMessage, SleepingReaderHasNoWork, ReaderSleeps
<1>2. CASE PollNextClosed(i)
  BY <1>2, <1>v, <1>k DEF PollNextClosed, SleepingReaderHasNoWork, ReaderSleeps
<1>3. CASE PollNextPending(i)
  BY <1>3, <1>v, <1>k DEF PollNextPending, WokenByPending, SleepingReaderHasNoWork, ReaderSleeps
<1>4. CASE PollReader(i)
  BY <1>4, <1>v, <1>k DEF PollReader, SleepingReaderHasNoWork, ReaderSleeps
<1>5. CASE DropStream(i)
  BY <1>5, <1>v, <1>k DEF DropStream, ReaderIfRegistered, SleepingReaderHasNoWork, ReaderSleeps
<1>6. CASE FinishReader(i)
  BY <1>6, <1>v, <1>k DEF FinishReader, SleepingReaderHasNoWork, ReaderSleeps
<1>7. CASE Close(i)
  BY <1>7, <1>v, <1>k DEF Close, ReaderIfRegistered, SleepingReaderHasNoWork, ReaderSleeps
<1>8. CASE Block(i)
  BY <1>8, <1>v, <1>k DEF Block, SleepingReaderHasNoWork, ReaderSleeps
<1>9. CASE Unblock(i)
  BY <1>9, <1>v, <1>k DEF Unblock, WokenByUnblock, SleepingReaderHasNoWork, ReaderSleeps
<1>10. CASE WaitForIdle(i)
  BY <1>10, <1>v, <1>k DEF WaitForIdle, SleepingReaderHasNoWork, ReaderSleeps
<1>11. CASE EndWaitForIdle(i)
  BY <1>11, <1>v, <1>k DEF EndWaitForIdle, WaitsAfterIdle, SleepingReaderHasNoWork, ReaderSleeps
<1> QED BY <1>1, <1>2, <1>3, <1>4, <1>5, <1>6, <1>7, <1>8, <1>9, <1>10, <1>11 DEF ReaderStep

\* A sleeping reader has nothing to do after any step.
LEMMA ReaderQuietStep ==
  ASSUME Shape, SleepingReaderHasNoWork, [Next]_vars
  PROVE  SleepingReaderHasNoWork'
<1>1. CASE UNCHANGED vars
  BY <1>1 DEF vars, inputVars, senderVars, SleepingReaderHasNoWork, ReaderSleeps
<1>2. ASSUME NEW c \in Cores, NEW t \in Targets, ChangeTarget(c, t)
      PROVE  SleepingReaderHasNoWork'
  BY <1>2 DEF ChangeTarget, inputVars, senderVars, SleepingReaderHasNoWork, ReaderSleeps
<1> QED BY <1>1, <1>2, SenderKeepsReaderQuiet, ReaderKeepsReaderQuiet DEF Next

----------------------------------------------------------------------------
(* The places of a message. *)

\* The messages that s has begun to send are where they were.
Stays(s) ==
    /\ UNCHANGED <<waiting_messages, received, discarded, failed, drained, current>>
    /\ \A n \in 1..current[s] : Undecided(s, n)' <=> Undecided(s, n)

\* s begins to send one more.
Begins(s) ==
    /\ UNCHANGED <<waiting_messages, received, discarded, failed, drained>>
    /\ current' = [current EXCEPT ![s] = @ + 1]
    /\ current'[s] \in 1..MaxMessages /\ Undecided(s, current[s])'
    /\ \A n \in 1..current[s] : Undecided(s, n)' <=> Undecided(s, n)

\* The message that s sends leaves its hands: to the queue of i, discarded or returned.
Leaves(s) ==
    /\ UNCHANGED <<received, drained, current>>
    /\ current[s] \in 1..MaxMessages /\ Undecided(s, current[s]) /\ ~Undecided(s, current[s])'
    /\ \A n \in 1..current[s] : n # current[s] => (Undecided(s, n)' <=> Undecided(s, n))

LeavesForQueue(s, i) ==
    /\ waiting_messages' = [waiting_messages EXCEPT ![i] = Append(@, Message(s))]
    /\ UNCHANGED <<discarded, failed>>

LeavesForGood(s) ==
    /\ UNCHANGED waiting_messages
    /\ \/ discarded' = discarded \cup {Message(s)} /\ UNCHANGED failed
       \/ failed' = failed \cup {Message(s)} /\ UNCHANGED discarded

\* What the steps of a sender do to the places of its messages.
LEMMA SenderEffects ==
  ASSUME Shape, NEW s \in Senders, BeginSend(s) \/ PollSender(s) \/ SenderStep(s)
  PROVE  \/ Stays(s) \/ Begins(s)
         \/ Leaves(s) /\ (LeavesForGood(s) \/ \E i \in Inputs : LeavesForQueue(s, i))
<1> USE DEF sinkVars, history, At, Go, Succeed, Fail
<1>v. /\ waiting_message \in [Senders -> 1..MaxMessages \cup {None}]
      /\ DOMAIN pc = Senders /\ current \in [Senders -> 0..MaxMessages]
      /\ None \notin Nat /\ MaxMessages \in Nat
  BY StreamAssumption DEF Shape, TypeOK
<1>k. SenderOK(s)
  BY DEF Shape, SenderShape
<1>n. pc[s] \notin {"start", "stopped"} => current[s] \in 1..MaxMessages
  BY <1>k, <1>v DEF SenderOK
<1>d. Disconnected # Discard /\ Disconnected \notin Inputs /\ Discard \notin Inputs
  BY StreamAssumption
<1>1. CASE BeginSend(s)
  <2>1. current[s] + 1 \in 1..MaxMessages /\ current'[s] = current[s] + 1 /\ pc[s] = "start"
    BY <1>1, <1>v DEF BeginSend
  <2>2. pc'[s] \in {"immediate_read", "poll_ready"}
    BY <1>1, <1>v DEF BeginSend
  <2>3. UNCHANGED <<waiting_messages, received, discarded, failed, drained, waiting_message>>
    BY <1>1 DEF BeginSend, inputVars
  <2>4. \A n \in 1..current[s] : n # current'[s]
    BY <1>v, <2>1
  <2>5. current' = [current EXCEPT ![s] = @ + 1]
    BY <1>1 DEF BeginSend
  <2>6. Undecided(s, current[s])'
    BY <2>2 DEF Undecided
  <2>7. \A n \in 1..current[s] : Undecided(s, n)' <=> Undecided(s, n)
    BY <2>1, <2>3, <2>4 DEF Undecided
  <2>8. current'[s] \in 1..MaxMessages
    BY <2>1
  <2> QED BY <2>3, <2>5, <2>6, <2>7, <2>8 DEF Begins
<1>2. CASE PollSender(s)
  <2>1. UNCHANGED <<waiting_messages, received, discarded, failed, drained, current>>
    BY <1>2 DEF PollSender, inputVars, senderVars
  <2>2. \A n \in 1..current[s] : Undecided(s, n)' <=> Undecided(s, n)
    BY <1>2, <1>v, <1>k, <2>1 DEF PollSender, senderVars, Undecided, SenderOK, UsesImmediate
  <2> QED BY <2>1, <2>2 DEF Stays
<1>3. CASE PollReadyWaits(s)
  <2>1. UNCHANGED <<waiting_messages, received, discarded, failed, drained, current>>
    BY <1>3 DEF PollReadyWaits, inputVars, senderVars
  <2>2. \A n \in 1..current[s] : Undecided(s, n)' <=> Undecided(s, n)
    BY <1>3, <1>v, <1>k, <2>1 DEF PollReadyWaits, senderVars, Undecided, SenderOK, UsesImmediate
  <2> QED BY <2>1, <2>2 DEF Stays
<1>4. CASE PollReadyFails(s)
  <2>1. UNCHANGED <<received, drained, current>> /\ current[s] \in 1..MaxMessages
    BY <1>4, <1>n DEF PollReadyFails, senderVars, Enqueue, inputVars
  <2>2. Undecided(s, current[s]) /\ ~Undecided(s, current[s])'
    BY <1>4, <1>v, <1>k, <1>n, <2>1 DEF PollReadyFails, SinkIsFree, Undecided, SenderOK, UsesImmediate
  <2>3. \A n \in 1..current[s] : n # current[s] => (Undecided(s, n)' <=> Undecided(s, n))
    BY <1>4, <1>v, <1>k, <1>n, <2>1 DEF PollReadyFails, SinkIsFree, Undecided, SenderOK, UsesImmediate
  <2>4. LeavesForGood(s)
    BY <1>4, <1>k, <1>n DEF PollReadyFails, SinkIsFree, LeavesForGood, Returned, Message, SenderOK, inputVars
  <2> QED BY <2>1, <2>2, <2>3, <2>4 DEF Leaves
<1>5. CASE PollReady(s)
  <2>1. UNCHANGED <<waiting_messages, received, discarded, failed, drained, current>>
    BY <1>5 DEF PollReady, inputVars, senderVars
  <2>2. \A n \in 1..current[s] : Undecided(s, n)' <=> Undecided(s, n)
    BY <1>5, <1>v, <1>k, <2>1 DEF PollReady, SinkIsFree, senderVars, Undecided, SenderOK, UsesImmediate
  <2> QED BY <2>1, <2>2 DEF Stays
<1>6. CASE StartSend(s)
  <2>1. CASE TargetOf(s) = Disconnected
    <3>1. UNCHANGED <<waiting_messages, received, discarded, failed, drained, current>>
      BY <1>6, <2>1, <1>d DEF StartSend, Connected, Lost, inputVars, senderVars
    <3>2. \A n \in 1..current[s] : Undecided(s, n)' <=> Undecided(s, n)
      BY <1>6, <1>v, <1>k, <1>n, <3>1, <2>1, <1>d DEF StartSend, Connected, Lost, senderVars, Undecided, SenderOK, UsesImmediate
    <3> QED BY <3>1, <3>2 DEF Stays
  <2>2. CASE TargetOf(s) = Discard
    <3>1. UNCHANGED <<received, drained, current>> /\ current[s] \in 1..MaxMessages
      BY <1>6, <1>n DEF StartSend, senderVars, Enqueue, inputVars
    <3>2. Undecided(s, current[s]) /\ ~Undecided(s, current[s])'
      BY <1>6, <1>v, <1>k, <1>n, <3>1, <2>2, <1>d DEF StartSend, Connected, Lost, Undecided, SenderOK, UsesImmediate
    <3>3. \A n \in 1..current[s] : n # current[s] => (Undecided(s, n)' <=> Undecided(s, n))
      BY <1>6, <1>v, <1>k, <1>n, <3>1, <2>2, <1>d DEF StartSend, Connected, Lost, Undecided, SenderOK, UsesImmediate
    <3>4. LeavesForGood(s)
      BY <1>6, <1>k, <1>n, <2>2, <1>d DEF StartSend, Connected, Lost, LeavesForGood, Returned, Message, SenderOK, inputVars
    <3> QED BY <3>1, <3>2, <3>3, <3>4 DEF Leaves
  <2>3. CASE Connected(s)
    <3>1. UNCHANGED <<waiting_messages, received, discarded, failed, drained, current>>
      BY <1>6, <2>3, <1>d DEF StartSend, Connected, Lost, inputVars, senderVars
    <3>2. \A n \in 1..current[s] : Undecided(s, n)' <=> Undecided(s, n)
      BY <1>6, <1>v, <1>k, <1>n, <3>1, <2>3, <1>d DEF StartSend, Connected, Lost, senderVars, Undecided, SenderOK, UsesImmediate
    <3> QED BY <3>1, <3>2 DEF Stays
  <2>4. CASE Lost(s)
    <3>1. UNCHANGED <<received, drained, current>> /\ current[s] \in 1..MaxMessages
      BY <1>6, <1>n DEF StartSend, senderVars, Enqueue, inputVars
    <3>2. Undecided(s, current[s]) /\ ~Undecided(s, current[s])'
      BY <1>6, <1>v, <1>k, <1>n, <3>1, <2>4, <1>d DEF StartSend, Connected, Lost, Undecided, SenderOK, UsesImmediate
    <3>3. \A n \in 1..current[s] : n # current[s] => (Undecided(s, n)' <=> Undecided(s, n))
      BY <1>6, <1>v, <1>k, <1>n, <3>1, <2>4, <1>d DEF StartSend, Connected, Lost, Undecided, SenderOK, UsesImmediate
    <3>4. LeavesForGood(s)
      BY <1>6, <1>k, <1>n, <2>4, <1>d DEF StartSend, Connected, Lost, LeavesForGood, Returned, Message, SenderOK, inputVars
    <3> QED BY <3>1, <3>2, <3>3, <3>4 DEF Leaves
  <2> QED BY <1>6, <2>1, <2>2, <2>3, <2>4 DEF StartSend
<1>7. CASE PushQueued(s)
  <2>1. UNCHANGED <<received, drained, current>> /\ current[s] \in 1..MaxMessages
    BY <1>7, <1>n DEF PushQueued, senderVars, Enqueue, inputVars
  <2>2. Undecided(s, current[s]) /\ ~Undecided(s, current[s])'
    BY <1>7, <1>v, <1>k, <1>n, <2>1 DEF PushQueued, Undecided, SenderOK, UsesImmediate
  <2>3. \A n \in 1..current[s] : n # current[s] => (Undecided(s, n)' <=> Undecided(s, n))
    BY <1>7, <1>v, <1>k, <1>n, <2>1 DEF PushQueued, Undecided, SenderOK, UsesImmediate
  <2>4. via[s] \in Inputs
    BY <1>7, MessageTypes DEF PushQueued, Shape
  <2>5. LeavesForQueue(s, via[s])
    BY <1>7, <1>k, <1>n DEF PushQueued, Enqueue, QueueAfterSend, LeavesForQueue, Message, SenderOK
  <2> QED BY <2>1, <2>2, <2>3, <2>4, <2>5 DEF Leaves
<1>8. CASE PushRefused(s)
  <2>1. CASE closed[via[s]] \/ waiting_for_idle[via[s]] > 0
    <3>1. UNCHANGED <<received, drained, current>> /\ current[s] \in 1..MaxMessages
      BY <1>8, <1>n DEF PushRefused, senderVars, Enqueue, inputVars
    <3>2. Undecided(s, current[s]) /\ ~Undecided(s, current[s])'
      BY <1>8, <1>v, <1>k, <1>n, <3>1, <2>1 DEF PushRefused, Undecided, SenderOK, UsesImmediate
    <3>3. \A n \in 1..current[s] : n # current[s] => (Undecided(s, n)' <=> Undecided(s, n))
      BY <1>8, <1>v, <1>k, <1>n, <3>1, <2>1 DEF PushRefused, Undecided, SenderOK, UsesImmediate
    <3>4. LeavesForGood(s)
      BY <1>8, <1>k, <1>n, <2>1 DEF PushRefused, LeavesForGood, Returned, Message, SenderOK, inputVars
    <3> QED BY <3>1, <3>2, <3>3, <3>4 DEF Leaves
  <2>2. CASE ~(closed[via[s]] \/ waiting_for_idle[via[s]] > 0)
    <3>1. UNCHANGED <<waiting_messages, received, discarded, failed, drained, current>>
      BY <1>8, <2>2 DEF PushRefused, inputVars, senderVars
    <3>2. \A n \in 1..current[s] : Undecided(s, n)' <=> Undecided(s, n)
      BY <1>8, <1>v, <1>k, <1>n, <3>1, <2>2 DEF PushRefused, senderVars, Undecided, SenderOK, UsesImmediate
    <3> QED BY <3>1, <3>2 DEF Stays
  <2> QED BY <2>1, <2>2
<1>9. CASE WakeTarget(s)
  <2>1. UNCHANGED <<waiting_messages, received, discarded, failed, drained, current>>
    BY <1>9 DEF WakeTarget, inputVars, senderVars
  <2>2. \A n \in 1..current[s] : Undecided(s, n)' <=> Undecided(s, n)
    BY <1>9, <1>v, <1>k, <2>1 DEF WakeTarget, senderVars, Undecided, SenderOK, UsesImmediate
  <2> QED BY <2>1, <2>2 DEF Stays
<1>10. CASE PollFlush(s)
  <2>1. UNCHANGED <<waiting_messages, received, discarded, failed, drained, current>>
    BY <1>10 DEF PollFlush, inputVars, senderVars
  <2>2. \A n \in 1..current[s] : Undecided(s, n)' <=> Undecided(s, n)
    BY <1>10, <1>v, <1>k, <2>1 DEF PollFlush, senderVars, Undecided, SenderOK, UsesImmediate
  <2> QED BY <2>1, <2>2 DEF Stays
<1>11. CASE FlushRead(s)
  <2>1. CASE TargetOf(s) = Disconnected
    <3>1. UNCHANGED <<waiting_messages, received, discarded, failed, drained, current>>
      BY <1>11, <2>1, <1>d DEF FlushRead, Connected, Lost, inputVars, senderVars
    <3>2. \A n \in 1..current[s] : Undecided(s, n)' <=> Undecided(s, n)
      BY <1>11, <1>v, <1>k, <1>n, <3>1, <2>1, <1>d DEF FlushRead, Connected, Lost, senderVars, Undecided, SenderOK, UsesImmediate
    <3> QED BY <3>1, <3>2 DEF Stays
  <2>2. CASE TargetOf(s) = Discard
    <3>1. UNCHANGED <<received, drained, current>> /\ current[s] \in 1..MaxMessages
      BY <1>11, <1>n DEF FlushRead, senderVars, Enqueue, inputVars
    <3>2. Undecided(s, current[s]) /\ ~Undecided(s, current[s])'
      BY <1>11, <1>v, <1>k, <1>n, <3>1, <2>2, <1>d DEF FlushRead, Connected, Lost, Undecided, SenderOK, UsesImmediate
    <3>3. \A n \in 1..current[s] : n # current[s] => (Undecided(s, n)' <=> Undecided(s, n))
      BY <1>11, <1>v, <1>k, <1>n, <3>1, <2>2, <1>d DEF FlushRead, Connected, Lost, Undecided, SenderOK, UsesImmediate
    <3>4. LeavesForGood(s)
      BY <1>11, <1>k, <1>n, <2>2, <1>d DEF FlushRead, Connected, Lost, LeavesForGood, Returned, Message, SenderOK, inputVars
    <3> QED BY <3>1, <3>2, <3>3, <3>4 DEF Leaves
  <2>3. CASE Connected(s)
    <3>1. UNCHANGED <<waiting_messages, received, discarded, failed, drained, current>>
      BY <1>11, <2>3, <1>d DEF FlushRead, Connected, Lost, inputVars, senderVars
    <3>2. \A n \in 1..current[s] : Undecided(s, n)' <=> Undecided(s, n)
      BY <1>11, <1>v, <1>k, <1>n, <3>1, <2>3, <1>d DEF FlushRead, Connected, Lost, senderVars, Undecided, SenderOK, UsesImmediate
    <3> QED BY <3>1, <3>2 DEF Stays
  <2>4. CASE Lost(s)
    <3>1. UNCHANGED <<waiting_messages, received, discarded, failed, drained, current>>
      BY <1>11, <2>4, <1>d DEF FlushRead, Connected, Lost, inputVars, senderVars
    <3>2. \A n \in 1..current[s] : Undecided(s, n)' <=> Undecided(s, n)
      BY <1>11, <1>v, <1>k, <1>n, <3>1, <2>4, <1>d DEF FlushRead, Connected, Lost, senderVars, Undecided, SenderOK, UsesImmediate
    <3> QED BY <3>1, <3>2 DEF Stays
  <2> QED BY <1>11, <2>1, <2>2, <2>3, <2>4 DEF FlushRead
<1>12. CASE FlushQueued(s)
  <2>1. UNCHANGED <<received, drained, current>> /\ current[s] \in 1..MaxMessages
    BY <1>12, <1>n DEF FlushQueued, senderVars, Enqueue, inputVars
  <2>2. Undecided(s, current[s]) /\ ~Undecided(s, current[s])'
    BY <1>12, <1>v, <1>k, <1>n, <2>1 DEF FlushQueued, SinkAfterFlush, Undecided, SenderOK, UsesImmediate
  <2>3. \A n \in 1..current[s] : n # current[s] => (Undecided(s, n)' <=> Undecided(s, n))
    BY <1>12, <1>v, <1>k, <1>n, <2>1 DEF FlushQueued, SinkAfterFlush, Undecided, SenderOK, UsesImmediate
  <2>4. via[s] \in Inputs
    BY <1>12, MessageTypes DEF FlushQueued, Shape
  <2>5. LeavesForQueue(s, via[s])
    BY <1>12, <1>k, <1>n DEF FlushQueued, Enqueue, QueueAfterSend, LeavesForQueue, Message, SenderOK
  <2> QED BY <2>1, <2>2, <2>3, <2>4, <2>5 DEF Leaves
<1>13. CASE FlushRefused(s)
  <2>1. CASE closed[via[s]] \/ waiting_for_idle[via[s]] > 0
    <3>1. UNCHANGED <<received, drained, current>> /\ current[s] \in 1..MaxMessages
      BY <1>13, <1>n DEF FlushRefused, senderVars, Enqueue, inputVars
    <3>2. Undecided(s, current[s]) /\ ~Undecided(s, current[s])'
      BY <1>13, <1>v, <1>k, <1>n, <3>1, <2>1 DEF FlushRefused, Undecided, SenderOK, UsesImmediate
    <3>3. \A n \in 1..current[s] : n # current[s] => (Undecided(s, n)' <=> Undecided(s, n))
      BY <1>13, <1>v, <1>k, <1>n, <3>1, <2>1 DEF FlushRefused, Undecided, SenderOK, UsesImmediate
    <3>4. LeavesForGood(s)
      BY <1>13, <1>k, <1>n, <2>1 DEF FlushRefused, LeavesForGood, Returned, Message, SenderOK, inputVars
    <3> QED BY <3>1, <3>2, <3>3, <3>4 DEF Leaves
  <2>2. CASE ~(closed[via[s]] \/ waiting_for_idle[via[s]] > 0)
    <3>1. UNCHANGED <<waiting_messages, received, discarded, failed, drained, current>>
      BY <1>13, <2>2 DEF FlushRefused, inputVars, senderVars
    <3>2. \A n \in 1..current[s] : Undecided(s, n)' <=> Undecided(s, n)
      BY <1>13, <1>v, <1>k, <1>n, <3>1, <2>2 DEF FlushRefused, senderVars, Undecided, SenderOK, UsesImmediate
    <3> QED BY <3>1, <3>2 DEF Stays
  <2> QED BY <2>1, <2>2
<1>14. CASE FlushRegister(s)
  <2>1. UNCHANGED <<waiting_messages, received, discarded, failed, drained, current>>
    BY <1>14 DEF FlushRegister, inputVars, senderVars
  <2>2. \A n \in 1..current[s] : Undecided(s, n)' <=> Undecided(s, n)
    BY <1>14, <1>v, <1>k, <2>1 DEF FlushRegister, senderVars, Undecided, SenderOK, UsesImmediate
  <2> QED BY <2>1, <2>2 DEF Stays
<1>15. CASE ImmediateRead(s)
  <2>1. CASE TargetOf(s) = Discard
    <3>1. UNCHANGED <<received, drained, current>> /\ current[s] \in 1..MaxMessages
      BY <1>15, <1>n DEF ImmediateRead, senderVars, Enqueue, inputVars
    <3>2. Undecided(s, current[s]) /\ ~Undecided(s, current[s])'
      BY <1>15, <1>v, <1>k, <1>n, <3>1, <2>1, <1>d DEF ImmediateRead, Connected, Lost, Undecided, SenderOK, UsesImmediate
    <3>3. \A n \in 1..current[s] : n # current[s] => (Undecided(s, n)' <=> Undecided(s, n))
      BY <1>15, <1>v, <1>k, <1>n, <3>1, <2>1, <1>d DEF ImmediateRead, Connected, Lost, Undecided, SenderOK, UsesImmediate
    <3>4. LeavesForGood(s)
      BY <1>15, <1>k, <1>n, <2>1, <1>d DEF ImmediateRead, Connected, Lost, LeavesForGood, Returned, Message, SenderOK, inputVars
    <3> QED BY <3>1, <3>2, <3>3, <3>4 DEF Leaves
  <2>2. CASE Connected(s)
    <3>1. UNCHANGED <<waiting_messages, received, discarded, failed, drained, current>>
      BY <1>15, <2>2, <1>d DEF ImmediateRead, Connected, Lost, inputVars, senderVars
    <3>2. \A n \in 1..current[s] : Undecided(s, n)' <=> Undecided(s, n)
      BY <1>15, <1>v, <1>k, <1>n, <3>1, <2>2, <1>d DEF ImmediateRead, Connected, Lost, senderVars, Undecided, SenderOK, UsesImmediate
    <3> QED BY <3>1, <3>2 DEF Stays
  <2>3. CASE (TargetOf(s) = Disconnected \/ Lost(s)) /\ attempt[s] < 3
    <3>1. UNCHANGED <<waiting_messages, received, discarded, failed, drained, current>>
      BY <1>15, <2>3, <1>d DEF ImmediateRead, Connected, Lost, inputVars, senderVars
    <3>2. \A n \in 1..current[s] : Undecided(s, n)' <=> Undecided(s, n)
      BY <1>15, <1>v, <1>k, <1>n, <3>1, <2>3, <1>d DEF ImmediateRead, Connected, Lost, senderVars, Undecided, SenderOK, UsesImmediate
    <3> QED BY <3>1, <3>2 DEF Stays
  <2>4. CASE (TargetOf(s) = Disconnected \/ Lost(s)) /\ ~(attempt[s] < 3)
    <3>1. UNCHANGED <<received, drained, current>> /\ current[s] \in 1..MaxMessages
      BY <1>15, <1>n DEF ImmediateRead, senderVars, Enqueue, inputVars
    <3>2. Undecided(s, current[s]) /\ ~Undecided(s, current[s])'
      BY <1>15, <1>v, <1>k, <1>n, <3>1, <2>4, <1>d DEF ImmediateRead, Connected, Lost, Undecided, SenderOK, UsesImmediate
    <3>3. \A n \in 1..current[s] : n # current[s] => (Undecided(s, n)' <=> Undecided(s, n))
      BY <1>15, <1>v, <1>k, <1>n, <3>1, <2>4, <1>d DEF ImmediateRead, Connected, Lost, Undecided, SenderOK, UsesImmediate
    <3>4. LeavesForGood(s)
      BY <1>15, <1>k, <1>n, <2>4, <1>d DEF ImmediateRead, Connected, Lost, LeavesForGood, Returned, Message, SenderOK, inputVars
    <3> QED BY <3>1, <3>2, <3>3, <3>4 DEF Leaves
  <2> QED BY <1>15, <2>1, <2>2, <2>3, <2>4 DEF ImmediateRead
<1>16. CASE ImmediateQueued(s)
  <2>1. UNCHANGED <<received, drained, current>> /\ current[s] \in 1..MaxMessages
    BY <1>16, <1>n DEF ImmediateQueued, senderVars, Enqueue, inputVars
  <2>2. Undecided(s, current[s]) /\ ~Undecided(s, current[s])'
    BY <1>16, <1>v, <1>k, <1>n, <2>1 DEF ImmediateQueued, Undecided, SenderOK, UsesImmediate
  <2>3. \A n \in 1..current[s] : n # current[s] => (Undecided(s, n)' <=> Undecided(s, n))
    BY <1>16, <1>v, <1>k, <1>n, <2>1 DEF ImmediateQueued, Undecided, SenderOK, UsesImmediate
  <2>4. via[s] \in Inputs
    BY <1>16, MessageTypes DEF ImmediateQueued, Shape
  <2>5. LeavesForQueue(s, via[s])
    BY <1>16, <1>k, <1>n DEF ImmediateQueued, Enqueue, QueueAfterSend, LeavesForQueue, Message, SenderOK
  <2> QED BY <2>1, <2>2, <2>3, <2>4, <2>5 DEF Leaves
<1>17. CASE ImmediateRefused(s)
  <2>1. CASE ~(attempt[s] < 3)
    <3>1. UNCHANGED <<received, drained, current>> /\ current[s] \in 1..MaxMessages
      BY <1>17, <1>n DEF ImmediateRefused, senderVars, Enqueue, inputVars
    <3>2. Undecided(s, current[s]) /\ ~Undecided(s, current[s])'
      BY <1>17, <1>v, <1>k, <1>n, <3>1, <2>1 DEF ImmediateRefused, Undecided, SenderOK, UsesImmediate
    <3>3. \A n \in 1..current[s] : n # current[s] => (Undecided(s, n)' <=> Undecided(s, n))
      BY <1>17, <1>v, <1>k, <1>n, <3>1, <2>1 DEF ImmediateRefused, Undecided, SenderOK, UsesImmediate
    <3>4. LeavesForGood(s)
      BY <1>17, <1>k, <1>n, <2>1 DEF ImmediateRefused, LeavesForGood, Returned, Message, SenderOK, inputVars
    <3> QED BY <3>1, <3>2, <3>3, <3>4 DEF Leaves
  <2>2. CASE ~(~(attempt[s] < 3))
    <3>1. UNCHANGED <<waiting_messages, received, discarded, failed, drained, current>>
      BY <1>17, <2>2 DEF ImmediateRefused, inputVars, senderVars
    <3>2. \A n \in 1..current[s] : Undecided(s, n)' <=> Undecided(s, n)
      BY <1>17, <1>v, <1>k, <1>n, <3>1, <2>2 DEF ImmediateRefused, senderVars, Undecided, SenderOK, UsesImmediate
    <3> QED BY <3>1, <3>2 DEF Stays
  <2> QED BY <2>1, <2>2
<1> QED BY <1>1, <1>2, <1>3, <1>4, <1>5, <1>6, <1>7, <1>8, <1>9, <1>10, <1>11, <1>12, <1>13, <1>14,
          <1>15, <1>16, <1>17 DEF SenderStep

\* Taking a message from the queue into what was received changes nothing overall.
LEMMA ReceiveMoves ==
  ASSUME NEW S, NEW r \in Seq(S), NEW q \in Seq(S), q # <<>>
  PROVE  Append(r, Head(q)) \o Tail(q) = r \o q
<1>1. Head(q) \in S /\ Tail(q) \in Seq(S)
  BY HeadTailProperties
<1>2. <<Head(q)>> \in Seq(S) /\ Append(r, Head(q)) = r \o <<Head(q)>>
  BY <1>1, AppendIsConcat
<1>3. (r \o <<Head(q)>>) \o Tail(q) = r \o (<<Head(q)>> \o Tail(q))
  BY <1>1, <1>2, ConcatAssociative
<1>4. <<Head(q)>> \o Tail(q) = q
  OBVIOUS
<1> QED BY <1>2, <1>3, <1>4

\* A message that is queued comes after all that were accepted.
LEMMA AcceptAppends ==
  ASSUME NEW S, NEW r \in Seq(S), NEW q \in Seq(S), NEW m \in S
  PROVE  r \o Append(q, m) = Append(r \o q, m)
<1>1. /\ Append(q, m) = q \o <<m>> /\ <<m>> \in Seq(S)
      /\ r \o q \in Seq(S) /\ Append(r \o q, m) = (r \o q) \o <<m>>
  BY AppendIsConcat, ConcatProperties
<1> QED BY <1>1, ConcatAssociative

\* What a queue holds after a message was put into it, ...
LEMMA RangeOfAppend ==
  ASSUME NEW S, NEW a \in Seq(S), NEW m \in S
  PROVE  Range(Append(a, m)) = Range(a) \cup {m}
<1>1. /\ Append(a, m) \in Seq(S) /\ Len(Append(a, m)) = Len(a) + 1
      /\ \A k \in 1..Len(a) : Append(a, m)[k] = a[k]
      /\ Append(a, m)[Len(a) + 1] = m
  BY AppendProperties
<1>2. DOMAIN a = 1..Len(a) /\ DOMAIN Append(a, m) = 1..Len(a) + 1 /\ Len(a) \in Nat
  BY <1>1, LenProperties
<1> QED BY <1>1, <1>2 DEF Range

\* ... and what two sequences hold together.
LEMMA RangeOfConcat ==
  ASSUME NEW S, NEW r \in Seq(S), NEW q \in Seq(S)
  PROVE  Range(r \o q) = Range(r) \cup Range(q)
<1>1. /\ r \o q \in Seq(S) /\ Len(r \o q) = Len(r) + Len(q)
      /\ \A k \in 1..Len(r) + Len(q) : (r \o q)[k] = IF k <= Len(r) THEN r[k] ELSE q[k - Len(r)]
  BY ConcatProperties
<1>2. /\ DOMAIN r = 1..Len(r) /\ DOMAIN q = 1..Len(q) /\ DOMAIN (r \o q) = 1..Len(r) + Len(q)
      /\ Len(r) \in Nat /\ Len(q) \in Nat
  BY <1>1, LenProperties
<1>3. ASSUME NEW x \in Range(r \o q) PROVE x \in Range(r) \cup Range(q)
  <2>1. PICK k \in 1..Len(r) + Len(q) : x = (r \o q)[k]
    BY <1>2, <1>3 DEF Range
  <2>2. CASE k <= Len(r)
    BY <1>1, <1>2, <2>1, <2>2 DEF Range
  <2>3. CASE ~(k <= Len(r))
    <3>1. k - Len(r) \in 1..Len(q)
      BY <1>2, <2>3
    <3> QED BY <1>1, <1>2, <2>1, <2>3, <3>1 DEF Range
  <2> QED BY <2>2, <2>3
<1>4. ASSUME NEW x \in Range(r) PROVE x \in Range(r \o q)
  <2>1. PICK k \in 1..Len(r) : x = r[k]
    BY <1>2, <1>4 DEF Range
  <2>2. k \in 1..Len(r) + Len(q) /\ k <= Len(r)
    BY <1>2
  <2> QED BY <1>1, <1>2, <2>1, <2>2 DEF Range
<1>5. ASSUME NEW x \in Range(q) PROVE x \in Range(r \o q)
  <2>1. PICK k \in 1..Len(q) : x = q[k]
    BY <1>2, <1>5 DEF Range
  <2>2. k + Len(r) \in 1..Len(r) + Len(q) /\ ~(k + Len(r) <= Len(r)) /\ (k + Len(r)) - Len(r) = k
    BY <1>2
  <2>3. (r \o q)[k + Len(r)] = x
    BY <1>1, <2>1, <2>2
  <2> QED BY <1>2, <2>2, <2>3 DEF Range
<1> QED BY <1>3, <1>4, <1>5

\* What an input has taken: what its reader took out, and what is still queued.
LEMMA AcceptedTypes ==
  ASSUME TypeOK, NEW i \in Inputs
  PROVE  /\ received[i] \in Seq(Messages) /\ waiting_messages[i] \in Seq(Messages)
         /\ Accepted(i) \in Seq(Messages) /\ DOMAIN Accepted(i) = 1..Len(Accepted(i)) /\ Len(Accepted(i)) \in Nat
         /\ Range(Accepted(i)) = Range(received[i]) \cup Range(waiting_messages[i])
<1>1. received[i] \in Seq(Messages) /\ waiting_messages[i] \in Seq(Messages)
  BY DEF TypeOK
<1>2. Accepted(i) \in Seq(Messages)
  BY <1>1, ConcatProperties DEF Accepted
<1>3. Range(Accepted(i)) = Range(received[i]) \cup Range(waiting_messages[i])
  BY <1>1, RangeOfConcat DEF Accepted
<1> QED BY <1>1, <1>2, <1>3, LenProperties

PlacesOK == AllInPlace /\ NothingEarly /\ MessagesInOrder

\* Where a message is is all that counts.
LEMMA SamePlace ==
  ASSUME NEW t, NEW n,
         TakenAt(<<t, n>>)' = TakenAt(<<t, n>>),
         <<t, n>> \in discarded' <=> <<t, n>> \in discarded,
         <<t, n>> \in failed' <=> <<t, n>> \in failed,
         <<t, n>> \in drained' <=> <<t, n>> \in drained,
         Undecided(t, n)' <=> Undecided(t, n),
         InPlace(t, n)
  PROVE  InPlace(t, n)'
<1> DEFINE m == <<t, n>>
           T == TakenAt(m)
           O == m \in discarded
           E == m \in failed
           G == m \in drained
           U == Undecided(t, n)
<1>1. T' = T /\ (O' <=> O) /\ (E' <=> E) /\ (G' <=> G) /\ (U' <=> U)
  OBVIOUS
<1>2. /\ InPlace(t, n) <=>
            \/ /\ T = {}
               /\ \/ O /\ ~E /\ ~G /\ ~U
                  \/ ~O /\ E /\ ~G /\ ~U
                  \/ ~O /\ ~E /\ G /\ ~U
                  \/ ~O /\ ~E /\ ~G /\ U
            \/ (\E i \in Inputs : T = {i}) /\ ~O /\ ~E /\ ~G /\ ~U
      /\ InPlace(t, n)' <=>
            \/ /\ T' = {}
               /\ \/ O' /\ ~E' /\ ~G' /\ ~U'
                  \/ ~O' /\ E' /\ ~G' /\ ~U'
                  \/ ~O' /\ ~E' /\ G' /\ ~U'
                  \/ ~O' /\ ~E' /\ ~G' /\ U'
            \/ (\E i \in Inputs : T' = {i}) /\ ~O' /\ ~E' /\ ~G' /\ ~U'
  BY DEF InPlace
<1> HIDE DEF T, O, E, G, U
<1> QED BY <1>1, <1>2

\* The senders that do not act have their messages where they were, and those they have.
LEMMA OthersStay ==
  ASSUME Shape, NEW s \in Senders, BeginSend(s) \/ PollSender(s) \/ SenderStep(s), NEW t \in Senders, t # s
  PROVE  current'[t] = current[t] /\ \A n : Undecided(t, n)' <=> Undecided(t, n)
  BY SenderFrame DEF Undecided

\* The message that a sender has in hand is nowhere else, and all others from it came before.
LEMMA InHandIsNowhere ==
  ASSUME Shape, PlacesOK, NEW s \in Senders, current[s] \in 1..MaxMessages, Undecided(s, current[s])
  PROVE  /\ TakenAt(Message(s)) = {} /\ Message(s) \in Messages
         /\ Message(s) \notin discarded \cup failed \cup drained
         /\ \A i \in Inputs : \A n : <<s, n>> \in Range(Accepted(i)) => n < current[s]
<1>1. current[s] \in 1..current[s] /\ current[s] \in Nat
  OBVIOUS
<1>2. InPlace(s, current[s])
  BY <1>1 DEF PlacesOK, AllInPlace
<1>3. TakenAt(Message(s)) = {} /\ Message(s) \notin discarded \cup failed \cup drained
  BY <1>2 DEF InPlace, Message
<1>4. ASSUME NEW i \in Inputs, NEW n, <<s, n>> \in Range(Accepted(i)) PROVE n < current[s]
  <2>1. <<s, n>> \in Messages
    BY <1>4, AcceptedTypes DEF Range, Shape
  <2>2. n \in 1..MaxMessages /\ MaxMessages \in Nat
    BY <2>1, StreamAssumption DEF Messages
  <2>3. i \in TakenAt(<<s, n>>)
    BY <1>4 DEF TakenAt
  <2>4. n # current[s]
    BY <1>3, <2>3 DEF Message
  <2>5. ~(n \in current[s] + 1 .. MaxMessages)
    BY <2>3 DEF PlacesOK, NothingEarly
  <2> QED BY <1>1, <2>2, <2>4, <2>5
<1> QED BY <1>3, <1>4 DEF Message, Messages

\* If the inputs have taken the same, what they took is in the same order and places.
LEMMA SameAccepted ==
  ASSUME UNCHANGED <<waiting_messages, received>>
  PROVE  /\ \A i \in Inputs : Accepted(i)' = Accepted(i)
         /\ \A m : TakenAt(m)' = TakenAt(m)
         /\ MessagesInOrder => MessagesInOrder'
<1>1. \A i : Accepted(i)' = Accepted(i)
  BY DEF Accepted
<1>2. ASSUME NEW m PROVE TakenAt(m)' = TakenAt(m)
  BY <1>1 DEF TakenAt
<1>3. MessagesInOrder => MessagesInOrder'
  BY <1>1 DEF MessagesInOrder
<1> QED BY <1>1, <1>2, <1>3

\* Steps of a sender that move none of its messages.
LEMMA StaysKeepsPlaces ==
  ASSUME Shape, PlacesOK, NEW s \in Senders, BeginSend(s) \/ PollSender(s) \/ SenderStep(s), Stays(s)
  PROVE  PlacesOK'
<1>1. UNCHANGED <<waiting_messages, received, discarded, failed, drained, current>>
  BY DEF Stays
<1>2. /\ \A m : TakenAt(m)' = TakenAt(m)
      /\ MessagesInOrder'
  BY <1>1, SameAccepted DEF PlacesOK
<1>3. \A t \in Senders : \A n \in 1..current[t] : Undecided(t, n)' <=> Undecided(t, n)
  BY OthersStay DEF Stays
<1>4. ASSUME NEW t \in Senders, NEW n \in 1..current[t] PROVE InPlace(t, n)'
  <2>1. InPlace(t, n)
    BY DEF PlacesOK, AllInPlace
  <2> QED BY <1>1, <1>2, <1>3, <2>1, SamePlace
<1>5. AllInPlace'
  BY <1>1, <1>4 DEF AllInPlace
<1>6. NothingEarly'
  BY <1>1, <1>2 DEF PlacesOK, NothingEarly
<1> QED BY <1>2, <1>5, <1>6 DEF PlacesOK

\* A message that a sender begins with is in its hands only.
LEMMA BeginsKeepsPlaces ==
  ASSUME Shape, PlacesOK, NEW s \in Senders, BeginSend(s) \/ PollSender(s) \/ SenderStep(s), Begins(s)
  PROVE  PlacesOK'
<1> PICK c : c = current[s] + 1
  OBVIOUS
<1>1. /\ UNCHANGED <<waiting_messages, received, discarded, failed, drained>>
      /\ current' = [current EXCEPT ![s] = c] /\ DOMAIN current = Senders
      /\ current[s] \in Nat /\ c \in 1..MaxMessages /\ MaxMessages \in Nat
  <2>1. current \in [Senders -> 0..MaxMessages] /\ MaxMessages \in Nat
    BY StreamAssumption DEF Shape, TypeOK
  <2>2. current' = [current EXCEPT ![s] = c] /\ current'[s] \in 1..MaxMessages
    BY DEF Begins
  <2> QED BY <2>1, <2>2 DEF Begins
<1>2. /\ \A m : TakenAt(m)' = TakenAt(m)
      /\ MessagesInOrder'
  BY <1>1, SameAccepted DEF PlacesOK
<1>3. Undecided(s, c)'
  BY <1>1 DEF Begins, Undecided
<1>4. \A t \in Senders : \A n \in 1..current[t] : Undecided(t, n)' <=> Undecided(t, n)
  BY OthersStay DEF Begins
<1>5. ASSUME NEW t \in Senders, NEW n \in 1..current[t] PROVE InPlace(t, n)'
  <2>1. InPlace(t, n)
    BY DEF PlacesOK, AllInPlace
  <2> QED BY <1>1, <1>2, <1>4, <2>1, SamePlace
<1>6. InPlace(s, c)'
  <2>1. TakenAt(<<s, c>>) = {} /\ <<s, c>> \notin discarded \cup failed \cup drained
    <3>1. c \in current[s] + 1 .. MaxMessages
      BY <1>1
    <3> QED BY <3>1 DEF PlacesOK, NothingEarly
  <2> QED BY <1>1, <1>2, <1>3, <2>1 DEF InPlace
<1>7. ASSUME NEW t \in Senders, NEW n \in 1..current'[t] PROVE InPlace(t, n)'
  <2>1. CASE t # s
    BY <1>1, <1>5, <2>1
  <2>2. CASE t = s
    <3>1. n \in 1..current[s] \/ n = c
      BY <1>1, <2>2
    <3> QED BY <1>5, <1>6, <2>2, <3>1
  <2> QED BY <2>1, <2>2
<1>8. ASSUME NEW t \in Senders, NEW n \in current'[t] + 1 .. MaxMessages
      PROVE  n \in current[t] + 1 .. MaxMessages
  <2>1. CASE t # s
    BY <1>1, <2>1
  <2>2. CASE t = s
    BY <1>1, <2>2
  <2> QED BY <2>1, <2>2
<1>9. NothingEarly'
  BY <1>1, <1>2, <1>8 DEF PlacesOK, NothingEarly
<1> QED BY <1>2, <1>7, <1>9 DEF PlacesOK, AllInPlace

\* A message that is discarded or returned is nowhere else.
LEMMA LeavesForGoodKeepsPlaces ==
  ASSUME Shape, PlacesOK, NEW s \in Senders, BeginSend(s) \/ PollSender(s) \/ SenderStep(s),
         Leaves(s), LeavesForGood(s)
  PROVE  PlacesOK'
<1> DEFINE m == Message(s)
<1>1. /\ UNCHANGED <<waiting_messages, received, drained, current>>
      /\ current[s] \in 1..MaxMessages /\ Undecided(s, current[s]) /\ ~Undecided(s, current[s])'
      /\ \/ discarded' = discarded \cup {m} /\ failed' = failed
         \/ failed' = failed \cup {m} /\ discarded' = discarded
  BY DEF Leaves, LeavesForGood
<1>2. /\ \A x : TakenAt(x)' = TakenAt(x)
      /\ MessagesInOrder'
  BY <1>1, SameAccepted DEF PlacesOK
<1>3. TakenAt(m) = {} /\ m \notin discarded \cup failed \cup drained
  BY <1>1, InHandIsNowhere
<1>4. ASSUME NEW t \in Senders, NEW n \in 1..current[t], ~(t = s /\ n = current[s])
      PROVE  <<t, n>> # m /\ (Undecided(t, n)' <=> Undecided(t, n))
  BY <1>4, OthersStay DEF Leaves, Message
<1>5. InPlace(s, current[s])'
  BY <1>1, <1>2, <1>3 DEF InPlace, Message
<1>6. ASSUME NEW t \in Senders, NEW n \in 1..current[t] PROVE InPlace(t, n)'
  <2>1. CASE t = s /\ n = current[s]
    BY <1>1, <1>5, <2>1
  <2>2. CASE ~(t = s /\ n = current[s])
    <3>1. InPlace(t, n)
      BY DEF PlacesOK, AllInPlace
    <3>2. <<t, n>> # m /\ (Undecided(t, n)' <=> Undecided(t, n))
      BY <1>4, <2>2
    <3>3. /\ <<t, n>> \in discarded' <=> <<t, n>> \in discarded
          /\ <<t, n>> \in failed' <=> <<t, n>> \in failed
      BY <1>1, <3>2
    <3> QED BY <1>1, <1>2, <3>1, <3>2, <3>3, SamePlace
  <2> QED BY <2>1, <2>2
<1>7. ASSUME NEW t \in Senders, NEW n \in current[t] + 1 .. MaxMessages
      PROVE  <<t, n>> # m
  BY <1>1 DEF Message
<1>8. NothingEarly'
  BY <1>1, <1>2, <1>7 DEF PlacesOK, NothingEarly
<1> QED BY <1>1, <1>2, <1>6, <1>8 DEF PlacesOK, AllInPlace

\* A message that is queued comes after all that the input has taken from its sender.
LEMMA OrderKept ==
  ASSUME Shape, PlacesOK, NEW s \in Senders, current[s] \in 1..MaxMessages, Undecided(s, current[s]),
         NEW i \in Inputs, NEW j, NEW k, NEW a,
         a = Append(Accepted(i), Message(s)), j \in DOMAIN a, k \in DOMAIN a, j < k, a[j][1] = a[k][1]
  PROVE  a[j][2] < a[k][2]
<1> DEFINE b == Accepted(i)
<1>1. b \in Seq(Messages) /\ Message(s) \in Messages
  BY AcceptedTypes, InHandIsNowhere DEF Shape
<1>2. /\ Len(a) = Len(b) + 1 /\ DOMAIN a = 1..Len(a) /\ DOMAIN b = 1..Len(b) /\ Len(b) \in Nat
      /\ \A x \in 1..Len(b) : a[x] = b[x] /\ b[x] \in Messages
      /\ a[Len(b) + 1] = Message(s)
  <2> HIDE DEF b
  <2>1. /\ a \in Seq(Messages) /\ Len(a) = Len(b) + 1 /\ \A x \in 1..Len(b) : a[x] = b[x]
        /\ a[Len(b) + 1] = Message(s)
    BY <1>1, AppendProperties DEF b
  <2>2. \A x \in 1..Len(b) : b[x] \in Messages
    BY <1>1, ElementOfSeq
  <2> QED BY <1>1, <2>1, <2>2, LenProperties
<1>3. CASE k \in 1..Len(b)
  <2>1. j \in 1..Len(b)
    BY <1>2, <1>3
  <2>2. b[j][1] = b[k][1] => b[j][2] < b[k][2]
    BY <1>2, <1>3, <2>1 DEF PlacesOK, MessagesInOrder
  <2> QED BY <1>2, <1>3, <2>1, <2>2
<1>4. CASE k = Len(b) + 1
  <2>1. j \in 1..Len(b)
    BY <1>2, <1>4
  <2>2. b[j] \in Messages /\ a[j] = b[j] /\ a[k] = <<s, current[s]>>
    BY <1>2, <1>4, <2>1 DEF Message
  <2>3. b[j] = <<s, b[j][2]>>
    BY <2>2 DEF Messages
  <2>4. <<s, b[j][2]>> \in Range(Accepted(i))
    BY <1>2, <2>1, <2>3 DEF Range
  <2>5. b[j][2] < current[s]
    BY <2>4, InHandIsNowhere
  <2> QED BY <2>2, <2>5
<1> QED BY <1>2, <1>3, <1>4

\* A message that is queued is with that input only, and last.
LEMMA LeavesForQueueKeepsPlaces ==
  ASSUME Shape, PlacesOK, NEW s \in Senders, BeginSend(s) \/ PollSender(s) \/ SenderStep(s),
         Leaves(s), NEW i \in Inputs, LeavesForQueue(s, i)
  PROVE  PlacesOK'
<1> DEFINE m == Message(s)
<1>1. /\ UNCHANGED <<received, discarded, failed, drained, current>>
      /\ current[s] \in 1..MaxMessages /\ Undecided(s, current[s]) /\ ~Undecided(s, current[s])'
      /\ waiting_messages' = [waiting_messages EXCEPT ![i] = Append(@, m)]
  BY DEF Leaves, LeavesForQueue
<1>2. /\ TakenAt(m) = {} /\ m \in Messages
      /\ m \notin discarded \cup failed \cup drained
  BY <1>1, InHandIsNowhere
<1>3. Accepted(i)' = Append(Accepted(i), m)
  <2>1. received[i] \in Seq(Messages) /\ waiting_messages[i] \in Seq(Messages)
    BY AcceptedTypes DEF Shape
  <2>2. received'[i] = received[i] /\ waiting_messages'[i] = Append(waiting_messages[i], m)
    BY <1>1 DEF Shape, TypeOK
  <2>3. received[i] \o Append(waiting_messages[i], m) = Append(received[i] \o waiting_messages[i], m)
    <3> DEFINE r == received[i]
               q == waiting_messages[i]
               M == Messages
    <3>1. r \in Seq(M) /\ q \in Seq(M) /\ m \in M
      BY <1>2, <2>1
    <3> HIDE DEF m, r, q, M
    <3>2. r \o Append(q, m) = Append(r \o q, m)
      BY <3>1, AcceptAppends
    <3> QED BY <3>2 DEF r, q
  <2> QED BY <2>2, <2>3 DEF Accepted
<1>4. Range(Accepted(i))' = Range(Accepted(i)) \cup {m}
  <2>1. Accepted(i) \in Seq(Messages)
    BY AcceptedTypes DEF Shape
  <2> HIDE DEF m
  <2> QED BY <1>2, <1>3, <2>1, RangeOfAppend
<1>5. \A j \in Inputs : j # i => Accepted(j)' = Accepted(j)
  <2>1. DOMAIN waiting_messages = Inputs
    BY DEF Shape, TypeOK
  <2> QED BY <1>1, <2>1 DEF Accepted
<1>6. ASSUME NEW x PROVE TakenAt(x)' = IF x = m THEN {i} ELSE TakenAt(x)
  <2>1. TakenAt(x)' = {j \in Inputs : x \in Range(Accepted(j))'}
    BY DEF TakenAt
  <2>2. \A j \in Inputs : j # i => Range(Accepted(j))' = Range(Accepted(j))
    BY <1>5
  <2>3. \A j \in Inputs : x = m => x \notin Range(Accepted(j))
    BY <1>2 DEF TakenAt
  <2> HIDE DEF m
  <2> QED BY <1>4, <2>1, <2>2, <2>3 DEF TakenAt
<1>7. ASSUME NEW t \in Senders, NEW n \in 1..current[t], ~(t = s /\ n = current[s])
      PROVE  <<t, n>> # m /\ (Undecided(t, n)' <=> Undecided(t, n))
  BY <1>7, OthersStay DEF Leaves, Message
<1>8. InPlace(s, current[s])'
  BY <1>1, <1>2, <1>6 DEF InPlace, Message
<1>9. ASSUME NEW t \in Senders, NEW n \in 1..current[t] PROVE InPlace(t, n)'
  <2>1. CASE t = s /\ n = current[s]
    BY <1>1, <1>8, <2>1
  <2>2. CASE ~(t = s /\ n = current[s])
    <3>1. InPlace(t, n)
      BY DEF PlacesOK, AllInPlace
    <3>2. <<t, n>> # m /\ (Undecided(t, n)' <=> Undecided(t, n))
      BY <1>7, <2>2
    <3> QED BY <1>1, <1>6, <3>1, <3>2, SamePlace
  <2> QED BY <2>1, <2>2
<1>10. ASSUME NEW t \in Senders, NEW n \in current[t] + 1 .. MaxMessages
       PROVE  <<t, n>> # m
  BY <1>1 DEF Message
<1>11. NothingEarly'
  BY <1>1, <1>6, <1>10 DEF PlacesOK, NothingEarly
<1>12. MessagesInOrder'
  <2> SUFFICES ASSUME NEW h \in Inputs, NEW j \in DOMAIN Accepted(h)', NEW k \in DOMAIN Accepted(h)',
                      j < k, Accepted(h)'[j][1] = Accepted(h)'[k][1]
               PROVE  Accepted(h)'[j][2] < Accepted(h)'[k][2]
    BY DEF MessagesInOrder
  <2>1. CASE h = i
    BY <1>1, <1>3, <2>1, OrderKept
  <2>2. CASE h # i
    BY <1>5, <2>2 DEF PlacesOK, MessagesInOrder
  <2> QED BY <2>1, <2>2
<1> QED BY <1>1, <1>9, <1>11, <1>12 DEF PlacesOK, AllInPlace

\* The reader takes a message out: the input still has it.
LEMMA ReceivingKeepsPlaces ==
  ASSUME Shape, PlacesOK, NEW i \in Inputs, PollNextMessage(i)
  PROVE  PlacesOK'
<1>1. /\ UNCHANGED <<discarded, failed, drained, current, pc, waiting_message>>
      /\ received' = [received EXCEPT ![i] = Append(@, Head(waiting_messages[i]))]
      /\ waiting_messages' = [waiting_messages EXCEPT ![i] = Tail(@)]
      /\ waiting_messages[i] # <<>>
  BY DEF PollNextMessage, senderVars, sinkVars
<1>2. DOMAIN received = Inputs /\ DOMAIN waiting_messages = Inputs
  BY DEF Shape, TypeOK
<1>3. Accepted(i)' = Accepted(i)
  <2> DEFINE r == received[i]
             q == waiting_messages[i]
             M == Messages
  <2>1. r \in Seq(M) /\ q \in Seq(M)
    BY AcceptedTypes DEF Shape
  <2>2. Accepted(i)' = Append(r, Head(q)) \o Tail(q) /\ q # <<>>
    BY <1>1, <1>2 DEF Accepted
  <2> HIDE DEF r, q, M
  <2>3. Append(r, Head(q)) \o Tail(q) = r \o q
    BY <2>1, <2>2, ReceiveMoves
  <2> QED BY <2>2, <2>3 DEF r, q, Accepted
<1>4. \A j \in Inputs : Accepted(j)' = Accepted(j)
  BY <1>1, <1>2, <1>3 DEF Accepted
<1>5. ASSUME NEW x PROVE TakenAt(x)' = TakenAt(x)
  BY <1>4 DEF TakenAt
<1>6. AllInPlace'
  <2> SUFFICES ASSUME NEW t \in Senders, NEW n \in 1..current[t] PROVE InPlace(t, n)'
    BY <1>1 DEF AllInPlace
  <2>1. InPlace(t, n)
    BY DEF PlacesOK, AllInPlace
  <2>2. Undecided(t, n)' <=> Undecided(t, n)
    BY <1>1 DEF Undecided
  <2> QED BY <1>1, <1>5, <2>1, <2>2, SamePlace
<1>7. NothingEarly'
  BY <1>1, <1>5 DEF PlacesOK, NothingEarly
<1>8. MessagesInOrder'
  BY <1>4 DEF PlacesOK, MessagesInOrder
<1> QED BY <1>6, <1>7, <1>8 DEF PlacesOK

\* No message is taken twice by an input: a later one from its sender has a later number.
LEMMA NeverTwice ==
  ASSUME Shape, PlacesOK, NEW i \in Inputs
  PROVE  Range(received[i]) \cap Range(waiting_messages[i]) = {}
<1> DEFINE r == received[i]
           q == waiting_messages[i]
           M == Messages
<1>1. r \in Seq(M) /\ q \in Seq(M)
  BY AcceptedTypes DEF Shape
<1>2. \A j, k \in DOMAIN (r \o q) : j < k /\ (r \o q)[j][1] = (r \o q)[k][1] => (r \o q)[j][2] < (r \o q)[k][2]
  BY DEF PlacesOK, MessagesInOrder, Accepted
<1>3. \A x \in M : x[2] \in Nat
  BY DEF Messages
<1> HIDE DEF r, q, M
<1> SUFFICES ASSUME NEW x \in Range(r), x \in Range(q) PROVE FALSE
  BY DEF r, q
<1>4. /\ r \o q \in Seq(M) /\ Len(r \o q) = Len(r) + Len(q)
      /\ \A k \in 1..Len(r) + Len(q) : (r \o q)[k] = IF k <= Len(r) THEN r[k] ELSE q[k - Len(r)]
      /\ DOMAIN r = 1..Len(r) /\ DOMAIN q = 1..Len(q) /\ Len(r) \in Nat /\ Len(q) \in Nat
  BY <1>1, ConcatProperties, LenProperties
<1>5. DOMAIN (r \o q) = 1..Len(r) + Len(q)
  BY <1>4, LenProperties
<1>6. PICK j \in 1..Len(r) : x = r[j]
  BY <1>4 DEF Range
<1>7. PICK k \in 1..Len(q) : x = q[k]
  BY <1>4 DEF Range
<1>8. /\ j \in 1..Len(r) + Len(q) /\ j <= Len(r)
      /\ k + Len(r) \in 1..Len(r) + Len(q) /\ ~(k + Len(r) <= Len(r)) /\ (k + Len(r)) - Len(r) = k
      /\ j < k + Len(r)
  BY <1>4
<1>9. (r \o q)[j] = x /\ (r \o q)[k + Len(r)] = x
  BY <1>4, <1>6, <1>7, <1>8
<1>10. x[2] < x[2]
  BY <1>2, <1>5, <1>8, <1>9
<1>11. x \in M
  BY <1>1, <1>6, ElementOfSeq
<1> QED BY <1>3, <1>10, <1>11

\* A stream that is dropped takes its queue with it, and nothing else.
LEMMA DroppingKeepsPlaces ==
  ASSUME Shape, PlacesOK, NEW i \in Inputs, DropStream(i), i \notin WithSources
  PROVE  PlacesOK'
<1>1. /\ UNCHANGED <<received, discarded, failed, current, pc, waiting_message>>
      /\ waiting_messages' = [waiting_messages EXCEPT ![i] = <<>>]
      /\ drained' = drained \cup Range(waiting_messages[i])
  BY DEF DropStream, senderVars, sinkVars
<1>2. DOMAIN waiting_messages = Inputs /\ received[i] \in Seq(Messages) /\ waiting_messages[i] \in Seq(Messages)
  BY DEF Shape, TypeOK
<1>3. Accepted(i)' = received[i]
  <2>1. Accepted(i)' = received[i] \o <<>>
    BY <1>1, <1>2 DEF Accepted
  <2> QED BY <1>2, <2>1, ConcatEmptySeq
<1>4. \A j \in Inputs : j # i => Accepted(j)' = Accepted(j)
  BY <1>1, <1>2 DEF Accepted
<1>5. Range(Accepted(i)) = Range(received[i]) \cup Range(waiting_messages[i])
  BY AcceptedTypes DEF Shape
<1>6. ASSUME NEW x PROVE TakenAt(x)' = IF x \in Range(waiting_messages[i]) THEN TakenAt(x) \ {i} ELSE TakenAt(x)
  <2>1. TakenAt(x)' = {j \in Inputs : x \in Range(Accepted(j))'}
    BY DEF TakenAt
  <2>2. \A j \in Inputs : j # i => Range(Accepted(j))' = Range(Accepted(j))
    BY <1>4
  <2>3. Range(Accepted(i))' = Range(received[i])
    BY <1>3
  <2>4. x \in Range(waiting_messages[i]) => x \notin Range(received[i])
    BY NeverTwice
  <2> QED BY <1>5, <2>1, <2>2, <2>3, <2>4 DEF TakenAt
<1>7. \A x \in Range(waiting_messages[i]) : i \in TakenAt(x)
  BY <1>5 DEF TakenAt
<1>8. AllInPlace'
  <2> SUFFICES ASSUME NEW t \in Senders, NEW n \in 1..current[t] PROVE InPlace(t, n)'
    BY <1>1 DEF AllInPlace
  <2>1. InPlace(t, n)
    BY DEF PlacesOK, AllInPlace
  <2>2. Undecided(t, n)' <=> Undecided(t, n)
    BY <1>1 DEF Undecided
  <2>3. CASE <<t, n>> \in Range(waiting_messages[i])
    <3>1. i \in TakenAt(<<t, n>>)
      BY <1>7, <2>3
    <3>2. /\ TakenAt(<<t, n>>) = {i} /\ ~Undecided(t, n)
          /\ <<t, n>> \notin discarded /\ <<t, n>> \notin failed
      BY <2>1, <3>1 DEF InPlace
    <3>3. TakenAt(<<t, n>>)' = {} /\ <<t, n>> \in drained'
      BY <1>1, <1>6, <2>3, <3>2
    <3> QED BY <1>1, <2>2, <3>2, <3>3 DEF InPlace
  <2>4. CASE <<t, n>> \notin Range(waiting_messages[i])
    BY <1>1, <1>6, <2>1, <2>2, <2>4, SamePlace
  <2> QED BY <2>3, <2>4
<1>9. NothingEarly'
  <2> SUFFICES ASSUME NEW t \in Senders, NEW n \in current[t] + 1 .. MaxMessages
               PROVE  TakenAt(<<t, n>>)' = {} /\ <<t, n>> \notin discarded' \cup failed' \cup drained'
    BY <1>1 DEF NothingEarly
  <2>1. TakenAt(<<t, n>>) = {} /\ <<t, n>> \notin discarded \cup failed \cup drained
    BY DEF PlacesOK, NothingEarly
  <2>2. <<t, n>> \notin Range(waiting_messages[i])
    BY <1>7, <2>1
  <2> QED BY <1>1, <1>6, <2>1, <2>2
<1>10. MessagesInOrder'
  <2> SUFFICES ASSUME NEW h \in Inputs, NEW j \in DOMAIN Accepted(h)', NEW k \in DOMAIN Accepted(h)',
                      j < k, Accepted(h)'[j][1] = Accepted(h)'[k][1]
               PROVE  Accepted(h)'[j][2] < Accepted(h)'[k][2]
    BY DEF MessagesInOrder
  <2>1. CASE h = i
    <3> DEFINE r == received[i]
               q == waiting_messages[i]
               M == Messages
    <3>1. r \in Seq(M) /\ q \in Seq(M)
      BY <1>2
    <3>2. \A x, y \in DOMAIN (r \o q) :
            x < y /\ (r \o q)[x][1] = (r \o q)[y][1] => (r \o q)[x][2] < (r \o q)[y][2]
      BY DEF PlacesOK, MessagesInOrder, Accepted
    <3>3. /\ j \in DOMAIN r /\ k \in DOMAIN r /\ j < k /\ r[j][1] = r[k][1]
          /\ Accepted(h)' = r
      BY <1>3, <2>1
    <3> HIDE DEF r, q, M
    <3>4. /\ r \o q \in Seq(M) /\ Len(r \o q) = Len(r) + Len(q)
          /\ \A x \in 1..Len(r) + Len(q) : (r \o q)[x] = IF x <= Len(r) THEN r[x] ELSE q[x - Len(r)]
          /\ DOMAIN r = 1..Len(r) /\ Len(r) \in Nat /\ Len(q) \in Nat
      BY <3>1, ConcatProperties, LenProperties
    <3>5. DOMAIN (r \o q) = 1..Len(r) + Len(q)
      BY <3>4, LenProperties
    <3>6. \A x \in DOMAIN r : x \in DOMAIN (r \o q) /\ (r \o q)[x] = r[x]
      BY <3>4, <3>5
    <3>7. r[j][2] < r[k][2]
      BY <3>2, <3>3, <3>6
    <3> QED BY <3>3, <3>7
  <2>2. CASE h # i
    BY <1>4, <2>2 DEF PlacesOK, MessagesInOrder
  <2> QED BY <2>1, <2>2
<1> QED BY <1>8, <1>9, <1>10 DEF PlacesOK

\* Steps that move no message.
LEMMA NothingMoves ==
  ASSUME PlacesOK, UNCHANGED <<waiting_messages, received, discarded, failed, drained, current, pc, waiting_message>>
  PROVE  PlacesOK'
<1>1. (\A x : TakenAt(x)' = TakenAt(x)) /\ MessagesInOrder'
  BY SameAccepted DEF PlacesOK
<1>2. ASSUME NEW t \in Senders, NEW n \in 1..current[t] PROVE InPlace(t, n)'
  <2>1. InPlace(t, n) /\ (Undecided(t, n)' <=> Undecided(t, n))
    BY DEF PlacesOK, AllInPlace, Undecided
  <2> QED BY <1>1, <2>1, SamePlace
<1>3. AllInPlace' /\ NothingEarly'
  BY <1>1, <1>2 DEF PlacesOK, AllInPlace, NothingEarly
<1> QED BY <1>1, <1>3 DEF PlacesOK

\* Every step keeps the places, and the order.
LEMMA PlacesStep ==
  ASSUME Shape, PlacesOK, [Next]_vars
  PROVE  PlacesOK'
<1> USE DEF inputVars, sinkVars, senderVars, history
<1>1. CASE UNCHANGED vars
  BY <1>1, NothingMoves DEF vars
<1>2. ASSUME NEW s \in Senders, BeginSend(s) \/ PollSender(s) \/ SenderStep(s)
      PROVE  PlacesOK'
  BY <1>2, SenderEffects, StaysKeepsPlaces, BeginsKeepsPlaces, LeavesForGoodKeepsPlaces, LeavesForQueueKeepsPlaces
<1>3. ASSUME NEW i \in Inputs,
             \/ ReaderStep(i) \/ PollReader(i) \/ DropStream(i) \/ FinishReader(i)
             \/ Close(i) \/ Block(i) \/ Unblock(i) \/ WaitForIdle(i) \/ EndWaitForIdle(i)
      PROVE  PlacesOK'
  <2>1. CASE PollNextMessage(i)
    BY <2>1, ReceivingKeepsPlaces
  <2>2. CASE DropStream(i) /\ i \notin WithSources
    BY <2>2, DroppingKeepsPlaces
  <2>3. CASE DropStream(i) /\ i \in WithSources
    BY <2>3, NothingMoves DEF DropStream
  <2>4. CASE \/ PollNextClosed(i) \/ PollNextPending(i) \/ PollReader(i) \/ FinishReader(i) \/ Close(i)
             \/ Block(i) \/ Unblock(i) \/ WaitForIdle(i) \/ EndWaitForIdle(i)
    BY <2>4, NothingMoves DEF PollNextClosed, PollNextPending, PollReader, FinishReader, Close, Block,
         Unblock, WaitForIdle, EndWaitForIdle
  <2> QED BY <1>3, <2>1, <2>2, <2>3, <2>4 DEF ReaderStep
<1>4. ASSUME NEW c \in Cores, NEW t \in Targets, ChangeTarget(c, t)
      PROVE  PlacesOK'
  BY <1>4, NothingMoves DEF ChangeTarget
<1> QED BY <1>1, <1>2, <1>3, <1>4 DEF Next

\* In one place: the sum over the places is one.
LEMMA PlacesCount ==
  ASSUME AllInPlace
  PROVE  EveryMessageInOnePlace
<1> SUFFICES ASSUME NEW s \in Senders, NEW n \in 1..current[s]
             PROVE  Cardinality(TakenAt(<<s, n>>))
                      + CountIf(<<s, n>> \in discarded) + CountIf(<<s, n>> \in failed)
                      + CountIf(<<s, n>> \in drained) + CountIf(Undecided(s, n)) = 1
  BY DEF EveryMessageInOnePlace, TakenAt
<1>1. InPlace(s, n)
  BY DEF AllInPlace
<1>2. Cardinality({}) = 0 /\ \A i : Cardinality({i}) = 1
  BY FS_EmptySet, FS_Singleton
<1>3. CountIf(TRUE) = 1 /\ CountIf(FALSE) = 0
  BY DEF CountIf
<1>4. CASE TakenAt(<<s, n>>) = {}
  <2>1. Cardinality(TakenAt(<<s, n>>)) = 0
    BY <1>2, <1>4
  <2>2. ~\E i \in Inputs : TakenAt(<<s, n>>) = {i}
    BY <1>4
  <2> QED BY <1>1, <2>1, <2>2 DEF InPlace, CountIf
<1>5. CASE \E i \in Inputs : TakenAt(<<s, n>>) = {i}
  <2>1. Cardinality(TakenAt(<<s, n>>)) = 1
    BY <1>2, <1>5
  <2>2. TakenAt(<<s, n>>) # {}
    BY <1>5
  <2> QED BY <1>1, <2>1, <2>2 DEF InPlace, CountIf
<1> QED BY <1>1, <1>4, <1>5 DEF InPlace

----------------------------------------------------------------------------
(* Back-pressure. *)

\* The senders that do not overfill a queue, and their messages in q.
Polite == {s \in Senders : ~UsesImmediate(s)}
From(S, q) == {j \in DOMAIN q : q[j][1] \in S}

\* The messages of some senders in a queue are finitely many, no more than all.
LEMMA FromBound ==
  ASSUME NEW M, NEW q \in Seq(M), NEW S
  PROVE  IsFiniteSet(From(S, q)) /\ Cardinality(From(S, q)) \in Nat /\ Cardinality(From(S, q)) <= Len(q)
<1>1. DOMAIN q = 1..Len(q) /\ Len(q) \in Nat
  BY LenProperties
<1>2. IsFiniteSet(1..Len(q)) /\ Cardinality(1..Len(q)) = Len(q)
  BY <1>1, FS_Interval
<1>3. From(S, q) \in SUBSET (1..Len(q))
  BY <1>1 DEF From
<1>4. IsFiniteSet(From(S, q)) /\ Cardinality(From(S, q)) <= Cardinality(1..Len(q))
  BY <1>2, <1>3, FS_Subset
<1> QED BY <1>2, <1>4, FS_CardinalityType

\* Taking the first message away leaves no more of them, ...
LEMMA FromTail ==
  ASSUME NEW M, NEW q \in Seq(M), q # <<>>, NEW S
  PROVE  Cardinality(From(S, Tail(q))) <= Cardinality(From(S, q))
<1> DEFINE A == From(S, Tail(q))
           B == From(S, q)
           f == [j \in A |-> j + 1]
<1>1. /\ Tail(q) \in Seq(M) /\ Len(Tail(q)) = Len(q) - 1 /\ Len(q) \in Nat
      /\ \A j \in 1..Len(Tail(q)) : Tail(q)[j] = q[j + 1]
      /\ DOMAIN q = 1..Len(q) /\ DOMAIN Tail(q) = 1..Len(Tail(q))
  BY HeadTailProperties, LenProperties
<1>2. ASSUME NEW j \in A PROVE j \in Int /\ j + 1 \in B
  BY <1>1, <1>2 DEF From
<1>3. IsFiniteSet(B)
  BY FromBound
<1> HIDE DEF A, B
<1>4. f \in [A -> B]
  BY <1>2
<1>5. \A x, y \in A : f[x] = f[y] => x = y
  BY <1>2
<1>6. f \in Injection(A, B)
  BY <1>4, <1>5 DEF Injection, IsInjective
<1>7. Cardinality(A) <= Cardinality(B)
  BY <1>3, <1>6, FS_Injection
<1> QED BY <1>7 DEF A, B

\* ... nor does a message of somebody else make more.
LEMMA FromOther ==
  ASSUME NEW M, NEW q \in Seq(M), NEW m \in M, NEW S, m[1] \notin S
  PROVE  From(S, Append(q, m)) = From(S, q)
<1>1. /\ Append(q, m) \in Seq(M) /\ Len(Append(q, m)) = Len(q) + 1 /\ Len(q) \in Nat
      /\ \A k \in 1..Len(q) : Append(q, m)[k] = q[k]
      /\ Append(q, m)[Len(q) + 1] = m
      /\ DOMAIN q = 1..Len(q) /\ DOMAIN Append(q, m) = 1..Len(Append(q, m))
  BY AppendProperties, LenProperties
<1> QED BY <1>1 DEF From

\* Whoever sends immediately does so for ever.
LEMMA PoliteKept ==
  ASSUME Shape, [Next]_vars
  PROVE  Polite' = Polite
<1> USE DEF inputVars, sinkVars, senderVars, history
<1>1. ASSUME NEW s \in Senders, BeginSend(s) \/ PollSender(s) \/ SenderStep(s), NEW t \in Senders
      PROVE  UsesImmediate(t)' <=> UsesImmediate(t)
  <2>1. attempt \in [Senders -> 0..3]
    BY DEF Shape, TypeOK
  <2>2. CASE t # s
    BY <1>1, <2>2, SenderFrame DEF UsesImmediate
  <2>3. CASE t = s
    <3>1. CASE ImmediateRead(s) \/ ImmediateRefused(s)
      <4>1. UsesImmediate(s)
        BY <3>1 DEF ImmediateRead, ImmediateRefused, At, Shape, SenderShape, SenderOK
      <4>2. attempt'[s] = attempt[s] \/ attempt'[s] = attempt[s] + 1
        BY <2>1, <3>1 DEF ImmediateRead, ImmediateRefused
      <4> QED BY <2>1, <2>3, <4>1, <4>2 DEF UsesImmediate
    <3>2. CASE BeginSend(s)
      BY <2>1, <2>3, <3>2 DEF BeginSend, UsesImmediate
    <3>3. CASE ~(ImmediateRead(s) \/ ImmediateRefused(s) \/ BeginSend(s))
      <4>1. UNCHANGED attempt
        BY <1>1, <3>3 DEF PollSender, SenderStep, PollReadyWaits, PollReadyFails, PollReady, StartSend,
             PushQueued, PushRefused, WakeTarget, PollFlush, FlushRead, FlushQueued, FlushRefused, FlushRegister,
             ImmediateQueued
      <4> QED BY <4>1 DEF UsesImmediate
    <3> QED BY <3>1, <3>2, <3>3
  <2> QED BY <2>2, <2>3
<1>2. ASSUME NEW i \in Inputs,
             \/ ReaderStep(i) \/ PollReader(i) \/ DropStream(i) \/ FinishReader(i)
             \/ Close(i) \/ Block(i) \/ Unblock(i) \/ WaitForIdle(i) \/ EndWaitForIdle(i)
      PROVE  UNCHANGED attempt
  BY <1>2 DEF ReaderStep, PollNextMessage, PollNextClosed, PollNextPending, PollReader, DropStream,
       FinishReader, Close, Block, Unblock, WaitForIdle, EndWaitForIdle
<1>3. ASSUME NEW c \in Cores, NEW t \in Targets, ChangeTarget(c, t)
      PROVE  UNCHANGED attempt
  BY <1>3 DEF ChangeTarget
<1>4. \A t \in Senders : UsesImmediate(t)' <=> UsesImmediate(t)
  BY <1>1, <1>2, <1>3 DEF Next, vars, UsesImmediate
<1> QED BY <1>4 DEF Polite

\* Back-pressure, in terms of the polite senders.
QueueBounded(i) == Cardinality(From(Polite, waiting_messages[i])) <= MaxIdleLen + 1

\* BackPressure counts the messages of the polite senders.
LEMMA PoliteQueue ==
  ASSUME TypeOK
  PROVE  BackPressure <=> \A i \in Inputs : QueueBounded(i)
<1> SUFFICES ASSUME NEW i \in Inputs
             PROVE  {j \in DOMAIN waiting_messages[i] : ~UsesImmediate(waiting_messages[i][j][1])}
                      = From(Polite, waiting_messages[i])
  BY DEF BackPressure, QueueBounded
<1>1. waiting_messages[i] \in Seq(Messages)
  BY DEF TypeOK
<1>2. \A j \in DOMAIN waiting_messages[i] : waiting_messages[i][j] \in Messages
  BY <1>1
<1>3. \A j \in DOMAIN waiting_messages[i] : waiting_messages[i][j][1] \in Senders
  BY <1>2 DEF Messages
<1> QED BY <1>3 DEF From, Polite

\* A sender that finds a slot finds the queue no longer than its limit.
LEMMA SlotsAreLimited ==
  ASSUME TypeOK, NEW i \in Inputs, CanSend(i)
  PROVE  Len(waiting_messages[i]) <= MaxIdleLen
<1>1. MaxWaiting \in Nat /\ IdleQueueLen \in Nat
  BY StreamAssumption
<1>2. max_idle_queue_len[i] \in {MaxWaiting, MaxIdleLen} /\ Len(waiting_messages[i]) \in Nat
  BY DEF TypeOK
<1>3. MaxWaiting <= MaxIdleLen /\ MaxIdleLen \in Nat
  BY <1>1 DEF MaxIdleLen
<1>4. SlotLimit(i) <= MaxIdleLen /\ SlotLimit(i) \in Nat
  BY <1>1, <1>2, <1>3 DEF SlotLimit
<1>5. Len(waiting_messages[i]) <= SlotLimit(i)
  BY DEF CanSend
<1> QED BY <1>2, <1>3, <1>4, <1>5

\* A message that is queued in a free slot, or by an immediate sender, keeps the bound.
LEMMA EnqueueBounded ==
  ASSUME Shape, \A i \in Inputs : QueueBounded(i), Polite' = Polite,
         NEW i \in Inputs, NEW m \in Messages, Enqueue(i, m), CanSend(i) \/ m[1] \notin Polite
  PROVE  \A j \in Inputs : QueueBounded(j)'
<1>1. waiting_messages' = [waiting_messages EXCEPT ![i] = Append(@, m)] /\ waiting_messages \in [Inputs -> Seq(Messages)]
  BY DEF Enqueue, QueueAfterSend, Shape, TypeOK
<1>2. ASSUME NEW j \in Inputs, j # i PROVE QueueBounded(j)'
  BY <1>1, <1>2 DEF QueueBounded
<1>3. QueueBounded(i)'
  <2> DEFINE q == waiting_messages[i]
             M == Messages
             P == Polite
  <2>1. q \in Seq(M) /\ m \in M /\ MaxIdleLen \in Nat
    BY <1>1, StreamAssumption DEF MaxIdleLen
  <2>2. QueueBounded(i)' <=> Cardinality(From(P, Append(q, m))) <= MaxIdleLen + 1
    BY <1>1 DEF QueueBounded
  <2>3. Cardinality(From(P, q)) <= MaxIdleLen + 1
    BY DEF QueueBounded
  <2>4. CanSend(i) => Len(q) <= MaxIdleLen
    BY SlotsAreLimited DEF Shape
  <2>5. CanSend(i) \/ m[1] \notin P
    OBVIOUS
  <2> HIDE DEF q, M, P
  <2>6. CASE m[1] \notin P
    BY <2>1, <2>2, <2>3, <2>6, FromOther
  <2>7. CASE CanSend(i)
    <3>1. Append(q, m) \in Seq(M) /\ Len(Append(q, m)) = Len(q) + 1 /\ Len(q) \in Nat
      BY <2>1, AppendProperties, LenProperties
    <3>2. Cardinality(From(P, Append(q, m))) \in Nat /\ Cardinality(From(P, Append(q, m))) <= Len(Append(q, m))
      BY <3>1, FromBound
    <3> QED BY <2>1, <2>2, <2>4, <2>7, <3>1, <3>2
  <2> QED BY <2>5, <2>6, <2>7
<1> QED BY <1>2, <1>3

\* Every step keeps the bound.
LEMMA BackPressureStep ==
  ASSUME Shape, Shape', BackPressure, [Next]_vars
  PROVE  BackPressure'
<1> USE DEF inputVars, sinkVars, senderVars, history
<1>1. Polite' = Polite
  BY PoliteKept
<1>2. \A i \in Inputs : QueueBounded(i)
  BY PoliteQueue DEF Shape
<1>3. ASSUME UNCHANGED waiting_messages PROVE \A i \in Inputs : QueueBounded(i)'
  BY <1>1, <1>2, <1>3 DEF QueueBounded
<1>4. ASSUME NEW s \in Senders, BeginSend(s) \/ PollSender(s) \/ SenderStep(s)
      PROVE  \A i \in Inputs : QueueBounded(i)'
  <2>m. /\ pc[s] \notin {"start", "stopped"} => Message(s) \in Messages
        /\ waiting_message[s] # None => <<s, waiting_message[s]>> \in Messages
        /\ pc[s] \in {"push", "sent", "flush_push", "flush_register", "immediate_push"} => via[s] \in Inputs
        /\ pc[s] \in {"flush_read", "flush_push", "flush_register"} => waiting_message[s] # None
    BY MessageTypes DEF Shape
  <2>1. CASE PushQueued(s)
    BY <1>1, <1>2, <2>1, <2>m, EnqueueBounded DEF PushQueued, At
  <2>2. CASE FlushQueued(s)
    BY <1>1, <1>2, <2>2, <2>m, EnqueueBounded DEF FlushQueued, At
  <2>3. CASE ImmediateQueued(s)
    <3>1. UsesImmediate(s)
      BY <2>3 DEF ImmediateQueued, At, Shape, SenderShape, SenderOK
    <3>2. Message(s)[1] \notin Polite
      BY <3>1 DEF Polite, Message
    <3> QED BY <1>1, <1>2, <2>3, <2>m, <3>2, EnqueueBounded DEF ImmediateQueued, At
  <2>4. CASE ~(PushQueued(s) \/ FlushQueued(s) \/ ImmediateQueued(s))
    <3>1. UNCHANGED waiting_messages
      BY <1>4, <2>4 DEF BeginSend, PollSender, SenderStep, PollReadyWaits, PollReadyFails, PollReady, StartSend,
           PushRefused, WakeTarget, PollFlush, FlushRead, FlushRefused, FlushRegister,
           ImmediateRead, ImmediateRefused
    <3> QED BY <1>3, <3>1
  <2> QED BY <2>1, <2>2, <2>3, <2>4
<1>5. ASSUME NEW i \in Inputs,
             \/ ReaderStep(i) \/ PollReader(i) \/ DropStream(i) \/ FinishReader(i)
             \/ Close(i) \/ Block(i) \/ Unblock(i) \/ WaitForIdle(i) \/ EndWaitForIdle(i)
      PROVE  \A j \in Inputs : QueueBounded(j)'
  <2> DEFINE q == waiting_messages[i]
             M == Messages
             P == Polite
  <2>1. q \in Seq(M) /\ MaxIdleLen \in Nat /\ waiting_messages \in [Inputs -> Seq(M)]
    BY StreamAssumption DEF Shape, TypeOK, MaxIdleLen
  <2>2. \/ UNCHANGED waiting_messages
        \/ waiting_messages' = [waiting_messages EXCEPT ![i] = Tail(@)] /\ q # <<>>
        \/ waiting_messages' = [waiting_messages EXCEPT ![i] = <<>>]
    BY <1>5 DEF ReaderStep, PollNextMessage, PollNextClosed, PollNextPending, PollReader, DropStream,
         FinishReader, Close, Block, Unblock, WaitForIdle, EndWaitForIdle
  <2>3. CASE UNCHANGED waiting_messages
    BY <1>3, <2>3
  <2>4. CASE waiting_messages' = [waiting_messages EXCEPT ![i] = Tail(@)] /\ q # <<>>
    <3>1. \A j \in Inputs : waiting_messages'[j] = IF j = i THEN Tail(q) ELSE waiting_messages[j]
      BY <2>1, <2>4
    <3>2. /\ Cardinality(From(P, q)) <= MaxIdleLen + 1
          /\ q # <<>>
      BY <1>2, <2>4 DEF QueueBounded
    <3>3. Cardinality(From(P, Tail(q))) <= MaxIdleLen + 1
      <4> HIDE DEF q, P, M
      <4>1. /\ Cardinality(From(P, Tail(q))) <= Cardinality(From(P, q))
            /\ Cardinality(From(P, q)) \in Nat /\ Tail(q) \in Seq(M)
        BY <2>1, <3>2, FromTail, FromBound, HeadTailProperties
      <4>2. Cardinality(From(P, Tail(q))) \in Nat
        BY <4>1, FromBound
      <4> QED BY <2>1, <3>2, <4>1, <4>2
    <3> QED BY <1>1, <1>2, <3>1, <3>3 DEF QueueBounded
  <2>5. CASE waiting_messages' = [waiting_messages EXCEPT ![i] = <<>>]
    <3>1. \A j \in Inputs : waiting_messages'[j] = IF j = i THEN <<>> ELSE waiting_messages[j]
      BY <2>1, <2>5
    <3>2. From(P, <<>>) = {}
      BY DEF From
    <3>3. Cardinality(From(P, <<>>)) <= MaxIdleLen + 1
      <4>1. Cardinality({}) = 0
        BY FS_EmptySet
      <4>2. 0 <= MaxIdleLen + 1
        BY <2>1
      <4> QED BY <3>2, <4>1, <4>2
    <3> QED BY <1>1, <1>2, <3>1, <3>3 DEF QueueBounded
  <2> QED BY <2>2, <2>3, <2>4, <2>5
<1>6. ASSUME NEW c \in Cores, NEW t \in Targets, ChangeTarget(c, t)
      PROVE  UNCHANGED waiting_messages
  BY <1>6 DEF ChangeTarget
<1>7. \A i \in Inputs : QueueBounded(i)'
  BY <1>3, <1>4, <1>5, <1>6 DEF Next, vars
<1>8. ASSUME NEW i \in Inputs
      PROVE  {j \in DOMAIN waiting_messages'[i] : ~UsesImmediate(waiting_messages[i][j][1])'}
               = From(Polite, waiting_messages[i])'
  <2>1. waiting_messages'[i] \in Seq(Messages)
    BY DEF Shape, TypeOK
  <2>2. \A j \in DOMAIN waiting_messages'[i] : waiting_messages'[i][j] \in Messages
    BY <2>1
  <2>3. \A j \in DOMAIN waiting_messages'[i] : waiting_messages'[i][j][1] \in Senders
    BY <2>2 DEF Messages
  <2> QED BY <2>3 DEF From, Polite, UsesImmediate
<1> QED BY <1>7, <1>8 DEF BackPressure, QueueBounded, UsesImmediate

----------------------------------------------------------------------------
(* The senders' wake-ups. *)

SenderQuiet == SleepingSenderHasCause /\ SenderMissesNothing

\* What the steps of other senders leave to a sender.
LEMMA OthersKeepCores ==
  ASSUME Shape, SendersUndisturbed, NEW s \in Senders, BeginSend(s) \/ PollSender(s) \/ SenderStep(s),
         NEW t \in Senders, t # s
  PROVE  /\ TargetOf(t)' = TargetOf(t)
         /\ when_target_changed'[CoreOf[t]] = when_target_changed[CoreOf[t]]
<1>1. CoreOf[s] # CoreOf[t] /\ CoreOf[s] \in Cores /\ CoreOf[t] \in Cores
  BY StreamAssumption DEF SendersUndisturbed
<1>2. DOMAIN target = Cores /\ DOMAIN when_target_changed = Cores
  BY DEF Shape, TypeOK
<1>3. \A c \in Cores : c # CoreOf[s] =>
        target'[c] = target[c] /\ when_target_changed'[c] = when_target_changed[c]
  BY <1>2 DEF BeginSend, PollSender, SenderStep, PollReadyWaits, PollReadyFails, PollReady, StartSend,
         PushQueued, PushRefused, WakeTarget, PollFlush, FlushRead, FlushQueued, FlushRefused, FlushRegister,
         ImmediateRead, ImmediateQueued, ImmediateRefused, sinkVars
<1> QED BY <1>1, <1>3 DEF TargetOf

\* No step of a sender takes anybody out of the queue for slots, or changes what it waits for.
LEMMA SendersKeepWaiters ==
  ASSUME Shape, NEW s \in Senders, BeginSend(s) \/ PollSender(s) \/ SenderStep(s),
         NEW t \in Senders, NEW i \in Inputs, WaitsForSlot(t, i), TargetOf(t)' = TargetOf(t)
  PROVE  WaitsForSlot(t, i)'
<1>1. UNCHANGED <<closed, blocked, waiting_for_idle>>
  BY DEF BeginSend, PollSender, SenderStep, PollReadyWaits, PollReadyFails, PollReady, StartSend,
         PushQueued, PushRefused, WakeTarget, PollFlush, FlushRead, FlushQueued, FlushRefused, FlushRegister,
         ImmediateRead, ImmediateQueued, ImmediateRefused, Enqueue, inputVars
<1>2. when_slots_available' = when_slots_available \/ when_slots_available' = SlotsWhenFull(s)
  BY DEF BeginSend, PollSender, SenderStep, PollReadyWaits, PollReadyFails, PollReady, StartSend,
         PushQueued, PushRefused, WakeTarget, PollFlush, FlushRead, FlushQueued, FlushRefused, FlushRegister,
         ImmediateRead, ImmediateQueued, ImmediateRefused, Enqueue, inputVars
<1>3. t \in SlotWaiters(i)'
  <2> DEFINE q == when_slots_available[i]
             S == Senders
  <2>1. q \in Seq(S) /\ DOMAIN when_slots_available = Inputs
    BY DEF Shape, TypeOK
  <2>2. when_slots_available'[i] = q \/ when_slots_available'[i] = Append(q, s)
    BY <1>2, <2>1 DEF SlotsWhenFull
  <2>3. t \in Range(q) /\ s \in S
    BY DEF WaitsForSlot, SlotWaiters
  <2> HIDE DEF q, S
  <2>4. t \in Range(q) \cup {s} /\ Range(Append(q, s)) = Range(q) \cup {s}
    BY <2>1, <2>3, RangeOfAppend
  <2> QED BY <2>2, <2>3, <2>4 DEF SlotWaiters
<1>4. ReaderSleeps(i)' => ReaderSleeps(i)
  BY SendersWakeReaders
<1> QED BY <1>1, <1>3, <1>4 DEF WaitsForSlot

\* A sender that waits for a slot is served, or woken, when the reader does something.
LEMMA ReaderServesWaiters ==
  ASSUME Shape, SendersUndisturbed, NEW i \in Inputs,
         \/ ReaderStep(i) \/ PollReader(i) \/ DropStream(i) \/ FinishReader(i)
         \/ Close(i) \/ Block(i) \/ Unblock(i) \/ WaitForIdle(i) \/ EndWaitForIdle(i),
         NEW t \in Senders
  PROVE  /\ \A j \in Inputs : WaitsForSlot(t, j) => WaitsForSlot(t, j)' \/ t \in woken'
         /\ t \in woken => t \in woken'
<1> USE DEF sinkVars, senderVars, history
<1>v. /\ when_slots_available \in [Inputs -> Seq(Senders)] /\ DOMAIN closed = Inputs
      /\ DOMAIN waiting_for_idle = Inputs /\ blocked \in [Inputs -> 0..MaxBlocks]
      /\ DOMAIN reader = Inputs /\ Senders \cap Inputs = {} /\ MaxBlocks \in Nat
      /\ WithSources = {}
  BY StreamAssumption DEF Shape, TypeOK, SendersUndisturbed
<1>k. ReaderShape
  BY DEF Shape
<1>1. CASE PollNextMessage(i)
  <2> DEFINE q == when_slots_available[i]
             S == Senders
  <2>1. q \in Seq(S)
    BY <1>v
  <2>2. t \in Range(q) => t \in woken' \/ t \in SlotWaiters(i)'
    <3>1. /\ q # <<>> => Head(q) \in woken'
          /\ when_slots_available'[i] = IF q = <<>> THEN q ELSE Tail(q)
      BY <1>1, <1>v DEF PollNextMessage, SlotsFreed
    <3> HIDE DEF q, S
    <3>2. ASSUME t \in Range(q) PROVE q # <<>> /\ (t = Head(q) \/ t \in Range(Tail(q)))
      <4>1. PICK k \in 1..Len(q) : t = q[k]
        BY <2>1, <3>2, LenProperties DEF Range
      <4>2. Len(q) \in Nat /\ q # <<>>
        BY <2>1, <4>1, LenProperties, EmptySeq
      <4>3. /\ Tail(q) \in Seq(S) /\ Len(Tail(q)) = Len(q) - 1
            /\ \A x \in 1..Len(Tail(q)) : Tail(q)[x] = q[x + 1]
        BY <2>1, <4>2, HeadTailProperties
      <4>4. CASE k = 1
        BY <4>1, <4>2, <4>4
      <4>5. CASE k # 1
        <5>1. k - 1 \in 1..Len(Tail(q)) /\ (k - 1) + 1 = k
          BY <4>2, <4>3, <4>5
        <5>2. Tail(q)[k - 1] = t /\ k - 1 \in DOMAIN Tail(q)
          BY <4>1, <4>3, <5>1, LenProperties
        <5> QED BY <4>2, <5>2 DEF Range
      <4> QED BY <4>4, <4>5
    <3> QED BY <3>1, <3>2 DEF SlotWaiters
  <2>3. /\ woken \subseteq woken' /\ UNCHANGED <<closed, blocked, waiting_for_idle, reader, target>>
        /\ reader[i] = "running"
        /\ \A j \in Inputs : j # i => when_slots_available'[j] = when_slots_available[j]
    BY <1>1, <1>v DEF PollNextMessage
  <2>4. WaitsForSlot(t, i) => WaitsForSlot(t, i)' \/ t \in woken'
    BY <2>2, <2>3 DEF WaitsForSlot, SlotWaiters, ReaderSleeps, TargetOf
  <2>5. ASSUME NEW j \in Inputs, j # i, WaitsForSlot(t, j) PROVE WaitsForSlot(t, j)'
    <3>1. UNCHANGED <<via, holding>>
      BY <1>1 DEF PollNextMessage
    <3> QED BY <2>3, <2>5, <3>1 DEF WaitsForSlot, SlotWaiters, ReaderSleeps, TargetOf
  <2> QED BY <2>3, <2>4, <2>5
<1>2. CASE PollNextClosed(i)
  BY <1>2, <1>v, <1>k DEF PollNextClosed, WaitsForSlot, SlotWaiters, ReaderSleeps, TargetOf, ReaderShape
<1>3. CASE PollNextPending(i)
  BY <1>3, <1>v, <1>k DEF PollNextPending, WokenByPending, WaitsForSlot, SlotWaiters, ReaderSleeps, TargetOf, ReaderShape
<1>4. CASE PollReader(i)
  BY <1>4, <1>v, <1>k DEF PollReader, WaitsForSlot, SlotWaiters, ReaderSleeps, TargetOf, ReaderShape
<1>5. CASE DropStream(i)
  BY <1>5, <1>v, <1>k DEF DropStream, WaitsForSlot, SlotWaiters, ReaderSleeps, TargetOf, ReaderShape
<1>6. CASE FinishReader(i)
  BY <1>6, <1>v, <1>k DEF FinishReader, WaitsForSlot, SlotWaiters, ReaderSleeps, TargetOf, ReaderShape
<1>7. CASE Close(i)
  BY <1>7, <1>v, <1>k DEF Close, WaitsForSlot, SlotWaiters, ReaderSleeps, TargetOf, ReaderShape
<1>8. CASE Block(i)
  BY <1>8, <1>v, <1>k DEF Block, WaitsForSlot, SlotWaiters, ReaderSleeps, TargetOf, ReaderShape
<1>9. CASE Unblock(i)
  BY <1>9, <1>v, <1>k DEF Unblock, WokenByUnblock, WaitsForSlot, SlotWaiters, ReaderSleeps, TargetOf, ReaderShape
<1>10. CASE WaitForIdle(i)
  BY <1>10, <1>v, <1>k DEF WaitForIdle, WaitsForSlot, SlotWaiters, ReaderSleeps, TargetOf, ReaderShape
<1>11. CASE EndWaitForIdle(i)
  BY <1>11, <1>v, <1>k DEF EndWaitForIdle, WaitsAfterIdle, WaitsForSlot, SlotWaiters, ReaderSleeps, TargetOf, ReaderShape
<1> QED BY <1>1, <1>2, <1>3, <1>4, <1>5, <1>6, <1>7, <1>8, <1>9, <1>10, <1>11 DEF ReaderStep

\* The steps on an input leave no sender asleep without a cause.
LEMMA ReaderKeepsSendersQuiet ==
  ASSUME Shape, SenderQuiet, SendersUndisturbed, NEW i \in Inputs,
         \/ ReaderStep(i) \/ PollReader(i) \/ DropStream(i) \/ FinishReader(i)
         \/ Close(i) \/ Block(i) \/ Unblock(i) \/ WaitForIdle(i) \/ EndWaitForIdle(i)
  PROVE  SenderQuiet'
<1>1. UNCHANGED <<sinkVars, senderVars>>
  BY DEF ReaderStep, PollNextMessage, PollNextClosed, PollNextPending, PollReader, DropStream,
       FinishReader, Close, Block, Unblock, WaitForIdle, EndWaitForIdle
<1>2. ASSUME NEW t \in Senders, SenderSleeps(t)'
      PROVE  \/ TargetOf(t)' = Disconnected /\ when_target_changed'[CoreOf[t]] = t
             \/ \E j \in Inputs : WaitsForSlot(t, j)'
  <2>1. t \in asleep /\ t \notin woken /\ t \notin woken'
    BY <1>1, <1>2, ReaderServesWaiters DEF SenderSleeps, senderVars
  <2>2. \/ TargetOf(t) = Disconnected /\ when_target_changed[CoreOf[t]] = t
        \/ \E j \in Inputs : WaitsForSlot(t, j)
    BY <2>1 DEF SenderQuiet, SleepingSenderHasCause, SenderSleeps, WaitsForSlot
  <2> QED BY <1>1, <2>1, <2>2, ReaderServesWaiters DEF TargetOf, sinkVars
<1>3. SleepingSenderHasCause'
  BY <1>2 DEF SleepingSenderHasCause, WaitsForSlot
<1>4. ASSUME NEW t \in Senders, pc'[t] = "flush_register" PROVE t \in woken' \/ WaitsForSlot(t, via[t])'
  <2>1. pc[t] = "flush_register" /\ via'[t] = via[t]
    BY <1>1, <1>4 DEF senderVars
  <2>2. via[t] \in Inputs
    BY <2>1, MessageTypes DEF Shape
  <2>3. t \in woken \/ WaitsForSlot(t, via[t])
    BY <2>1 DEF SenderQuiet, SenderMissesNothing
  <2>4. t \in woken' \/ WaitsForSlot(t, via[t])'
    <3> PICK j \in Inputs : j = via[t]
      BY <2>2
    <3>1. WaitsForSlot(t, j)' => WaitsForSlot(t, via[t])'
      BY <1>1 DEF senderVars, WaitsForSlot
    <3> QED BY <2>3, <3>1, ReaderServesWaiters
  <2> QED BY <2>4
<1>5. SenderMissesNothing'
  BY <1>1, <1>4 DEF SenderQuiet, SenderMissesNothing, senderVars, sinkVars, TargetOf
<1> QED BY <1>3, <1>5 DEF SenderQuiet

\* A sender that goes to sleep has registered its waker with what it waits for.
LEMMA SenderSleepsForCause ==
  ASSUME Shape, SenderQuiet, SendersUndisturbed,
         NEW s \in Senders, BeginSend(s) \/ PollSender(s) \/ SenderStep(s), SenderSleeps(s)'
  PROVE  \/ TargetOf(s)' = Disconnected /\ when_target_changed'[CoreOf[s]] = s
         \/ \E j \in Inputs : WaitsForSlot(s, j)'
<1> USE DEF At, SenderSleeps, inputVars, senderVars, sinkVars
<1>v. /\ CoreOf[s] \in Cores /\ DOMAIN when_target_changed = Cores /\ DOMAIN target = Cores
      /\ pc[s] = "flush_register" => via[s] \in Inputs
  <2>1. TypeOK /\ SenderShape
    BY DEF Shape
  <2>2. pc[s] = "flush_register" => via[s] \in Inputs
    BY <2>1, MessageTypes
  <2>3. /\ CoreOf[s] \in Cores /\ DOMAIN when_target_changed = Cores /\ DOMAIN target = Cores
    BY <2>1, StreamAssumption DEF TypeOK
  <2> QED BY <2>2, <2>3
<1>1. CASE PollReadyWaits(s)
  <2>1. CASE SinkIsFree(s)
    BY <1>1, <1>v, <2>1 DEF PollReadyWaits, TargetOf
  <2>2. CASE ~SinkIsFree(s)
    <3>1. TargetOf(s) = Disconnected /\ when_target_changed[CoreOf[s]] = s
      BY <1>1, <2>2 DEF PollReadyWaits, SinkIsFree, SenderQuiet, SenderMissesNothing
    <3> QED BY <1>1, <2>2, <3>1 DEF PollReadyWaits, TargetOf
  <2> QED BY <2>1, <2>2
<1>2. CASE FlushRead(s)
  BY <1>2, <1>v DEF FlushRead, TargetOf, Connected, Lost
<1>3. CASE FlushRegister(s)
  <2>1. s \notin woken /\ TargetOf(s)' = TargetOf(s)
    BY <1>3 DEF FlushRegister, TargetOf
  <2>2. WaitsForSlot(s, via[s]) /\ via[s] \in Inputs
    BY <1>3, <1>v, <2>1 DEF FlushRegister, SenderQuiet, SenderMissesNothing
  <2> PICK j \in Inputs : j = via[s]
    BY <2>2
  <2>3. WaitsForSlot(s, j)'
    BY <2>1, <2>2, SendersKeepWaiters
  <2> QED BY <2>3
<1>4. CASE ~(PollReadyWaits(s) \/ FlushRead(s) \/ FlushRegister(s))
  BY <1>4 DEF BeginSend, PollSender, SenderStep, PollReadyFails, PollReady, StartSend,
         PushQueued, PushRefused, WakeTarget, PollFlush, FlushQueued, FlushRefused,
         ImmediateRead, ImmediateQueued, ImmediateRefused
<1> QED BY <1>1, <1>2, <1>3, <1>4

\* A sender that finds no slot queues for one that will be announced.
LEMMA SenderRegisters ==
  ASSUME Shape, SleepingReaderHasNoWork, SenderQuiet,
         NEW s \in Senders, BeginSend(s) \/ PollSender(s) \/ SenderStep(s), pc'[s] = "flush_register"
  PROVE  s \in woken' \/ WaitsForSlot(s, via[s])'
<1> USE DEF At, Go, Succeed, Fail
<1>v. /\ DOMAIN pc = Senders /\ via \in [Senders -> Inputs \cup {None}]
      /\ when_slots_available \in [Inputs -> Seq(Senders)]
      /\ waiting_for_idle \in [Inputs -> 0..1] /\ blocked \in [Inputs -> 0..MaxBlocks] /\ MaxBlocks \in Nat
      /\ MaxWaiting \in Nat
  BY StreamAssumption DEF Shape, TypeOK
<1>1. FlushRefused(s)
  BY <1>v DEF BeginSend, PollSender, SenderStep, PollReadyWaits, PollReadyFails, PollReady, StartSend,
         PushQueued, PushRefused, WakeTarget, PollFlush, FlushRead, FlushQueued, FlushRefused, FlushRegister,
         ImmediateRead, ImmediateQueued, ImmediateRefused, senderVars, Shape, SenderShape, SenderOK
<1>2. PICK i \in Inputs : i = via[s]
  BY <1>1, MessageTypes DEF FlushRefused, Shape
<1>3. /\ ~closed[i] /\ ~(waiting_for_idle[i] > 0) /\ ~CanSend(i) /\ when_slots_available' = SlotsWhenFull(s)
      /\ UNCHANGED <<closed, waiting_for_idle, blocked, target, via, holding, reader, woken>>
  BY <1>1, <1>2, <1>v DEF FlushRefused
<1>4. TargetOf(s) = i
  BY <1>1, <1>2 DEF FlushRefused, SenderQuiet, SenderMissesNothing
<1>5. s \in SlotWaiters(i)'
  <2> DEFINE q == when_slots_available[i]
             S == Senders
  <2>1. q \in Seq(S) /\ when_slots_available'[i] = Append(q, s) /\ s \in S
    BY <1>2, <1>3, <1>v DEF SlotsWhenFull
  <2> HIDE DEF q, S
  <2>2. s \in Range(Append(q, s))
    BY <2>1, RangeOfAppend
  <2> QED BY <2>1, <2>2 DEF SlotWaiters
<1>6. waiting_for_idle[i] = 0
  BY <1>3, <1>v
<1>7. blocked[i] > 0 \/ ~ReaderSleeps(i)
  <2> SUFFICES ASSUME ReaderSleeps(i), ~(blocked[i] > 0) PROVE FALSE
    OBVIOUS
  <2>1. blocked[i] = 0
    BY <1>v
  <2>2. waiting_messages[i] = <<>>
    BY DEF SleepingReaderHasNoWork
  <2>3. Len(waiting_messages[i]) <= SlotLimit(i)
    BY <1>6, <1>v, <2>2 DEF SlotLimit
  <2> QED BY <1>3, <2>1, <2>3 DEF CanSend
<1>8. WaitsForSlot(s, i)'
  BY <1>3, <1>4, <1>5, <1>6, <1>7 DEF WaitsForSlot, TargetOf, ReaderSleeps
<1> QED BY <1>2, <1>3, <1>8 DEF WaitsForSlot

\* A sender goes to the input that is the target of its core; a message is left in a sink that
\* is free to use only when the target was lost.
LEMMA SenderMissesNothingStep ==
  ASSUME Shape, SenderQuiet, SendersUndisturbed,
         NEW s \in Senders, BeginSend(s) \/ PollSender(s) \/ SenderStep(s)
  PROVE  /\ pc'[s] \in {"flush_push", "flush_register"} => TargetOf(s)' = via'[s]
         /\ pc'[s] \in {"start", "poll_ready"} /\ waiting_message'[s] # None =>
              TargetOf(s)' = Disconnected /\ when_target_changed'[CoreOf[s]] = s
<1> USE DEF At, Go, Succeed, Fail, inputVars, senderVars, sinkVars, history, TargetOf, UsesImmediate
<1>v. /\ CoreOf[s] \in Cores /\ DOMAIN when_target_changed = Cores /\ DOMAIN target = Cores
      /\ DOMAIN pc = Senders /\ DOMAIN via = Senders /\ DOMAIN waiting_message = Senders
  BY StreamAssumption DEF Shape, TypeOK
<1>k. SenderOK(s)
  BY DEF Shape, SenderShape
<1>q. /\ pc[s] \in {"flush_push", "flush_register"} => target[CoreOf[s]] = via[s]
      /\ pc[s] \in {"start", "poll_ready"} /\ waiting_message[s] # None =>
           target[CoreOf[s]] = Disconnected /\ when_target_changed[CoreOf[s]] = s
  BY DEF SenderQuiet, SenderMissesNothing
<1>1. CASE BeginSend(s)
  BY <1>1, <1>v, <1>k, <1>q DEF BeginSend, SenderOK
<1>2. CASE PollSender(s)
  BY <1>2, <1>v, <1>k, <1>q DEF PollSender, SenderOK
<1>3. CASE PollReadyWaits(s)
  BY <1>3, <1>v, <1>k, <1>q DEF PollReadyWaits, SinkIsFree, SenderOK
<1>4. CASE PollReadyFails(s)
  BY <1>4, <1>v, <1>k, <1>q DEF PollReadyFails, SinkIsFree, SenderOK
<1>5. CASE PollReady(s)
  BY <1>5, <1>v, <1>k, <1>q DEF PollReady, SinkIsFree, SenderOK
<1>6. CASE StartSend(s)
  BY <1>6, <1>v, <1>k, <1>q DEF StartSend, SenderOK
<1>7. CASE PushQueued(s)
  BY <1>7, <1>v, <1>k, <1>q DEF PushQueued, SenderOK
<1>8. CASE PushRefused(s)
  BY <1>8, <1>v, <1>k, <1>q DEF PushRefused, SenderOK
<1>9. CASE WakeTarget(s)
  BY <1>9, <1>v, <1>k, <1>q DEF WakeTarget, SenderOK
<1>10. CASE PollFlush(s)
  BY <1>10, <1>v, <1>k, <1>q DEF PollFlush, SenderOK
<1>11. CASE FlushRead(s)
  BY <1>11, <1>v, <1>k, <1>q DEF FlushRead, SenderOK
<1>12. CASE FlushQueued(s)
  BY <1>12, <1>v, <1>k, <1>q DEF FlushQueued, SinkAfterFlush, SenderOK
<1>13. CASE FlushRefused(s)
  BY <1>13, <1>v, <1>k, <1>q DEF FlushRefused, SenderOK
<1>14. CASE FlushRegister(s)
  BY <1>14, <1>v, <1>k, <1>q DEF FlushRegister, SenderOK
<1>15. CASE ImmediateRead(s)
  BY <1>15, <1>v, <1>k, <1>q DEF ImmediateRead, SenderOK
<1>16. CASE ImmediateQueued(s)
  BY <1>16, <1>v, <1>k, <1>q DEF ImmediateQueued, SenderOK
<1>17. CASE ImmediateRefused(s)
  BY <1>17, <1>v, <1>k, <1>q DEF ImmediateRefused, SenderOK
<1> QED BY <1>1, <1>2, <1>3, <1>4, <1>5, <1>6, <1>7, <1>8, <1>9, <1>10, <1>11, <1>12, <1>13, <1>14,
          <1>15, <1>16, <1>17 DEF SenderStep

\* The steps of a sender leave no sender asleep without a cause.
LEMMA SenderKeepsSendersQuiet ==
  ASSUME Shape, SleepingReaderHasNoWork, SenderQuiet, SendersUndisturbed,
         NEW s \in Senders, BeginSend(s) \/ PollSender(s) \/ SenderStep(s)
  PROVE  SenderQuiet'
<1>1. ASSUME NEW t \in Senders, t # s
      PROVE  /\ pc'[t] = pc[t] /\ via'[t] = via[t] /\ waiting_message'[t] = waiting_message[t]
             /\ t \in asleep' <=> t \in asleep
             /\ t \in woken => t \in woken'
             /\ TargetOf(t)' = TargetOf(t)
             /\ when_target_changed'[CoreOf[t]] = when_target_changed[CoreOf[t]]
             /\ \A j \in Inputs : WaitsForSlot(t, j) => WaitsForSlot(t, j)'
  BY <1>1, SenderFrame, OthersKeepCores, SendersKeepWaiters
<1>2. ASSUME NEW t \in Senders, SenderSleeps(t)'
      PROVE  \/ TargetOf(t)' = Disconnected /\ when_target_changed'[CoreOf[t]] = t
             \/ \E j \in Inputs : WaitsForSlot(t, j)'
  <2>1. CASE t = s
    BY <1>2, <2>1, SenderSleepsForCause
  <2>2. CASE t # s
    <3>1. SenderSleeps(t)
      BY <1>1, <1>2, <2>2 DEF SenderSleeps
    <3>2. \/ TargetOf(t) = Disconnected /\ when_target_changed[CoreOf[t]] = t
          \/ \E j \in Inputs : WaitsForSlot(t, j)
      BY <3>1 DEF SenderQuiet, SleepingSenderHasCause, WaitsForSlot
    <3> QED BY <1>1, <2>2, <3>2
  <2> QED BY <2>1, <2>2
<1>3. SleepingSenderHasCause'
  BY <1>2 DEF SleepingSenderHasCause, WaitsForSlot
<1>4. ASSUME NEW t \in Senders, pc'[t] = "flush_register" PROVE t \in woken' \/ WaitsForSlot(t, via[t])'
  <2>1. CASE t = s
    BY <1>4, <2>1, SenderRegisters
  <2>2. CASE t # s
    <3>1. pc[t] = "flush_register" /\ via'[t] = via[t]
      BY <1>1, <1>4, <2>2
    <3>2. PICK j \in Inputs : j = via[t]
      BY <3>1, MessageTypes DEF Shape
    <3>3. t \in woken \/ WaitsForSlot(t, j)
      BY <3>1, <3>2 DEF SenderQuiet, SenderMissesNothing
    <3>4. WaitsForSlot(t, j)' => WaitsForSlot(t, via[t])'
      BY <3>1, <3>2 DEF WaitsForSlot
    <3> QED BY <1>1, <2>2, <3>3, <3>4
  <2> QED BY <2>1, <2>2
<1>5. ASSUME NEW t \in Senders
      PROVE  /\ pc'[t] \in {"flush_push", "flush_register"} => TargetOf(t)' = via'[t]
             /\ pc'[t] \in {"start", "poll_ready"} /\ waiting_message'[t] # None =>
                  TargetOf(t)' = Disconnected /\ when_target_changed'[CoreOf[t]] = t
  <2>1. CASE t = s
    BY <2>1, SenderMissesNothingStep
  <2>2. CASE t # s
    BY <1>1, <2>2 DEF SenderQuiet, SenderMissesNothing
  <2> QED BY <2>1, <2>2
<1>6. SenderMissesNothing'
  BY <1>4, <1>5 DEF SenderMissesNothing
<1> QED BY <1>3, <1>6 DEF SenderQuiet

\* No step leaves a sender asleep without a cause.
LEMMA SenderQuietStep ==
  ASSUME Shape, SleepingReaderHasNoWork, SenderQuiet, SendersUndisturbed, [Next]_vars
  PROVE  SenderQuiet'
<1>1. CASE UNCHANGED vars
  BY <1>1 DEF vars, inputVars, senderVars, sinkVars, SenderQuiet, SleepingSenderHasCause, SenderMissesNothing,
       SenderSleeps, TargetOf, SlotWaiters, WaitsForSlot, ReaderSleeps
<1>2. ASSUME NEW c \in Cores, NEW t \in Targets, ChangeTarget(c, t)
      PROVE  FALSE
  BY <1>2 DEF ChangeTarget, SendersUndisturbed, Shape, TypeOK
<1> QED BY <1>1, <1>2, SenderKeepsSendersQuiet, ReaderKeepsSendersQuiet DEF Next

----------------------------------------------------------------------------
(* The invariant, and the theorems. *)

StreamInv == /\ Shape /\ PlacesOK /\ BackPressure /\ SleepingReaderHasNoWork
             /\ SendersUndisturbed => SenderQuiet

\* The invariant holds at the beginning, ...
LEMMA StreamInit == Init => StreamInv
<1> SUFFICES ASSUME Init PROVE StreamInv
  OBVIOUS
<1>a. {MaxWaiting, IdleQueueLen, MaxMessages, MaxBlocks, MaxChanges} \subseteq Nat /\ None \notin Nat
  BY StreamAssumption
<1>1. TypeOK
  <2>1. <<>> \in Seq(Messages) /\ <<>> \in Seq(Senders)
    OBVIOUS
  <2>2. waiting_messages \in [Inputs -> Seq(Messages)] /\ received \in [Inputs -> Seq(Messages)]
    BY <2>1 DEF Init
  <2>3. when_slots_available \in [Inputs -> Seq(Senders)]
    BY <2>1 DEF Init
  <2>4. /\ when_message_sent \in [Inputs -> BOOLEAN] /\ closed \in [Inputs -> BOOLEAN]
        /\ idle \in [Inputs -> BOOLEAN] /\ dropped \in [Inputs -> BOOLEAN] /\ in_table \in [Inputs -> BOOLEAN]
        /\ yield_after_sending \in [Senders -> BOOLEAN] /\ holding \in [Senders -> BOOLEAN]
    BY DEF Init
  <2>5. /\ blocked \in [Inputs -> 0..MaxBlocks] /\ waiting_for_idle \in [Inputs -> 0..1]
        /\ current \in [Senders -> 0..MaxMessages] /\ changes \in [Cores -> 0..MaxChanges]
    BY <1>a DEF Init
  <2>6. attempt \in [Senders -> 0..3]
    BY DEF Init
  <2>7. /\ target \in [Cores -> Targets] /\ when_target_changed \in [Cores -> Senders \cup {None}]
        /\ waiting_message \in [Senders -> 1..MaxMessages \cup {None}]
        /\ via \in [Senders -> Inputs \cup {None}] /\ last_message_source \in [Inputs -> Senders \cup {None}]
    BY DEF Init, Targets
  <2>8. /\ max_idle_queue_len \in [Inputs -> {MaxWaiting, MaxIdleLen}]
        /\ reader \in [Inputs -> {"running", "parked", "wait_for_idle", "finishing", "ended"}]
        /\ pc \in [Senders -> {"start", "poll_ready", "start_send", "push", "sent", "poll_flush",
                               "flush_read", "flush_push", "flush_register",
                               "immediate_read", "immediate_push", "stopped"}]
    BY DEF Init
  <2>9. /\ asleep \subseteq Senders /\ woken \subseteq Senders \cup Inputs
        /\ discarded \subseteq Messages /\ failed \subseteq Messages /\ drained \subseteq Messages
    BY DEF Init
  <2> QED BY <2>2, <2>3, <2>4, <2>5, <2>6, <2>7, <2>8, <2>9 DEF TypeOK
<1>2. SenderShape
  BY DEF Init, SenderShape, SenderOK
<1>3. ReaderShape
  BY DEF Init, ReaderShape
<1>4. \A i \in Inputs : Accepted(i) = <<>>
  BY DEF Init, Accepted
<1>5. PlacesOK
  <2>1. AllInPlace
    BY DEF Init, AllInPlace
  <2>2. \A x : TakenAt(x) = {}
    BY <1>4 DEF TakenAt, Range
  <2>3. NothingEarly
    BY <2>2 DEF Init, NothingEarly
  <2>4. MessagesInOrder
    BY <1>4 DEF MessagesInOrder
  <2> QED BY <2>1, <2>3, <2>4 DEF PlacesOK
<1>6. BackPressure
  <2>1. MaxIdleLen \in Nat /\ Cardinality({}) = 0
    BY <1>a, FS_EmptySet DEF MaxIdleLen
  <2> SUFFICES ASSUME NEW i \in Inputs
               PROVE  Cardinality({j \in DOMAIN waiting_messages[i] : ~UsesImmediate(waiting_messages[i][j][1])})
                        <= MaxIdleLen + 1
    BY DEF BackPressure
  <2>2. {j \in DOMAIN waiting_messages[i] : ~UsesImmediate(waiting_messages[i][j][1])} = {}
    BY DEF Init
  <2>3. 0 <= MaxIdleLen + 1
    BY <2>1
  <2> QED BY <2>1, <2>2, <2>3
<1>7. SleepingReaderHasNoWork
  BY DEF Init, SleepingReaderHasNoWork, ReaderSleeps
<1>8. SenderQuiet
  BY DEF Init, SenderQuiet, SleepingSenderHasCause, SenderMissesNothing, SenderSleeps
<1> QED BY <1>1, <1>2, <1>3, <1>5, <1>6, <1>7, <1>8 DEF StreamInv, Shape

\* ... and is kept by every step.
LEMMA StreamStep == StreamInv /\ [Next]_vars => StreamInv'
<1> SUFFICES ASSUME StreamInv, [Next]_vars PROVE StreamInv'
  OBVIOUS
<1>1. Shape /\ PlacesOK /\ BackPressure /\ SleepingReaderHasNoWork /\ (SendersUndisturbed => SenderQuiet)
  BY DEF StreamInv
<1>2. Shape'
  BY <1>1, ShapeStep
<1>3. PlacesOK'
  BY <1>1, PlacesStep
<1>4. BackPressure'
  BY <1>1, <1>2, BackPressureStep
<1>5. SleepingReaderHasNoWork'
  BY <1>1, ReaderQuietStep
<1>6. SendersUndisturbed => SenderQuiet'
  BY <1>1, SenderQuietStep
<1>7. SendersUndisturbed' <=> SendersUndisturbed
  BY DEF SendersUndisturbed
<1> QED BY <1>2, <1>3, <1>4, <1>5, <1>6, <1>7 DEF StreamInv

\* The stream keeps its invariant, whoever sends and however the targets change.
THEOREM StreamInvariance == Spec => []StreamInv
  BY StreamInit, StreamStep, PTL DEF Spec

\* Through back-pressure, retries, overfilling, reconnections and dropped streams, a message
\* that a sender has begun to send is in exactly one place: none is lost, none is doubled.
THEOREM MessagesAreKept == Spec => []EveryMessageInOnePlace
<1>1. StreamInv => EveryMessageInOnePlace
  BY PlacesCount DEF StreamInv, PlacesOK
<1> QED BY <1>1, StreamInvariance, PTL

\* An input receives the messages of one sender in the order in which they were sent.
THEOREM OrderIsKept == Spec => []MessagesInOrder
<1>1. StreamInv => MessagesInOrder
  BY DEF StreamInv, PlacesOK
<1> QED BY <1>1, StreamInvariance, PTL

\* The senders that do not overfill a queue put at most one message more into it than its limit.
THEOREM PressureIsKept == Spec => []BackPressure
<1>1. StreamInv => BackPressure
  BY DEF StreamInv
<1> QED BY <1>1, StreamInvariance, PTL

\* A reader sleeps only while it has nothing to do, in any scene.
THEOREM ReadersAreWoken == Spec => [](TypeOK /\ SleepingReaderHasNoWork)
<1>1. StreamInv => TypeOK /\ SleepingReaderHasNoWork
  BY DEF StreamInv, Shape
<1> QED BY <1>1, StreamInvariance, PTL

\* Where no sink is shared or reconnected and no reader uses messages_with_sources, senders
\* too sleep only for a cause that will wake them.
THEOREM WakeUpsAreGiven == ASSUME SendersUndisturbed PROVE Spec => []WakeUpsAreKept
<1>1. StreamInv => WakeUpsAreKept
  BY DEF StreamInv, Shape, SenderQuiet, WakeUpsAreKept
<1> QED BY <1>1, StreamInvariance, PTL
=============================================================================
