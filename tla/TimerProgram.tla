---------------------------- MODULE TimerProgram ----------------------------
(***************************************************************************)
(* The timer program (programs/timer.rs): one task that polls, in turn, a  *)
(* future that reads requests, a future that waits for the first timer to  *)
(* expire, and one future for every TimeOut that is being sent.            *)
(*                                                                         *)
(* A tick of the clock may come between any two steps.  All times are      *)
(* relative to the present, and a tick takes one from each; a timer that   *)
(* is more than MaxLate late does not become later, but keeps its phase.   *)
(* A poll of the task takes several steps, since other threads send        *)
(* requests, read TimeOuts and end programs during it.  The streams are    *)
(* reduced to what the timer sees: input is its queue of requests,         *)
(* inbox[p] counts the TimeOuts that program p has not read, sink[p] is    *)
(* the target of the output sink core that the timer has for p.  A program *)
(* that starts again is reconnected in the same step.  Left out: the       *)
(* Duration in a TimeOut.                                                  *)
(***************************************************************************)
EXTENDS Integers, Sequences, SequencesExt, FiniteSetsExt

CONSTANTS Clients,       \* programs that set timers
          TimerRequests, \* the requests they make: see RequestOK
          Capacity,      \* length at which the input stream of a program is full
          MaxRequests,   \* bound: requests made
          MaxLate,       \* bound: ticks by which a timer is late
          MaxStarts,     \* bound: programs that start again
          Disconnected, Unset

\* A request is [kind, program, id, duration]; kind is "CallAfter", "CallEvery" or "Cancel".
RequestOK(r) ==
    /\ r.kind \in {"CallAfter", "CallEvery", "Cancel"}
    /\ r.program \in Clients /\ r.id \in Nat /\ r.duration \in Nat

ASSUME TimerAssumption ==
    /\ \A r \in TimerRequests : RequestOK(r)
    /\ Capacity \in Nat \ {0} /\ {MaxRequests, MaxLate, MaxStarts} \subseteq Nat
    /\ \A r \in TimerRequests : r.duration <= MaxLate
    /\ Unset \notin Nat /\ Disconnected \notin {"input", Unset}

VARIABLES input,        \* requests in the input stream
          closed,       \* the input stream is closed
          timer_events, \* the timers that wait, in the order of their callback_offset
          extra_futures, \* the timers whose TimeOut is being sent
          waker,        \* the waker that a requeued timer takes and invokes is there
          armed,        \* time left of the Delay, or Unset
          pc,           \* what the poll of the task does next
          at,           \*   the extra future it polls next
          task_woken,   \* the task was woken since its poll began
          sink,         \* per program: the timer's sink, Unset before it sent anything
          running,      \* the programs that run
          inbox,        \* per program: number of TimeOuts in its input stream
          waiting,      \* programs whose input stream holds the task's waker
          requests, starts \* number of requests made, of programs that started again

timerVars == <<timer_events, extra_futures, waker, armed>>
counters == <<requests, starts>>
targetVars == <<sink, running, inbox, waiting>>
programVars == <<input, closed, timerVars, pc, at, task_woken, targetVars, counters>>

Times == -MaxLate..MaxLate

\* serial tells requests apart, origin is when the request was read, sent says that the
\* target has the TimeOut ("yielding": and the sink yields before its send is done).
Timers == [program : Clients, id : Nat, callback_offset : Times, repeating : Nat \cup {Unset},
           sent : {"no", "yielding", "yes"}, serial : 1..MaxRequests, origin : Times]

TimerTypeOK ==
    /\ input \in Seq(TimerRequests \X (1..MaxRequests))
    /\ timer_events \in Seq(Timers) /\ extra_futures \in Seq(Timers)
    /\ waker \in BOOLEAN /\ armed \in 0..MaxLate \cup {Unset}
    /\ pc \in {"asleep", "requests", "timers", "sends", "ended"} /\ at \in Nat
    /\ task_woken \in BOOLEAN
    /\ sink \in [Clients -> {Unset, Disconnected, "input"}] /\ running \subseteq Clients
    /\ inbox \in [Clients -> 0..Capacity] /\ waiting \subseteq Clients
    /\ closed \in BOOLEAN /\ requests \in 0..MaxRequests /\ starts \in 0..MaxStarts

TimerInit ==
    /\ input = <<>> /\ closed = FALSE /\ timer_events = <<>> /\ extra_futures = <<>>
    /\ waker = FALSE /\ armed = Unset /\ pc = "asleep" /\ at = 1 /\ task_woken = TRUE
    /\ sink = [p \in Clients |-> Unset] /\ running = Clients
    /\ inbox = [p \in Clients |-> 0] /\ waiting = {}
    /\ requests = 0 /\ starts = 0

----------------------------------------------------------------------------
(***************************************************************************)
(* The world around the timer                                              *)
(***************************************************************************)
\* A time of a timer with this period, one tick later.
Aged(time, period) ==
    IF time > -MaxLate THEN time - 1
    ELSE IF period \in {Unset, 0} THEN time ELSE time - 1 + period

OneTickLater(t) == [t EXCEPT !.callback_offset = Aged(@, t.repeating), !.origin = Aged(@, t.repeating)]

Tick ==
    /\ timer_events' = [i \in DOMAIN timer_events |-> OneTickLater(timer_events[i])]
    /\ extra_futures' = [i \in DOMAIN extra_futures |-> OneTickLater(extra_futures[i])]
    /\ armed' = IF armed \in {Unset, 0} THEN armed ELSE armed - 1
    /\ UNCHANGED <<input, closed, waker, pc, at, task_woken, targetVars, counters>>

\* The Delay of the first timer reaches its deadline and wakes the task.
DelayExpires ==
    /\ armed = 0 /\ ~task_woken /\ pc # "ended"
    /\ task_woken' = TRUE
    /\ UNCHANGED <<input, closed, timerVars, pc, at, targetVars, counters>>

\* A running program makes a request.
Request ==
    /\ requests < MaxRequests /\ ~closed
    /\ \E r \in TimerRequests : r.program \in running /\ input' = Append(input, <<r, requests + 1>>)
    /\ requests' = requests + 1 /\ task_woken' = TRUE
    /\ UNCHANGED <<closed, timerVars, pc, at, targetVars, starts>>

\* The input stream of the timer program is closed.
CloseInput ==
    /\ ~closed /\ closed' = TRUE /\ task_woken' = TRUE
    /\ UNCHANGED <<input, timerVars, pc, at, targetVars, counters>>

WakeIfWaitingFor(p) == waiting' = waiting \ {p} /\ task_woken' = (task_woken \/ p \in waiting)

\* A program reads a TimeOut.
Read(p) ==
    /\ p \in running /\ inbox[p] > 0
    /\ inbox' = [inbox EXCEPT ![p] = @ - 1]
    /\ WakeIfWaitingFor(p)
    /\ UNCHANGED <<input, closed, timerVars, pc, at, sink, running, counters>>

\* A program ends and drops its input stream.
End(p) ==
    /\ p \in running /\ running' = running \ {p}
    /\ inbox' = [inbox EXCEPT ![p] = 0]
    /\ WakeIfWaitingFor(p)
    /\ UNCHANGED <<input, closed, timerVars, pc, at, sink, counters>>

\* A program starts again: the timer's sink is connected to its new input stream.
Start(p) ==
    /\ p \notin running /\ starts < MaxStarts /\ starts' = starts + 1
    /\ running' = running \cup {p}
    /\ sink' = [sink EXCEPT ![p] = IF @ = Unset THEN Unset ELSE "input"]
    /\ task_woken' = (task_woken \/ sink[p] = Disconnected)
    /\ UNCHANGED <<input, closed, timerVars, pc, at, inbox, waiting, requests>>

----------------------------------------------------------------------------
(***************************************************************************)
(* A poll of the task                                                      *)
(***************************************************************************)
\* Sorting is stable: a new timer goes after those of the same offset.
Sorted(events, t) ==
    LET n == Cardinality({i \in DOMAIN events : events[i].callback_offset <= t.callback_offset})
    IN  SubSeq(events, 1, n) \o <<t>> \o SubSeq(events, n + 1, Len(events))

\* Those of events whose places are in kept.
Retained(events, kept) ==
    LET upTo[i \in 0..Len(events)] ==
            IF i = 0 THEN <<>>
            ELSE IF i \in kept THEN Append(upTo[i - 1], events[i]) ELSE upTo[i - 1]
    IN upTo[Len(events)]

NewTimer(r, n) ==
    [program |-> r.program, id |-> r.id, callback_offset |-> r.duration,
     repeating |-> IF r.kind = "CallEvery" THEN r.duration ELSE Unset,
     sent |-> "no", serial |-> n, origin |-> 0]

BeginPoll ==
    /\ pc = "asleep" /\ task_woken
    /\ pc' = "requests" /\ task_woken' = FALSE /\ waker' = TRUE
    /\ UNCHANGED <<input, closed, timer_events, extra_futures, armed, at, targetVars, counters>>

Matches(t, r) == t.program = r.program /\ t.id = r.id

\* request_future reads a request.
ReadRequest ==
    /\ pc = "requests" /\ input # <<>>
    /\ \E r \in {Head(input)[1]} :
           timer_events' =
               IF r.kind = "Cancel"
               THEN Retained(timer_events, {i \in DOMAIN timer_events : ~Matches(timer_events[i], r)})
               ELSE Sorted(timer_events, NewTimer(r, Head(input)[2]))
    /\ input' = Tail(input)
    /\ UNCHANGED <<closed, extra_futures, waker, armed, pc, at, task_woken, targetVars, counters>>

\* The input stream is empty: request_future is pending, or ends and the program with it.
NoMoreRequests ==
    /\ pc = "requests" /\ input = <<>>
    /\ pc' = IF closed THEN "ended" ELSE "timers"
    /\ IF closed THEN timer_events' = <<>> /\ extra_futures' = <<>> /\ armed' = Unset
       ELSE UNCHANGED <<timer_events, extra_futures, armed>>
    /\ UNCHANGED <<input, closed, waker, at, task_woken, targetVars, counters>>

\* Mutant: a Delay that runs already is kept.
Deadline_Kept(offset) == IF armed # Unset THEN armed ELSE offset

Deadline(offset) == offset

TimerExpired == timer_events # <<>> /\ timer_events[1].callback_offset <= 0

\* timer_expired is pending: a Delay runs up to the first timer, if there is one.
AwaitTimer ==
    /\ pc = "timers" /\ ~TimerExpired
    /\ armed' = IF timer_events = <<>> THEN Unset ELSE Deadline(timer_events[1].callback_offset)
    /\ pc' = "sends" /\ at' = 1
    /\ UNCHANGED <<input, closed, timer_events, extra_futures, waker, task_woken, targetVars, counters>>

\* context.send fails only if it must create a sink for a program that is no more.
CanSend(p) == sink[p] # Unset \/ p \in running

Expired == {i \in DOMAIN timer_events : timer_events[i].callback_offset <= 0}

\* fire_timer_events takes out every timer that has expired.
FireTimers ==
    /\ pc = "timers" /\ TimerExpired
    /\ \E n \in {Cardinality(Expired)} :
           /\ timer_events' = SubSeq(timer_events, n + 1, Len(timer_events))
           /\ extra_futures' = extra_futures \o
                 Retained(timer_events, {i \in 1..n : CanSend(timer_events[i].program)})
           /\ sink' = [p \in Clients |->
                 IF sink[p] = Unset /\ p \in running /\ \E i \in 1..n : timer_events[i].program = p
                 THEN "input" ELSE sink[p]]
    /\ armed' = Unset
    /\ UNCHANGED <<input, closed, waker, pc, at, task_woken, running, inbox, waiting, counters>>

Polled == extra_futures[at]
MayPoll == pc = "sends" /\ at <= Len(extra_futures)

\* Future number at hands its TimeOut over.  The sink yields if that filled the stream of a
\* program that was waiting for messages.
SendTimeOut ==
    /\ MayPoll /\ Polled.sent = "no"
    /\ \E p \in {Polled.program} :
           /\ sink[p] = "input" /\ p \in running /\ inbox[p] < Capacity
           /\ inbox' = [inbox EXCEPT ![p] = @ + 1]
           /\ \/ /\ extra_futures' = [extra_futures EXCEPT ![at].sent = "yes"]
                 /\ UNCHANGED <<at, task_woken>>
              \/ /\ inbox[p] + 1 = Capacity
                 /\ extra_futures' = [extra_futures EXCEPT ![at].sent = "yielding"]
                 /\ at' = at + 1 /\ task_woken' = TRUE
    /\ UNCHANGED <<input, closed, timer_events, waker, armed, pc, sink, running, waiting, counters>>

\* Mutant: the next turn is one period after the present time.
NextOffset_Drift(t) == t.repeating

\* The first turn of the timer that is not in the past.
NextOffset(t) ==
    IF t.callback_offset >= 0 THEN t.callback_offset
    ELSE t.callback_offset + t.repeating * ((t.repeating - 1 - t.callback_offset) \div t.repeating)

Requeues(t) == t.repeating # Unset /\ t.repeating # 0

\* Mutant: the task is not woken for a requeued timer.
WokenByRequeue_No(t) == FALSE

WokenByRequeue(t) == Requeues(t) /\ waker

\* The future ends, which puts a repeating timer back.
EndSend ==
    /\ MayPoll /\ Polled.sent # "no"
    /\ timer_events' = IF Requeues(Polled)
                       THEN Sorted(timer_events, [Polled EXCEPT !.callback_offset = NextOffset(Polled),
                                                                !.sent = "no"])
                       ELSE timer_events
    /\ task_woken' = (task_woken \/ WokenByRequeue(Polled)) /\ waker' = (waker /\ ~Requeues(Polled))
    /\ extra_futures' = RemoveAt(extra_futures, at)
    /\ UNCHANGED <<input, closed, armed, pc, at, targetVars, counters>>

\* The program has ended: the send fails, and the timer is cancelled with it.  As long as
\* the scene still holds the closed stream (StreamClosed), the sink keeps its target.
SendFails ==
    /\ MayPoll /\ Polled.sent = "no" /\ sink[Polled.program] = "input" /\ Polled.program \notin running
    /\ \/ sink' = [sink EXCEPT ![Polled.program] = Disconnected]
       \/ UNCHANGED sink
    /\ extra_futures' = RemoveAt(extra_futures, at)
    /\ UNCHANGED <<input, closed, timer_events, waker, armed, pc, at, task_woken, running, inbox,
                   waiting, counters>>

\* The input stream of the program is full, or the sink is disconnected.
SendWaits ==
    /\ MayPoll /\ Polled.sent = "no"
    /\ \E p \in {Polled.program} :
           \/ sink[p] = "input" /\ p \in running /\ inbox[p] = Capacity /\ waiting' = waiting \cup {p}
           \/ sink[p] = Disconnected /\ UNCHANGED waiting
    /\ at' = at + 1
    /\ UNCHANGED <<input, closed, timerVars, pc, task_woken, sink, running, inbox, counters>>

EndPoll ==
    /\ pc = "sends" /\ at > Len(extra_futures)
    /\ pc' = "asleep" /\ at' = 1
    /\ UNCHANGED <<input, closed, timerVars, task_woken, targetVars, counters>>

Task == \/ BeginPoll \/ ReadRequest \/ NoMoreRequests \/ AwaitTimer \/ FireTimers
        \/ SendTimeOut \/ EndSend \/ SendFails \/ SendWaits \/ EndPoll

TimerNext ==
    \/ Task \/ Tick \/ DelayExpires \/ Request \/ CloseInput
    \/ \E p \in Clients : Read(p) \/ End(p) \/ Start(p)

TimerSpec == TimerInit /\ [][TimerNext]_programVars

\* A woken task is polled to the end, time passes, a Delay fires, and a program that runs
\* reads its input.
FairTimerSpec ==
    /\ TimerSpec /\ WF_programVars(Task) /\ WF_programVars(Tick) /\ WF_programVars(DelayExpires)
    /\ \A p \in Clients : WF_programVars(Read(p))

----------------------------------------------------------------------------
\* The task never sleeps through a timer (poll_fn of timer_subprogram): when nothing is about
\* to wake it, it has read all requests and a Delay runs up to the first timer, the timers
\* that its own sends put back included.
SleepsUntilFirstTimer ==
    pc = "asleep" /\ ~task_woken =>
        /\ input = <<>>
        /\ armed = IF timer_events = <<>> THEN Unset ELSE Max({0, timer_events[1].callback_offset})

\* The timer's state between its polls.
TimerIsReady == TimerTypeOK /\ SleepsUntilFirstTimer

\* The turns of timers that wait or are being sent.
Turns == timer_events \o extra_futures

\* A repeating timer keeps to its beat, whatever the delays (the requeueing in
\* fire_timer_events): it is due whole periods after its request, and does not build up: it is
\* waited for or sent only once.
TimersKeepTheirBeat ==
    /\ \A i, j \in DOMAIN Turns : Turns[i].serial = Turns[j].serial => i = j
    /\ \A i \in DOMAIN Turns :
           Requeues(Turns[i]) => (Turns[i].callback_offset - Turns[i].origin) % Turns[i].repeating = 0

Due(n) == \E i \in DOMAIN timer_events : timer_events[i].serial = n /\ timer_events[i].callback_offset <= 0
BeingSentAlone(n) ==
    \E t \in Range(extra_futures) :
        /\ t.serial = n /\ (t.sent # "no" \/ sink[t.program] = "input")
        /\ \A u \in Range(extra_futures) : u.program = t.program => u = t

\* A turn that has come is taken: a timer that has expired does not wait for ever in
\* timer_events (it fires, is cancelled, or the program ends), and a TimeOut to a program
\* that reads its messages is sent, however many others wait for programs that do not.
ExpiredTimerFires ==
    \A n \in 1..MaxRequests :
        /\ Due(n) ~> ~Due(n)
        /\ BeingSentAlone(n) ~> ~BeingSentAlone(n)
=============================================================================
