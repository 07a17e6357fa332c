------------------------ MODULE SceneScheduler_proofs ------------------------
(***************************************************************************)
(* Proofs, for any number of runners, threads, programs and slots, of the  *)
(* safety properties of SceneScheduler.                                    *)
(***************************************************************************)
EXTENDS SceneScheduler, TLAPS, SequenceTheorems

(***************************************************************************)
(* The inductive invariant                                                 *)
(***************************************************************************)
Rewaking(p) == \E a \in Threads : rewake[a] = p

\* A wake of a slot is recorded in is_awake or on its way to be (also when the
\* slot's Reawakener ignores further wakes); a process that is awake and not
\* being polled is queued or about to be.
WakeInv ==
    \A p \in Slots :
        /\ needs_poll[p] => future[p] # Empty /\ (is_awake[p] \/ Rewaking(p))
        /\ waker[p] = "spent" /\ future[p] # Empty => is_awake[p] \/ Rewaking(p)
        /\ future[p] = Waiting /\ is_awake[p] => InQueue(p) \/ Rewaking(p)

\* A runner that is outside of its loop polls nothing and steals nothing; only
\* runners poll without stealing.
RunnerShape ==
    /\ \A t \in Runners : runner[t] # "loop" => stack[t] = <<>> /\ lookup[t] = None
    /\ \A a \in Threads : \A i \in 1..Len(stack[a]) :
          ~stack[a][i].stolen => a \in Runners

\* The waker of a runner that sleeps, or is about to, is stored, or taken by a
\* thread that will invoke it, or invoked.
Parked ==
    \A t \in Runners : runner[t] \in {"idle_check", "pending"} =>
        thread_wakers[t] \/ woken[t] \/ \E a \in Threads : t \in notify[a]

IInv == /\ TypeOK
        /\ PollExclusion
        /\ NextProcessIsLowestFree
        /\ ProcessIdIsOwn
        /\ WakeInv
        /\ RunnerShape
        /\ Parked
        /\ SomeRunnerWillLook

(***************************************************************************)
(* Facts about the helpers                                                 *)
(***************************************************************************)
\* Push puts one element before the others.
LEMMA PushProperties ==
    ASSUME NEW S, NEW s \in Seq(S), NEW f \in S
    PROVE  /\ Push(f, s) \in Seq(S)
           /\ Len(Push(f, s)) = Len(s) + 1
           /\ Push(f, s)[1] = f
           /\ \A i \in 2..Len(s)+1 : Push(f, s)[i] = s[i-1]
BY DEF Push

\* The tail of a sequence drops its first element and shifts the others.
LEMMA TailProperties ==
    ASSUME NEW S, NEW s \in Seq(S), s # <<>>
    PROVE  /\ Tail(s) \in Seq(S)
           /\ Head(s) \in S /\ Head(s) = s[1]
           /\ Len(s) \in Nat /\ Len(s) > 0 /\ Len(Tail(s)) = Len(s) - 1
           /\ \A i \in 1..Len(s)-1 : Tail(s)[i] = s[i+1]
OBVIOUS

\* What PushIfAbsent returns.
LEMMA PushIfAbsentProperties ==
    ASSUME awake_processes \in Seq(Slots), NEW p \in Slots
    PROVE  /\ PushIfAbsent(p) \in Seq(Slots)
           /\ \E i \in 1..Len(PushIfAbsent(p)) : PushIfAbsent(p)[i] = p
           /\ \A q \in Slots : InQueue(q) =>
                 \E i \in 1..Len(PushIfAbsent(p)) : PushIfAbsent(p)[i] = q
<1>1. CASE InQueue(p)
  BY <1>1 DEF PushIfAbsent, InQueue
<1>2. CASE ~InQueue(p)
  <2>1. PushIfAbsent(p) = Append(awake_processes, p)
    BY <1>2 DEF PushIfAbsent
  <2>2. /\ Append(awake_processes, p) \in Seq(Slots)
        /\ Len(Append(awake_processes, p)) = Len(awake_processes) + 1
        /\ Append(awake_processes, p)[Len(awake_processes) + 1] = p
        /\ \A i \in 1..Len(awake_processes) :
              Append(awake_processes, p)[i] = awake_processes[i]
    OBVIOUS
  <2> QED BY <2>1, <2>2 DEF InQueue
<1> QED BY <1>1, <1>2

\* Retaining the entries other than p gives a list of slots that holds them.
LEMMA RemoveFromQueueProperties ==
    ASSUME awake_processes \in Seq(Slots), NEW p \in Slots, RemoveFromQueue(p)
    PROVE  /\ awake_processes' \in Seq(Slots)
           /\ \A q \in Slots : q # p /\ InQueue(q) => InQueue(q)'
           /\ awake_processes = <<>> => awake_processes' = <<>>
<1>0. PICK n \in 0..Len(awake_processes) : \E keep \in [1..n -> 1..Len(awake_processes)] :
        /\ {keep[i] : i \in 1..n} = {k \in 1..Len(awake_processes) : awake_processes[k] # p}
        /\ awake_processes' = [i \in 1..n |-> awake_processes[keep[i]]]
  BY DEF RemoveFromQueue
<1>1. PICK keep \in [1..n -> 1..Len(awake_processes)] :
        /\ {keep[i] : i \in 1..n} = {k \in 1..Len(awake_processes) : awake_processes[k] # p}
        /\ awake_processes' = [i \in 1..n |-> awake_processes[keep[i]]]
  BY <1>0
<1>2. n \in Nat /\ Len(awake_processes) \in Nat
  OBVIOUS
<1>3. \A i \in 1..n : awake_processes[keep[i]] \in Slots
  OBVIOUS
<1>4. awake_processes' \in Seq(Slots) /\ Len(awake_processes') = n
  BY <1>1, <1>2, <1>3
<1>5. ASSUME NEW q \in Slots, q # p, InQueue(q)
      PROVE  InQueue(q)'
  <2>1. PICK k \in 1..Len(awake_processes) : awake_processes[k] = q
    BY <1>5 DEF InQueue
  <2>2. k \in {keep[i] : i \in 1..n}
    BY <2>1, <1>1, <1>5
  <2>3. PICK i \in 1..n : keep[i] = k
    BY <2>2
  <2> QED BY <2>1, <2>3, <1>1, <1>4 DEF InQueue
<1>6. awake_processes = <<>> => awake_processes' = <<>>
  BY <1>1, <1>4
<1> QED BY <1>4, <1>5, <1>6

\* A locked section that takes a thread waker: the runner whose waker was taken
\* is in the caller's notify set, and nobody else's changes.
LEMMA TakeThreadWakerEffect ==
    ASSUME TypeOK, NEW a \in Threads, notify[a] = {}, TakeThreadWaker(a)
    PROVE  /\ thread_wakers' \in [Runners -> BOOLEAN]
           /\ notify' \in [Threads -> SUBSET Runners]
           /\ \A t \in Runners : thread_wakers[t] => thread_wakers'[t] \/ t \in notify'[a]
           /\ \A b \in Threads : notify[b] \subseteq notify'[b]
           /\ \/ \A t \in Runners : ~thread_wakers[t]
              \/ \E t \in Runners : t \in notify'[a]
<1>1. CASE /\ \A t \in Runners : ~thread_wakers[t]
           /\ UNCHANGED <<thread_wakers, notify>>
  BY <1>1 DEF TypeOK
<1>2. CASE \E t \in Runners :
          /\ thread_wakers[t]
          /\ \A u \in Runners : u < t => ~thread_wakers[u]
          /\ thread_wakers' = [thread_wakers EXCEPT ![t] = FALSE]
          /\ notify' = [notify EXCEPT ![a] = {t}]
  <2>1. PICK t \in Runners :
          /\ thread_wakers' = [thread_wakers EXCEPT ![t] = FALSE]
          /\ notify' = [notify EXCEPT ![a] = {t}]
    BY <1>2
  <2>2. notify' \in [Threads -> SUBSET Runners] /\ notify'[a] = {t}
    BY <2>1 DEF TypeOK
  <2>3. \A b \in Threads : b # a => notify'[b] = notify[b]
    BY <2>1 DEF TypeOK
  <2>4. thread_wakers' \in [Runners -> BOOLEAN]
    BY <2>1 DEF TypeOK
  <2>5. \A u \in Runners : u # t => thread_wakers'[u] = thread_wakers[u]
    BY <2>1 DEF TypeOK
  <2> QED BY <2>2, <2>3, <2>4, <2>5
<1> QED BY <1>1, <1>2 DEF TakeThreadWaker

\* SceneCoreWaker::wake_by_ref: the process, if it exists, is awake and queued,
\* nothing leaves the queue and nothing falls asleep.
LEMMA SceneWakeEffect ==
    ASSUME TypeOK, NEW a \in Threads, NEW p \in Slots, notify[a] = {}, SceneWake(a, p)
    PROVE  /\ is_awake' \in [Slots -> BOOLEAN]
           /\ awake_processes' \in Seq(Slots)
           /\ \A q \in Slots : is_awake[q] => is_awake'[q]
           /\ \A q \in Slots : q # p => is_awake'[q] = is_awake[q]
           /\ \A q \in Slots : InQueue(q) => InQueue(q)'
           /\ future[p] # Empty => is_awake'[p] /\ InQueue(p)'
           /\ future[p] = Empty => is_awake' = is_awake
<1>1. CASE future[p] # Empty
  <2>1. /\ is_awake' = [is_awake EXCEPT ![p] = TRUE]
        /\ awake_processes' = PushIfAbsent(p)
    BY <1>1 DEF SceneWake
  <2>4. /\ PushIfAbsent(p) \in Seq(Slots)
        /\ \E i \in 1..Len(PushIfAbsent(p)) : PushIfAbsent(p)[i] = p
        /\ \A q \in Slots : InQueue(q) =>
              \E i \in 1..Len(PushIfAbsent(p)) : PushIfAbsent(p)[i] = q
    BY PushIfAbsentProperties DEF TypeOK
  <2>2. /\ awake_processes' \in Seq(Slots)
        /\ \A q \in Slots : InQueue(q) => InQueue(q)'
        /\ InQueue(p)'
    BY <2>1, <2>4 DEF InQueue
  <2>3. /\ is_awake' \in [Slots -> BOOLEAN] /\ is_awake'[p]
        /\ \A q \in Slots : q # p => is_awake'[q] = is_awake[q]
    BY <2>1 DEF TypeOK
  <2> QED BY <1>1, <2>2, <2>3
<1>2. CASE future[p] = Empty
  BY <1>2 DEF SceneWake, TypeOK, InQueue
<1> QED BY <1>1, <1>2

\* Invoking a slot's last waker, by type.
LEMMA InvokeWakerType ==
    ASSUME TypeOK, NEW a \in Threads, NEW p \in Slots, notify[a] = {}, InvokeWaker(a, p)
    PROVE  /\ thread_wakers' \in [Runners -> BOOLEAN]
           /\ notify' \in [Threads -> SUBSET Runners]
           /\ is_awake' \in [Slots -> BOOLEAN]
           /\ awake_processes' \in Seq(Slots)
           /\ needs_poll' \in [Slots -> BOOLEAN]
           /\ waker' \in [Slots -> {"scene", "armed", "spent"}]
           /\ rewake' \in [Threads -> Slots \cup {None}]
<1>1. CASE waker[p] = "scene"
  <2>1. SceneWake(a, p) /\ UNCHANGED <<waker, rewake>>
    BY <1>1 DEF InvokeWaker
  <2>2. TakeThreadWaker(a)
    BY <2>1 DEF SceneWake
  <2> QED BY <2>1, <2>2, SceneWakeEffect, TakeThreadWakerEffect DEF TypeOK, InvokeWaker
<1>2. CASE waker[p] # "scene"
  <2>1. needs_poll' \in [Slots -> BOOLEAN] /\ UNCHANGED <<is_awake, awake_processes, thread_wakers, notify>>
    BY <1>2 DEF InvokeWaker, TypeOK, wakeVars
  <2>2. waker' \in [Slots -> {"scene", "armed", "spent"}] /\ rewake' \in [Threads -> Slots \cup {None}]
    <3>1. \/ waker' = [waker EXCEPT ![p] = "spent"] /\ rewake' = [rewake EXCEPT ![a] = p]
          \/ waker' = waker /\ rewake' = rewake
      BY <1>2 DEF InvokeWaker
    <3>2. waker \in [Slots -> {"scene", "armed", "spent"}] /\ rewake \in [Threads -> Slots \cup {None}]
      BY DEF TypeOK
    <3> QED BY <3>1, <3>2
  <2> QED BY <2>1, <2>2 DEF TypeOK
<1> QED BY <1>1, <1>2

\* Allocating a slot, by type.
LEMMA StartProcessType ==
    ASSUME TypeOK, NEW a \in Threads, NEW j \in Programs \cup {Background},
           notify[a] = {}, StartProcess(a, j)
    PROVE  /\ future' \in [Slots -> {Empty, Waiting} \cup Threads]
           /\ is_awake' \in [Slots -> BOOLEAN]
           /\ job' \in [Slots -> Programs \cup {Background, Finishing, None}]
           /\ next_process' \in 0..MaxProcesses
           /\ awake_processes' \in Seq(Slots)
           /\ waker' \in [Slots -> {"scene", "armed", "spent"}]
           /\ needs_poll' \in [Slots -> BOOLEAN]
           /\ thread_wakers' \in [Runners -> BOOLEAN]
           /\ notify' \in [Threads -> SUBSET Runners]
<1>1. TakeThreadWaker(a) /\ next_process \in Slots
  BY DEF StartProcess
<1>2. next_process' \in 0..MaxProcesses
  BY SchedulerAssumption DEF StartProcess, TypeOK, Slots
<1>3. awake_processes' \in Seq(Slots)
  BY <1>1 DEF StartProcess, TypeOK
<1> QED BY <1>1, <1>2, <1>3, TakeThreadWakerEffect DEF StartProcess, TypeOK

\* The innermost poll of a thread is of a slot, and leaves a stack behind.
LEMMA TopType ==
    ASSUME TypeOK, NEW a \in Threads, stack[a] # <<>>
    PROVE  /\ Top(a) \in Slots /\ Top(a) = stack[a][1].proc
           /\ Head(stack[a]) = stack[a][1] /\ Head(stack[a]).stolen \in BOOLEAN
           /\ Tail(stack[a]) \in Seq(Frame)
<1>1. stack[a] \in Seq(Frame)
  BY DEF TypeOK
<1>2. Head(stack[a]) \in Frame /\ Head(stack[a]) = stack[a][1] /\ Tail(stack[a]) \in Seq(Frame)
  BY <1>1, TailProperties
<1> QED BY <1>2 DEF Top, Frame

\* Every poll in progress is of a slot.
LEMMA FrameSlots ==
    ASSUME TypeOK, NEW b \in Threads, NEW i \in 1..Len(stack[b])
    PROVE  stack[b][i].proc \in Slots /\ stack[b][i].stolen \in BOOLEAN
<1>1. stack[b] \in Seq(Frame)
  BY DEF TypeOK
<1>2. stack[b][i] \in Frame
  BY <1>1, ElementOfSeq
<1> QED BY <1>2 DEF Frame

\* Beginning a poll, by type.
LEMMA BeginPollType ==
    ASSUME TypeOK, NEW a \in Threads, NEW p \in Slots, NEW stolen \in BOOLEAN,
           BeginPoll(a, p, stolen)
    PROVE  /\ future' \in [Slots -> {Empty, Waiting} \cup Threads]
           /\ stack' \in [Threads -> Seq(Frame)]
           /\ waker' \in [Slots -> {"scene", "armed", "spent"}]
           /\ needs_poll' \in [Slots -> BOOLEAN]
<1>1. [proc |-> p, stolen |-> stolen] \in Frame
  BY DEF Frame
<1>2. Push([proc |-> p, stolen |-> stolen], stack[a]) \in Seq(Frame)
  BY <1>1, PushProperties DEF TypeOK
<1> QED BY <1>2 DEF BeginPoll, TypeOK

(***************************************************************************)
(* Type correctness                                                        *)
(***************************************************************************)
LEMMA TypeInit == Init => TypeOK
<1> SUFFICES ASSUME Init PROVE TypeOK
  OBVIOUS
<1>1. 0 \in 0..MaxProcesses
  BY SchedulerAssumption
<1>2. awake_processes \in Seq(Slots) /\ stack \in [Threads -> Seq(Frame)]
  BY DEF Init
<1>3. notify \in [Threads -> SUBSET Runners]
  BY DEF Init
<1> QED BY <1>1, <1>2, <1>3 DEF Init, TypeOK

\* Every action keeps the variables in their types.
LEMMA TypeStep == TypeOK /\ [Next]_vars => TypeOK'
<1> SUFFICES ASSUME TypeOK, [Next]_vars PROVE TypeOK'
  OBVIOUS
<1> USE DEF tableVars, progVars, wakeVars, ghostVars, runnerVars, threadVars, sceneFlags
<1>1. ASSUME NEW a \in Threads, NEW p \in Slots, Wake(a, p) PROVE TypeOK'
  <2>1. notify[a] = {} /\ InvokeWaker(a, p)
    BY <1>1 DEF Wake, InCode, AtRest
  <2> QED BY <1>1, <2>1, InvokeWakerType DEF TypeOK, Wake
<1>2. ASSUME NEW a \in Threads, NEW p \in Slots, StaleWake(a, p) PROVE TypeOK'
  <2>1. notify[a] = {} /\ SceneWake(a, p) /\ TakeThreadWaker(a)
    BY <1>2 DEF StaleWake, InCode, AtRest, SceneWake
  <2> QED BY <1>2, <2>1, SceneWakeEffect, TakeThreadWakerEffect DEF TypeOK, StaleWake
<1>3. ASSUME NEW a \in Threads, Rewake(a) PROVE TypeOK'
  <2>1. /\ rewake[a] \in Slots /\ notify[a] = {}
        /\ SceneWake(a, rewake[a]) /\ TakeThreadWaker(a)
    BY <1>3 DEF Rewake, SceneWake, TypeOK
  <2>2. rewake' \in [Threads -> Slots \cup {None}]
    BY <1>3 DEF Rewake, TypeOK
  <2> QED BY <1>3, <2>1, <2>2, SceneWakeEffect, TakeThreadWakerEffect DEF TypeOK, Rewake
<1>4. ASSUME NEW a \in Threads, NEW t \in Runners, NotifyThread(a, t) PROVE TypeOK'
  BY <1>4 DEF NotifyThread, TypeOK
<1>5. ASSUME NEW a \in Threads, NEW g \in Programs, StartProgram(a, g) PROVE TypeOK'
  <2>1. notify[a] = {} /\ StartProcess(a, g) /\ next_process \in Slots
    BY <1>5 DEF StartProgram, InCode, AtRest, StartProcess
  <2>2. program' \in [Programs -> {"unstarted", "running", "removed", "ended"}]
    BY <1>5 DEF StartProgram, TypeOK
  <2>3. process_id' \in [Programs -> Slots \cup {None}]
    BY <1>5, <2>1 DEF StartProgram, TypeOK
  <2> QED BY <1>5, <2>1, <2>2, <2>3, StartProcessType DEF TypeOK, StartProgram
<1>6. ASSUME NEW a \in Threads, StartBackground(a) PROVE TypeOK'
  <2>1. notify[a] = {} /\ StartProcess(a, Background)
    BY <1>6 DEF StartBackground, InCode, AtRest
  <2> QED BY <1>6, <2>1, StartProcessType DEF TypeOK, StartBackground
<1>7. ASSUME NEW a \in Threads, Stop(a) PROVE TypeOK'
  BY <1>7 DEF Stop, StopWakers, TypeOK
<1>8. ASSUME NEW a \in Threads, NotifyOnNextIdle(a) PROVE TypeOK'
  BY <1>8 DEF NotifyOnNextIdle, TypeOK
<1>9. ASSUME NEW a \in Threads, NEW g \in Programs, RemoveProgram(a, g) PROVE TypeOK'
  BY <1>9 DEF RemoveProgram, TypeOK
<1>10. ASSUME NEW a \in Threads, NEW g \in Programs, ClearProcessId(a, g) PROVE TypeOK'
  <2>1. Top(a) \in Slots
    BY <1>10, TopType DEF ClearProcessId
  <2> QED BY <1>10, <2>1 DEF ClearProcessId, ProcessIdAfterEnd, TypeOK
<1>11. ASSUME NEW a \in Threads, PollPending(a) PROVE TypeOK'
  <2>1. Top(a) \in Slots /\ Tail(stack[a]) \in Seq(Frame) /\ Head(stack[a]).stolen \in BOOLEAN
    BY <1>11, TopType DEF PollPending
  <2>2. awake_processes' \in Seq(Slots)
    BY <1>11, <2>1, PushIfAbsentProperties DEF PollPending, RequeueIfAwake, TypeOK
  <2>3. rewake' \in [Threads -> Slots \cup {None}]
    BY <1>11, <2>1 DEF PollPending, RequeueIfAwake, TypeOK
  <2> QED BY <1>11, <2>1, <2>2, <2>3 DEF PollPending, EndPoll, TypeOK
<1>12. ASSUME NEW a \in Threads, PollReady(a) PROVE TypeOK'
  <2>1. Top(a) \in Slots /\ Tail(stack[a]) \in Seq(Frame) /\ Head(stack[a]).stolen \in BOOLEAN
    BY <1>12, TopType DEF PollReady
  <2>2. awake_processes' \in Seq(Slots)
    BY <1>12, <2>1, RemoveFromQueueProperties DEF PollReady, TypeOK
  <2>3. next_process' \in 0..MaxProcesses
    BY <1>12, <2>1, SchedulerAssumption DEF PollReady, NextAfterEnd, TypeOK, Slots
  <2> QED BY <1>12, <2>1, <2>2, <2>3 DEF PollReady, EndPoll, TypeOK
<1>13. ASSUME NEW a \in Threads, NEW g \in Programs, StealLookup(a, g) PROVE TypeOK'
  BY <1>13 DEF StealLookup, TypeOK
<1>14. ASSUME NEW a \in Threads, StealTake(a) PROVE TypeOK'
  <2>1. lookup[a] \in Programs
    BY <1>14 DEF StealTake, TypeOK
  <2>2. CASE process_id[lookup[a]] # None /\ future[process_id[lookup[a]]] = Waiting
    <3>1. process_id[lookup[a]] \in Slots /\ BeginPoll(a, process_id[lookup[a]], TRUE)
      BY <1>14, <2>1, <2>2 DEF StealTake, TypeOK
    <3> QED BY <1>14, <3>1, BeginPollType DEF StealTake, TypeOK
  <2>3. CASE ~(process_id[lookup[a]] # None /\ future[process_id[lookup[a]]] = Waiting)
    BY <1>14, <2>3 DEF StealTake, TypeOK
  <2> QED BY <2>2, <2>3
<1>15. ASSUME NEW t \in Runners, RunnerEnds(t) PROVE TypeOK'
  BY <1>15 DEF RunnerEnds, TypeOK
<1>16. ASSUME NEW t \in Runners, RunnerParks(t) PROVE TypeOK'
  BY <1>16 DEF RunnerParks, TypeOK
<1>17. ASSUME NEW t \in Runners, IdleNotified(t) PROVE TypeOK'
  <2>1. notify[t] = {} /\ t \in Threads
    BY <1>17 DEF IdleNotified, AtRest, Threads
  <2>2. CASE \E p \in Slots : future[p] # Empty /\ InvokeWaker(t, p)
    BY <1>17, <2>1, <2>2, InvokeWakerType DEF IdleNotified, TypeOK
  <2>3. CASE UNCHANGED <<is_awake, wakeVars, ghostVars, notify, rewake>>
    BY <1>17, <2>3 DEF IdleNotified, TypeOK
  <2> QED BY <1>17, <2>2, <2>3 DEF IdleNotified
<1>18. ASSUME NEW t \in Runners, RunnerPending(t) PROVE TypeOK'
  BY <1>18 DEF RunnerPending, TypeOK
<1>19. ASSUME NEW t \in Runners, RunnerPops(t) PROVE TypeOK'
  <2>1. Head(awake_processes) \in Slots /\ Tail(awake_processes) \in Seq(Slots)
    BY <1>19, TailProperties DEF RunnerPops, TypeOK
  <2>2. t \in Threads
    BY DEF Threads
  <2>3. CASE Runnable(Head(awake_processes))
    <3>1. BeginPoll(t, Head(awake_processes), FALSE)
      BY <1>19, <2>3 DEF RunnerPops
    <3> QED BY <1>19, <2>1, <2>2, <2>3, <3>1, BeginPollType DEF RunnerPops, TypeOK
  <2>4. CASE ~Runnable(Head(awake_processes))
    BY <1>19, <2>1, <2>4 DEF RunnerPops, TypeOK
  <2> QED BY <2>3, <2>4
<1>20. ASSUME NEW t \in Runners, RunnerResumes(t) PROVE TypeOK'
  BY <1>20 DEF RunnerResumes, TypeOK
<1>21. ASSUME NEW t \in Runners, RunnerDropped(t) PROVE TypeOK'
  BY <1>21 DEF RunnerDropped, TypeOK
<1>22. ASSUME NEW t \in Runners, RunnerPolledAnyway(t) PROVE TypeOK'
  BY <1>22 DEF RunnerPolledAnyway, TypeOK
<1>23. CASE UNCHANGED vars
  BY <1>23 DEF vars, TypeOK
<1> QED
  BY <1>1, <1>2, <1>3, <1>4, <1>5, <1>6, <1>7, <1>8, <1>9, <1>10, <1>11, <1>12, <1>13,
     <1>14, <1>15, <1>16, <1>17, <1>18, <1>19, <1>20, <1>21, <1>22, <1>23
  DEF Next, CodeStep, PollReturns, SchedulerStep, RunCoreStep, ExecutorStep

(***************************************************************************)
(* The process table: slots, stacks and process ids.                       *)
(***************************************************************************)
\* The actions that move a process in or out of its slot.
MovesFuture ==
    \/ \E a \in Threads : StartBackground(a) \/ PollPending(a) \/ PollReady(a) \/ StealTake(a)
    \/ \E a \in Threads, g \in Programs : StartProgram(a, g)
    \/ \E t \in Runners : RunnerPops(t)

\* Starting to poll a waiting process keeps polls exclusive.
LEMMA BeginPollExclusion ==
    ASSUME TypeOK, PollExclusion, NEW a \in Threads, NEW p \in Slots, NEW stolen \in BOOLEAN,
           future[p] = Waiting, BeginPoll(a, p, stolen)
    PROVE  PollExclusion'
<1> DEFINE f == [proc |-> p, stolen |-> stolen]
<1>1. f \in Frame /\ f.proc = p
  BY DEF Frame
<1> HIDE DEF f
<1>2. stack[a] \in Seq(Frame) /\ Len(stack[a]) \in Nat
  BY DEF TypeOK
<1>3. /\ Push(f, stack[a]) \in Seq(Frame)
      /\ Len(Push(f, stack[a])) = Len(stack[a]) + 1
      /\ Push(f, stack[a])[1] = f
      /\ \A i \in 2..Len(stack[a])+1 : Push(f, stack[a])[i] = stack[a][i-1]
  <2>1. \A g \in Frame, s \in Seq(Frame) :
           /\ Push(g, s) \in Seq(Frame)
           /\ Len(Push(g, s)) = Len(s) + 1
           /\ Push(g, s)[1] = g
           /\ \A i \in 2..Len(s)+1 : Push(g, s)[i] = s[i-1]
    BY PushProperties
  <2> QED BY <1>1, <1>2, <2>1
<1>4. \A b \in Threads : \A i \in 1..Len(stack[b]) : stack[b][i].proc # p
  BY SchedulerAssumption DEF PollExclusion
<1>5. \A b \in Threads : \A i \in 1..Len(stack[b]) : stack[b][i].proc \in Slots
  BY FrameSlots
<1>6. /\ stack'[a] = Push(f, stack[a])
      /\ \A b \in Threads : b # a => stack'[b] = stack[b]
      /\ \A q \in Slots : future'[q] = IF q = p THEN a ELSE future[q]
  BY DEF BeginPoll, TypeOK, f
<1> SUFFICES ASSUME NEW b \in Threads, NEW i \in 1..Len(stack'[b])
             PROVE  /\ future'[stack'[b][i].proc] = b
                    /\ \A j \in 1..Len(stack'[b]) :
                          stack'[b][i].proc = stack'[b][j].proc => i = j
  BY DEF PollExclusion
<1>7. CASE b # a
  BY <1>4, <1>5, <1>6, <1>7 DEF PollExclusion
<1>8. CASE b = a
  <2>1. \A j \in 2..Len(stack[a])+1 :
           stack'[a][j] = stack[a][j-1] /\ j-1 \in 1..Len(stack[a])
    <3>1. \A j \in 2..Len(stack[a])+1 : j-1 \in 1..Len(stack[a])
      BY <1>2
    <3> QED BY <1>3, <1>6, <3>1
  <2>2. stack'[a][1].proc = p /\ Len(stack'[a]) = Len(stack[a]) + 1
    BY <1>1, <1>3, <1>6
  <2>3. ASSUME NEW j \in 2..Len(stack[a])+1
        PROVE  stack'[a][j].proc # p /\ future'[stack'[a][j].proc] = a
    <3>1. /\ stack'[a][j].proc = stack[a][j-1].proc
          /\ stack[a][j-1].proc # p /\ stack[a][j-1].proc \in Slots
      BY <1>4, <1>5, <2>1
    <3>2. future[stack[a][j-1].proc] = a
      BY <2>1 DEF PollExclusion
    <3> QED BY <1>6, <3>1, <3>2
  <2>4. \A j, k \in 2..Len(stack[a])+1 : stack'[a][j].proc = stack'[a][k].proc => j = k
    <3> SUFFICES ASSUME NEW j \in 2..Len(stack[a])+1, NEW k \in 2..Len(stack[a])+1,
                        stack'[a][j].proc = stack'[a][k].proc
                 PROVE  j = k
      OBVIOUS
    <3>1. stack[a][j-1].proc = stack[a][k-1].proc
      BY <2>1
    <3>2. j-1 = k-1
      BY <2>1, <3>1 DEF PollExclusion
    <3> QED BY <3>2
  <2>5. \A j \in 1..Len(stack'[a]) : j = 1 \/ j \in 2..Len(stack[a])+1
    BY <1>2, <2>2
  <2>6. future'[p] = a
    BY <1>6
  <2> QED BY <1>8, <2>2, <2>3, <2>4, <2>5, <2>6
<1> QED BY <1>7, <1>8

\* Returning the innermost process keeps polls exclusive.
LEMMA EndPollExclusion ==
    ASSUME TypeOK, PollExclusion, NEW a \in Threads, stack[a] # <<>>, EndPoll(a),
           NEW v, future' = [future EXCEPT ![Top(a)] = v]
    PROVE  PollExclusion'
<1>1. /\ stack[a] \in Seq(Frame) /\ Len(stack[a]) \in Nat /\ Len(stack[a]) > 0
      /\ Len(Tail(stack[a])) = Len(stack[a]) - 1
      /\ \A i \in 1..Len(stack[a])-1 : Tail(stack[a])[i] = stack[a][i+1]
  <2>1. stack[a] \in Seq(Frame)
    BY DEF TypeOK
  <2> QED BY <2>1, TailProperties
<1>2. Top(a) = stack[a][1].proc /\ Top(a) \in Slots
  BY TopType
<1>3. \A b \in Threads : \A i \in 1..Len(stack[b]) : stack[b][i].proc \in Slots
  BY FrameSlots
<1>4. /\ stack'[a] = Tail(stack[a])
      /\ \A b \in Threads : b # a => stack'[b] = stack[b]
      /\ \A q \in Slots : q # Top(a) => future'[q] = future[q]
  BY <1>2 DEF EndPoll, TypeOK
<1>5. future[Top(a)] = a /\ 1 \in 1..Len(stack[a])
  BY <1>1, <1>2 DEF PollExclusion
<1> SUFFICES ASSUME NEW b \in Threads, NEW i \in 1..Len(stack'[b])
             PROVE  /\ future'[stack'[b][i].proc] = b
                    /\ \A j \in 1..Len(stack'[b]) :
                          stack'[b][i].proc = stack'[b][j].proc => i = j
  BY DEF PollExclusion
<1>6. CASE b # a
  <2>1. stack[b][i].proc # Top(a)
    BY <1>4, <1>5, <1>6 DEF PollExclusion
  <2> QED BY <1>3, <1>4, <1>6, <2>1 DEF PollExclusion
<1>7. CASE b = a
  <2>1. \A j \in 1..Len(stack'[a]) : /\ j+1 \in 1..Len(stack[a])
                                     /\ stack'[a][j] = stack[a][j+1] /\ j+1 # 1
    BY <1>1, <1>4
  <2>2. /\ i+1 \in 1..Len(stack[a]) /\ i+1 # 1
        /\ stack'[a][i].proc = stack[a][i+1].proc
    BY <1>7, <2>1
  <2>3. future'[stack'[a][i].proc] = a
    <3>1. stack[a][i+1].proc # stack[a][1].proc
      BY <1>5, <2>2 DEF PollExclusion
    <3>2. future[stack[a][i+1].proc] = a /\ stack[a][i+1].proc \in Slots
      BY <1>3, <2>2 DEF PollExclusion
    <3> QED BY <1>2, <1>4, <2>2, <3>1, <3>2
  <2>4. ASSUME NEW j \in 1..Len(stack'[a]), stack'[a][i].proc = stack'[a][j].proc
        PROVE  i = j
    <3>1. j+1 \in 1..Len(stack[a]) /\ stack'[a][j].proc = stack[a][j+1].proc
      BY <2>1
    <3>2. stack[a][i+1].proc = stack[a][j+1].proc
      BY <2>2, <2>4, <3>1
    <3>3. i+1 = j+1
      BY <2>2, <3>1, <3>2 DEF PollExclusion
    <3> QED BY <3>3, <1>7
  <2> QED BY <1>7, <2>3, <2>4
<1> QED BY <1>6, <1>7

\* start_process uses a slot that is empty, so nothing that is polled moves, and
\* next_process becomes the next empty slot.
LEMMA StartProcessTable ==
    ASSUME TypeOK, PollExclusion, NextProcessIsLowestFree, ProcessIdIsOwn,
           NEW a \in Threads, NEW j, StartProcess(a, j), UNCHANGED stack
    PROVE  /\ PollExclusion' /\ NextProcessIsLowestFree'
           /\ \A g \in Programs : process_id[g] # next_process
<1> DEFINE p == next_process
<1>1. p \in Slots /\ future[p] = Empty
  BY DEF StartProcess, NextProcessIsLowestFree
<1>2. \A q \in Slots : future'[q] = IF q = p THEN Waiting ELSE future[q]
  BY DEF StartProcess, TypeOK
<1>3. PollExclusion'
  <2>1. ASSUME NEW b \in Threads, NEW i \in 1..Len(stack[b])
        PROVE  future'[stack[b][i].proc] = b
    <3>1. stack[b][i].proc \in Slots /\ future[stack[b][i].proc] = b
      BY FrameSlots DEF PollExclusion
    <3>2. b # Empty
      BY SchedulerAssumption
    <3> QED BY <1>1, <1>2, <3>1, <3>2
  <2> QED BY <2>1 DEF PollExclusion
<1>4. NextProcessIsLowestFree'
  <2>1. PICK n \in p+1..MaxProcesses :
          /\ n \in Slots => future[n] = Empty
          /\ \A m \in p+1..n-1 : future[m] # Empty
          /\ next_process' = n
    BY DEF StartProcess
  <2>2. p \in Nat /\ n \in Nat /\ n > p /\ MaxProcesses \in Nat
    BY <1>1, <2>1, SchedulerAssumption DEF Slots
  <2>3. next_process' \in Slots => future'[next_process'] = Empty
    BY <1>2, <2>1, <2>2
  <2>4. ASSUME NEW q \in Slots, q < next_process' PROVE future'[q] # Empty
    <3>1. CASE q < p
      BY <1>2, <2>2, <3>1, SchedulerAssumption DEF NextProcessIsLowestFree, Slots
    <3>2. CASE q = p
      BY <1>1, <1>2, <3>2, SchedulerAssumption
    <3>3. CASE q > p
      <4>1. q \in p+1..n-1 /\ q # p
        BY <2>1, <2>2, <2>4, <3>3 DEF Slots
      <4> QED BY <1>2, <2>1, <4>1
    <3> QED BY <3>1, <3>2, <3>3, <1>1 DEF Slots
  <2> QED BY <2>3, <2>4 DEF NextProcessIsLowestFree
<1>5. \A g \in Programs : process_id[g] # next_process
  BY <1>1, SchedulerAssumption DEF ProcessIdIsOwn, Slots
<1> QED BY <1>3, <1>4, <1>5

\* Starting to poll a waiting process leaves the table consistent.
LEMMA BeginPollTable ==
    ASSUME TypeOK, PollExclusion, NextProcessIsLowestFree, ProcessIdIsOwn,
           NEW a \in Threads, NEW p \in Slots, NEW stolen \in BOOLEAN,
           future[p] = Waiting, BeginPoll(a, p, stolen),
           UNCHANGED <<job, next_process, process_id>>
    PROVE  PollExclusion' /\ NextProcessIsLowestFree' /\ ProcessIdIsOwn'
<1>1. PollExclusion'
  BY BeginPollExclusion
<1>2. \A q \in Slots : future'[q] = IF q = p THEN a ELSE future[q]
  BY DEF BeginPoll, TypeOK
<1>3. \A q \in Slots : future'[q] = Empty <=> future[q] = Empty
  BY <1>2, SchedulerAssumption
<1>4. NextProcessIsLowestFree' /\ ProcessIdIsOwn'
  BY <1>3 DEF NextProcessIsLowestFree, ProcessIdIsOwn, TypeOK
<1> QED BY <1>1, <1>4

\* The parts of the invariant that are about the process table.
TableInv == PollExclusion /\ NextProcessIsLowestFree /\ ProcessIdIsOwn

\* The empty table satisfies it.
LEMMA TableInit == Init => TableInv
BY SchedulerAssumption
   DEF Init, TableInv, PollExclusion, NextProcessIsLowestFree, ProcessIdIsOwn, Slots

\* Every action keeps the process table consistent.
LEMMA TableStep == TypeOK /\ TableInv /\ [Next]_vars => TableInv'
<1> SUFFICES ASSUME TypeOK, PollExclusion, NextProcessIsLowestFree, ProcessIdIsOwn, [Next]_vars
             PROVE  TableInv'
  BY DEF TableInv
<1> USE DEF tableVars, progVars, wakeVars, ghostVars, runnerVars, threadVars, sceneFlags
<1>1. ASSUME NEW a \in Threads, NEW g \in Programs, StartProgram(a, g) PROVE TableInv'
  <2>1. StartProcess(a, g) /\ UNCHANGED stack
    BY <1>1 DEF StartProgram
  <2>2. /\ PollExclusion' /\ NextProcessIsLowestFree'
        /\ \A h \in Programs : process_id[h] # next_process
    BY <2>1, StartProcessTable
  <2>3. /\ next_process \in Slots
        /\ \A q \in Slots : q # next_process => future'[q] = future[q] /\ job'[q] = job[q]
        /\ future'[next_process] = Waiting /\ job'[next_process] = g
    BY <2>1 DEF StartProcess, TypeOK
  <2>4. process_id'[g] = next_process /\ \A h \in Programs : h # g => process_id'[h] = process_id[h]
    BY <1>1 DEF StartProgram, TypeOK
  <2>5. ProcessIdIsOwn'
    <3> SUFFICES ASSUME NEW h \in Programs, process_id'[h] # None
                 PROVE  job'[process_id'[h]] = h /\ future'[process_id'[h]] # Empty
      BY DEF ProcessIdIsOwn
    <3>1. CASE h = g
      BY <2>3, <2>4, <3>1, SchedulerAssumption
    <3>2. CASE h # g
      <4>1. process_id[h] \in Slots /\ process_id'[h] = process_id[h]
        BY <2>4, <3>2 DEF TypeOK
      <4> QED BY <2>2, <2>3, <4>1 DEF ProcessIdIsOwn
    <3> QED BY <3>1, <3>2
  <2> QED BY <2>2, <2>5 DEF TableInv
<1>2. ASSUME NEW a \in Threads, StartBackground(a) PROVE TableInv'
  <2>1. StartProcess(a, Background) /\ UNCHANGED <<stack, process_id>>
    BY <1>2 DEF StartBackground
  <2>2. /\ PollExclusion' /\ NextProcessIsLowestFree'
        /\ \A h \in Programs : process_id[h] # next_process
    BY <2>1, StartProcessTable
  <2>3. \A q \in Slots : q # next_process => future'[q] = future[q] /\ job'[q] = job[q]
    BY <2>1 DEF StartProcess, TypeOK
  <2>5. ProcessIdIsOwn'
    BY <2>1, <2>2, <2>3 DEF ProcessIdIsOwn, TypeOK
  <2> QED BY <2>2, <2>5 DEF TableInv
<1>3. ASSUME NEW a \in Threads, PollPending(a) PROVE TableInv'
  <2>1. /\ stack[a] # <<>> /\ EndPoll(a) /\ future' = [future EXCEPT ![Top(a)] = Waiting]
        /\ UNCHANGED <<job, next_process, process_id>>
    BY <1>3 DEF PollPending
  <2>2. PollExclusion'
    BY <2>1, EndPollExclusion
  <2>3. Top(a) \in Slots /\ future[Top(a)] # Empty
    <3>1. Top(a) \in Slots /\ Top(a) = stack[a][1].proc
      BY <2>1, TopType
    <3>2. 1 \in 1..Len(stack[a])
      BY <2>1 DEF TypeOK
    <3> QED BY <3>1, <3>2, SchedulerAssumption DEF PollExclusion
  <2>4. \A q \in Slots : future'[q] = IF q = Top(a) THEN Waiting ELSE future[q]
    BY <2>1 DEF TypeOK
  <2>5. \A q \in Slots : future'[q] = Empty <=> future[q] = Empty
    BY <2>3, <2>4, SchedulerAssumption
  <2>6. NextProcessIsLowestFree' /\ ProcessIdIsOwn'
    BY <2>1, <2>5 DEF NextProcessIsLowestFree, ProcessIdIsOwn, TypeOK
  <2> QED BY <2>2, <2>6 DEF TableInv
<1>4. ASSUME NEW a \in Threads, PollReady(a) PROVE TableInv'
  <2> DEFINE p == Top(a)
  <2>1. /\ stack[a] # <<>> /\ EndPoll(a) /\ future' = [future EXCEPT ![p] = Empty]
        /\ job[p] \in {Background, Finishing} /\ UNCHANGED <<job, process_id>>
        /\ next_process' = IF p < next_process THEN p ELSE next_process
    BY <1>4 DEF PollReady, NextAfterEnd
  <2>2. PollExclusion'
    BY <2>1, EndPollExclusion
  <2>3. p \in Slots
    BY <2>1, TopType
  <2>4. \A q \in Slots : future'[q] = IF q = p THEN Empty ELSE future[q]
    BY <2>1 DEF TypeOK
  <2>5. NextProcessIsLowestFree'
    <3>1. next_process \in Nat /\ p \in Nat /\ \A q \in Slots : q \in Nat
      BY <2>3, SchedulerAssumption DEF TypeOK, Slots
    <3>2. CASE p < next_process
      <4>1. next_process' = p
        BY <2>1, <3>2
      <4>2. ASSUME NEW q \in Slots, q < p PROVE q # p /\ q < next_process
        BY <3>1, <3>2, <4>2
      <4> QED BY <2>3, <2>4, <4>1, <4>2 DEF NextProcessIsLowestFree
    <3>3. CASE ~(p < next_process)
      <4>1. next_process' = next_process
        BY <2>1, <3>3
      <4>2. ASSUME NEW q \in Slots, q < next_process PROVE q # p
        BY <3>1, <3>3, <4>2
      <4> QED BY <2>3, <2>4, <4>1, <4>2 DEF NextProcessIsLowestFree
    <3> QED BY <3>2, <3>3
  <2>6. ProcessIdIsOwn'
    <3> SUFFICES ASSUME NEW h \in Programs, process_id[h] # None
                 PROVE  job[process_id[h]] = h /\ future'[process_id[h]] # Empty
      BY <2>1 DEF ProcessIdIsOwn
    <3>1. process_id[h] \in Slots /\ job[process_id[h]] = h /\ future[process_id[h]] # Empty
      BY DEF ProcessIdIsOwn, TypeOK
    <3>2. process_id[h] # p
      BY <2>1, <3>1, SchedulerAssumption
    <3> QED BY <2>4, <3>1, <3>2
  <2> QED BY <2>2, <2>5, <2>6 DEF TableInv
<1>5. ASSUME NEW a \in Threads, StealTake(a) PROVE TableInv'
  <2> DEFINE p == process_id[lookup[a]]
  <2>1. lookup[a] \in Programs /\ UNCHANGED <<job, next_process, process_id>>
    BY <1>5 DEF StealTake, TypeOK
  <2>2. CASE p # None /\ future[p] = Waiting
    <3>1. p \in Slots /\ BeginPoll(a, p, TRUE)
      BY <1>5, <2>1, <2>2 DEF StealTake, TypeOK
    <3> QED BY <2>1, <2>2, <3>1, BeginPollTable DEF TableInv
  <2>3. CASE ~(p # None /\ future[p] = Waiting)
    <3>1. UNCHANGED <<future, stack, job, next_process, process_id>>
      BY <1>5, <2>1, <2>3 DEF StealTake
    <3>2. PollExclusion'
      BY <3>1 DEF TableInv, PollExclusion
    <3>3. NextProcessIsLowestFree' /\ ProcessIdIsOwn'
      BY <3>1 DEF TableInv, NextProcessIsLowestFree, ProcessIdIsOwn
    <3> QED BY <3>2, <3>3 DEF TableInv
  <2> QED BY <2>2, <2>3
<1>6. ASSUME NEW t \in Runners, RunnerPops(t) PROVE TableInv'
  <2> DEFINE p == Head(awake_processes)
  <2>1. p \in Slots /\ t \in Threads /\ UNCHANGED <<job, next_process, process_id>>
    BY <1>6, TailProperties DEF RunnerPops, TypeOK, Threads
  <2>2. CASE Runnable(p)
    <3>1. BeginPoll(t, p, FALSE) /\ future[p] = Waiting
      BY <1>6, <2>2 DEF RunnerPops, Runnable
    <3> QED BY <2>1, <3>1, BeginPollTable DEF TableInv
  <2>3. CASE ~Runnable(p)
    BY <1>6, <2>1, <2>3
    DEF RunnerPops, TableInv, PollExclusion, NextProcessIsLowestFree, ProcessIdIsOwn
  <2> QED BY <2>2, <2>3
<1>7. ASSUME NEW a \in Threads, NEW g \in Programs, ClearProcessId(a, g) PROVE TableInv'
  <2>1. /\ Top(a) \in Slots /\ job[Top(a)] = g
        /\ UNCHANGED <<future, stack, next_process>>
        /\ \A q \in Slots : q # Top(a) => job'[q] = job[q]
        /\ process_id'[g] = None
        /\ \A h \in Programs : h # g => process_id'[h] = process_id[h]
    BY <1>7, TopType DEF ClearProcessId, ProcessIdAfterEnd, TypeOK
  <2>2. ProcessIdIsOwn'
    <3> SUFFICES ASSUME NEW h \in Programs, process_id'[h] # None
                 PROVE  job'[process_id'[h]] = h /\ future'[process_id'[h]] # Empty
      BY DEF ProcessIdIsOwn
    <3>1. h # g /\ process_id'[h] = process_id[h] /\ process_id[h] \in Slots
      BY <2>1 DEF TypeOK
    <3>2. job[process_id[h]] = h /\ future[process_id[h]] # Empty
      BY <3>1 DEF ProcessIdIsOwn
    <3> QED BY <2>1, <3>1, <3>2
  <2> QED BY <2>1, <2>2 DEF TableInv, PollExclusion, NextProcessIsLowestFree
<1>8. CASE UNCHANGED <<future, stack, next_process, job, process_id>>
  BY <1>8 DEF TableInv, PollExclusion, NextProcessIsLowestFree, ProcessIdIsOwn
<1>9. ASSUME ~MovesFuture, ~ \E a \in Threads, g \in Programs : ClearProcessId(a, g)
      PROVE  UNCHANGED <<future, stack, next_process, job, process_id>>
  BY <1>9
  DEF Next, CodeStep, PollReturns, SchedulerStep, RunCoreStep, ExecutorStep, vars, MovesFuture,
      Wake, StaleWake, Rewake, NotifyThread, Stop, NotifyOnNextIdle, RemoveProgram,
      StealLookup, RunnerEnds, RunnerParks, IdleNotified, RunnerPending,
      RunnerResumes, RunnerDropped, RunnerPolledAnyway
<1> QED BY <1>1, <1>2, <1>3, <1>4, <1>5, <1>6, <1>7, <1>8, <1>9 DEF MovesFuture

(***************************************************************************)
(* No wake is lost by the process table.                                   *)
(***************************************************************************)
LEMMA WakeInit == Init => WakeInv
BY SchedulerAssumption DEF Init, WakeInv

\* A SceneCoreWaker, invoked for any slot, keeps every wake recorded.
LEMMA SceneWakeKeeps ==
    ASSUME TypeOK, WakeInv, NEW a \in Threads, NEW p \in Slots, notify[a] = {},
           SceneWake(a, p), UNCHANGED <<future, waker, needs_poll>>,
           \A q \in Slots : q # p /\ Rewaking(q) => Rewaking(q)'
    PROVE  WakeInv'
<1>1. /\ \A q \in Slots : is_awake[q] => is_awake'[q]
      /\ \A q \in Slots : q # p => is_awake'[q] = is_awake[q]
      /\ \A q \in Slots : InQueue(q) => InQueue(q)'
      /\ future[p] # Empty => is_awake'[p] /\ InQueue(p)'
      /\ future[p] = Empty => is_awake' = is_awake
  BY SceneWakeEffect
<1> SUFFICES ASSUME NEW q \in Slots
             PROVE  /\ needs_poll[q] => future[q] # Empty /\ (is_awake'[q] \/ Rewaking(q)')
                    /\ waker[q] = "spent" /\ future[q] # Empty => is_awake'[q] \/ Rewaking(q)'
                    /\ future[q] = Waiting /\ is_awake'[q] => InQueue(q)' \/ Rewaking(q)'
  BY DEF WakeInv
<1>2. CASE q # p
  BY <1>1, <1>2 DEF WakeInv
<1>3. CASE q = p /\ future[p] # Empty
  BY <1>1, <1>3
<1>4. CASE q = p /\ future[p] = Empty
  BY <1>4, SchedulerAssumption DEF WakeInv
<1> QED BY <1>2, <1>3, <1>4

\* The waker of a slot's last poll keeps every wake recorded.
LEMMA InvokeWakerKeeps ==
    ASSUME TypeOK, WakeInv, NEW a \in Threads, NEW p \in Slots, AtRest(a),
           future[p] # Empty, InvokeWaker(a, p), UNCHANGED future
    PROVE  WakeInv'
<1>1. notify[a] = {} /\ rewake[a] = None
  BY DEF AtRest
<1>2. /\ needs_poll'[p] /\ \A q \in Slots : q # p => needs_poll'[q] = needs_poll[q]
  BY DEF InvokeWaker, TypeOK
<1>3. CASE waker[p] = "scene"
  <2>1. SceneWake(a, p) /\ UNCHANGED <<waker, rewake>>
    BY <1>3 DEF InvokeWaker
  <2>2. /\ \A q \in Slots : q # p => is_awake'[q] = is_awake[q]
        /\ \A q \in Slots : InQueue(q) => InQueue(q)'
        /\ is_awake'[p] /\ InQueue(p)'
    BY <1>1, <2>1, SceneWakeEffect
  <2>3. \A q \in Slots : Rewaking(q)' = Rewaking(q)
    BY <2>1 DEF Rewaking
  <2> QED BY <1>2, <2>1, <2>2, <2>3 DEF WakeInv
<1>4. CASE waker[p] = "armed"
  <2>1. /\ rewake' = [rewake EXCEPT ![a] = p] /\ UNCHANGED <<is_awake, awake_processes>>
        /\ \A q \in Slots : q # p => waker'[q] = waker[q]
    BY <1>4 DEF InvokeWaker, wakeVars, TypeOK
  <2>2. \A q \in Slots : q # None
    BY SchedulerAssumption DEF Slots
  <2>3. Rewaking(p)'
    BY <2>1 DEF Rewaking, TypeOK
  <2>4. \A q \in Slots : Rewaking(q) => Rewaking(q)'
    BY <1>1, <2>1, <2>2 DEF Rewaking, TypeOK
  <2>5. \A q \in Slots : InQueue(q)' = InQueue(q)
    BY <2>1 DEF InQueue
  <2> QED BY <1>2, <2>1, <2>3, <2>4, <2>5 DEF WakeInv
<1>5. CASE waker[p] = "spent"
  <2>1. UNCHANGED <<waker, rewake, is_awake, awake_processes>>
    BY <1>5 DEF InvokeWaker, wakeVars
  <2>2. \A q \in Slots : InQueue(q)' = InQueue(q) /\ Rewaking(q)' = Rewaking(q)
    BY <2>1 DEF InQueue, Rewaking
  <2> QED BY <1>2, <1>5, <2>1, <2>2 DEF WakeInv
<1> QED BY <1>3, <1>4, <1>5 DEF TypeOK

\* A new process is awake and queued.
LEMMA StartProcessKeeps ==
    ASSUME TypeOK, WakeInv, NEW a \in Threads, NEW j, StartProcess(a, j), UNCHANGED rewake
    PROVE  WakeInv'
<1>0. PICK p \in Slots : p = next_process
  BY DEF StartProcess
<1>1. /\ \A q \in Slots : q # p => /\ future'[q] = future[q] /\ is_awake'[q] = is_awake[q]
                                   /\ waker'[q] = waker[q] /\ needs_poll'[q] = needs_poll[q]
      /\ future'[p] = Waiting /\ is_awake'[p] /\ waker'[p] = "scene"
  BY <1>0 DEF StartProcess, TypeOK
<1>2. awake_processes' = Append(awake_processes, p) /\ awake_processes \in Seq(Slots)
  BY <1>0 DEF StartProcess, TypeOK
<1>3. /\ Len(awake_processes') = Len(awake_processes) + 1 /\ Len(awake_processes) \in Nat
      /\ awake_processes'[Len(awake_processes) + 1] = p
      /\ \A i \in 1..Len(awake_processes) : awake_processes'[i] = awake_processes[i]
  BY <1>1, <1>2
<1>4. InQueue(p)' /\ \A q \in Slots : InQueue(q) => InQueue(q)'
  BY <1>3 DEF InQueue
<1>5. \A q \in Slots : Rewaking(q)' = Rewaking(q)
  BY DEF Rewaking
<1> QED BY <1>1, <1>4, <1>5, SchedulerAssumption DEF WakeInv

\* Every action keeps every wake recorded.
LEMMA WakeStep == TypeOK /\ TableInv /\ WakeInv /\ [Next]_vars => WakeInv'
<1> SUFFICES ASSUME TypeOK, PollExclusion, WakeInv, [Next]_vars
             PROVE  WakeInv'
  BY DEF TableInv
<1> USE DEF tableVars, progVars, wakeVars, ghostVars, runnerVars, threadVars, sceneFlags
<1>1. ASSUME NEW a \in Threads, NEW p \in Slots, Wake(a, p) PROVE WakeInv'
  BY <1>1, InvokeWakerKeeps DEF Wake, InCode
<1>2. ASSUME NEW a \in Threads, NEW p \in Slots, StaleWake(a, p) PROVE WakeInv'
  BY <1>2, SceneWakeKeeps DEF StaleWake, InCode, AtRest, Rewaking
<1>3. ASSUME NEW a \in Threads, Rewake(a) PROVE WakeInv'
  <2>1. /\ rewake[a] \in Slots /\ notify[a] = {} /\ SceneWake(a, rewake[a])
        /\ UNCHANGED <<future, waker, needs_poll>>
    BY <1>3 DEF Rewake, TypeOK
  <2>2. \A q \in Slots : q # rewake[a] /\ Rewaking(q) => Rewaking(q)'
    BY <1>3 DEF Rewake, Rewaking, TypeOK
  <2> QED BY <2>1, <2>2, SceneWakeKeeps
<1>4. ASSUME NEW t \in Runners, IdleNotified(t) PROVE WakeInv'
  <2>1. t \in Threads /\ AtRest(t) /\ UNCHANGED future
    BY <1>4 DEF IdleNotified, Threads
  <2>2. CASE \E p \in Slots : future[p] # Empty /\ InvokeWaker(t, p)
    BY <2>1, <2>2, InvokeWakerKeeps
  <2>3. CASE UNCHANGED <<is_awake, wakeVars, ghostVars, notify, rewake>>
    BY <2>1, <2>3 DEF WakeInv, InQueue, Rewaking
  <2> QED BY <1>4, <2>2, <2>3 DEF IdleNotified
<1>5. ASSUME NEW a \in Threads, NEW g \in Programs, StartProgram(a, g) PROVE WakeInv'
  BY <1>5, StartProcessKeeps DEF StartProgram
<1>6. ASSUME NEW a \in Threads, StartBackground(a) PROVE WakeInv'
  BY <1>6, StartProcessKeeps DEF StartBackground
<1>7. ASSUME NEW a \in Threads, PollPending(a) PROVE WakeInv'
  <2>0. PICK p \in Slots : p = Top(a)
    BY <1>7, TopType DEF PollPending
  <2>1. /\ stack[a] # <<>> /\ future' = [future EXCEPT ![p] = Waiting]
        /\ RequeueIfAwake(a, p, Head(stack[a]).stolen)
        /\ UNCHANGED <<is_awake, waker, needs_poll>> /\ rewake[a] = None
    BY <1>7, <2>0 DEF PollPending, InCode, AtRest
  <2>2. p \in Slots /\ Head(stack[a]).stolen \in BOOLEAN /\ future[p] = a
    <3>1. p \in Slots /\ p = stack[a][1].proc /\ Head(stack[a]).stolen \in BOOLEAN
      BY <2>0, <2>1, TopType
    <3>2. 1 \in 1..Len(stack[a])
      BY <2>1 DEF TypeOK
    <3> QED BY <3>1, <3>2 DEF PollExclusion
  <2>3. \A q \in Slots : future'[q] = IF q = p THEN Waiting ELSE future[q]
    BY <2>1 DEF TypeOK
  <2>4. future[p] # Empty
    BY <2>2, SchedulerAssumption
  <2>5. \A q \in Slots : Rewaking(q) => Rewaking(q)'
    <3>1. \A q \in Slots : q # None
      BY SchedulerAssumption DEF Slots
    <3> QED BY <2>1, <3>1 DEF RequeueIfAwake, Rewaking, TypeOK
  <2>6. \A q \in Slots : InQueue(q) => InQueue(q)'
    <3>1. CASE awake_processes' = awake_processes
      BY <3>1 DEF InQueue
    <3>2. CASE awake_processes' = PushIfAbsent(p)
      <4>1. \A q \in Slots : InQueue(q) =>
                 \E i \in 1..Len(PushIfAbsent(p)) : PushIfAbsent(p)[i] = q
        BY <2>2, PushIfAbsentProperties DEF TypeOK
      <4> QED BY <3>2, <4>1 DEF InQueue
    <3> QED BY <2>1, <3>1, <3>2 DEF RequeueIfAwake
  <2>7. is_awake[p] => InQueue(p)' \/ Rewaking(p)'
    <3>1. CASE is_awake[p] /\ Head(stack[a]).stolen
      BY <2>1, <3>1 DEF RequeueIfAwake, Rewaking, TypeOK
    <3>2. CASE is_awake[p] /\ ~Head(stack[a]).stolen
      <4>1. awake_processes' = PushIfAbsent(p)
        BY <2>1, <3>2 DEF RequeueIfAwake
      <4>2. \E i \in 1..Len(PushIfAbsent(p)) : PushIfAbsent(p)[i] = p
        BY <2>2, PushIfAbsentProperties DEF TypeOK
      <4> QED BY <4>1, <4>2 DEF InQueue
    <3> QED BY <3>1, <3>2
  <2>8. Waiting # Empty
    BY SchedulerAssumption
  <2> QED BY <2>1, <2>2, <2>3, <2>4, <2>5, <2>6, <2>7, <2>8 DEF WakeInv
<1>8. ASSUME NEW a \in Threads, PollReady(a) PROVE WakeInv'
  <2>0. PICK p \in Slots : p = Top(a)
    BY <1>8, TopType DEF PollReady
  <2>1. /\ stack[a] # <<>> /\ UNCHANGED <<waker, rewake>>
        /\ \/ RemoveFromQueue(p)
           \/ awake_processes' = awake_processes
    BY <1>8, <2>0 DEF PollReady
  <2>3. /\ future'[p] = Empty /\ ~needs_poll'[p]
        /\ \A q \in Slots : q # p => /\ future'[q] = future[q] /\ is_awake'[q] = is_awake[q]
                                     /\ needs_poll'[q] = needs_poll[q]
    BY <1>8, <2>0 DEF PollReady, TypeOK
  <2>4. \A q \in Slots : q # p /\ InQueue(q) => InQueue(q)'
    <3>1. CASE RemoveFromQueue(p)
      BY <3>1, RemoveFromQueueProperties DEF TypeOK
    <3>2. CASE awake_processes' = awake_processes
      BY <3>2 DEF InQueue
    <3> QED BY <2>1, <3>1, <3>2
  <2>5. \A q \in Slots : Rewaking(q)' = Rewaking(q)
    BY <2>1 DEF Rewaking
  <2> QED BY <2>1, <2>3, <2>4, <2>5, SchedulerAssumption DEF WakeInv
<1>9. ASSUME NEW a \in Threads, StealTake(a) PROVE WakeInv'
  <2> DEFINE p == process_id[lookup[a]]
  <2>1. UNCHANGED <<is_awake, awake_processes, rewake>> /\ lookup[a] \in Programs
    BY <1>9 DEF StealTake, TypeOK
  <2>2. \A q \in Slots : InQueue(q)' = InQueue(q) /\ Rewaking(q)' = Rewaking(q)
    BY <2>1 DEF InQueue, Rewaking
  <2>3. CASE p # None /\ future[p] = Waiting
    <3>1. /\ p \in Slots
          /\ future'[p] = a /\ ~needs_poll'[p] /\ waker'[p] = "armed"
          /\ \A q \in Slots : q # p => /\ future'[q] = future[q] /\ waker'[q] = waker[q]
                                       /\ needs_poll'[q] = needs_poll[q]
      BY <1>9, <2>1, <2>3 DEF StealTake, BeginPoll, TypeOK
    <3>2. a # Waiting
      BY SchedulerAssumption
    <3> QED BY <2>1, <2>2, <3>1, <3>2 DEF WakeInv
  <2>4. CASE ~(p # None /\ future[p] = Waiting)
    BY <1>9, <2>1, <2>2, <2>4 DEF StealTake, WakeInv
  <2> QED BY <2>3, <2>4
<1>10. ASSUME NEW t \in Runners, RunnerPops(t) PROVE WakeInv'
  <2> DEFINE p == Head(awake_processes)
  <2>1. /\ awake_processes # <<>> /\ awake_processes' = Tail(awake_processes)
        /\ UNCHANGED rewake /\ t \in Threads
    BY <1>10 DEF RunnerPops, Threads
  <2>2. /\ awake_processes \in Seq(Slots) /\ p \in Slots /\ p = awake_processes[1]
        /\ Len(awake_processes) \in Nat
        /\ Len(awake_processes') = Len(awake_processes) - 1
        /\ \A i \in 1..Len(awake_processes)-1 : awake_processes'[i] = awake_processes[i+1]
    <3>1. awake_processes \in Seq(Slots)
      BY DEF TypeOK
    <3> QED BY <2>1, <3>1, TailProperties
  <2>3. ASSUME NEW q \in Slots, q # p, InQueue(q) PROVE InQueue(q)'
    <3>1. PICK i \in 1..Len(awake_processes) : awake_processes[i] = q
      BY <2>3 DEF InQueue
    <3>2. i - 1 \in 1..Len(awake_processes)-1 /\ (i - 1) + 1 = i
      BY <2>2, <2>3, <3>1
    <3>3. awake_processes'[i - 1] = q
      BY <2>2, <3>1, <3>2
    <3> QED BY <2>2, <3>2, <3>3 DEF InQueue
  <2>4. \A q \in Slots : Rewaking(q)' = Rewaking(q)
    BY <2>1 DEF Rewaking
  <2>5. CASE Runnable(p)
    <3>1. /\ future'[p] = t /\ ~needs_poll'[p] /\ waker'[p] = "scene"
          /\ \A q \in Slots : q # p => /\ future'[q] = future[q] /\ waker'[q] = waker[q]
                                       /\ needs_poll'[q] = needs_poll[q]
                                       /\ is_awake'[q] = is_awake[q]
      BY <1>10, <2>2, <2>5 DEF RunnerPops, BeginPoll, TypeOK
    <3>2. t # Waiting
      BY <2>1, SchedulerAssumption
    <3> QED BY <2>3, <2>4, <3>1, <3>2 DEF WakeInv
  <2>6. CASE ~Runnable(p)
    <3>1. UNCHANGED <<is_awake, future, waker, needs_poll>>
      BY <1>10, <2>6 DEF RunnerPops
    <3>2. ~(future[p] = Waiting /\ is_awake[p])
      BY <2>6 DEF Runnable
    <3> QED BY <2>3, <2>4, <3>1, <3>2 DEF WakeInv
  <2> QED BY <2>5, <2>6
<1>11. CASE UNCHANGED <<future, is_awake, waker, needs_poll, awake_processes, rewake>>
  BY <1>11 DEF WakeInv, InQueue, Rewaking
<1>12. ASSUME ~MovesFuture, ~ \E a \in Threads, p \in Slots : Wake(a, p) \/ StaleWake(a, p),
              ~ \E a \in Threads : Rewake(a), ~ \E t \in Runners : IdleNotified(t)
       PROVE  UNCHANGED <<future, is_awake, waker, needs_poll, awake_processes, rewake>>
  BY <1>12
  DEF Next, CodeStep, PollReturns, SchedulerStep, RunCoreStep, ExecutorStep, vars, MovesFuture,
      NotifyThread, Stop, NotifyOnNextIdle, RemoveProgram, ClearProcessId,
      StealLookup, RunnerEnds, RunnerParks, RunnerPending,
      RunnerResumes, RunnerDropped, RunnerPolledAnyway
<1> QED BY <1>1, <1>2, <1>3, <1>4, <1>5, <1>6, <1>7, <1>8, <1>9, <1>10, <1>11, <1>12
        DEF MovesFuture

(***************************************************************************)
(* No wake is lost between the threads.                                    *)
(***************************************************************************)
LEMMA RunnerInit == Init => RunnerShape /\ Parked /\ SomeRunnerWillLook
<1> SUFFICES ASSUME Init PROVE RunnerShape /\ Parked /\ SomeRunnerWillLook
  OBVIOUS
<1>1. RunnerShape
  BY DEF Init, RunnerShape, Threads
<1>2. Parked
  BY DEF Init, Parked
<1>3. SomeRunnerWillLook
  BY DEF Init, SomeRunnerWillLook
<1> QED BY <1>1, <1>2, <1>3

\* Every action keeps runners outside of their loops from polling.
LEMMA RunnerShapeStep == TypeOK /\ RunnerShape /\ [Next]_vars => RunnerShape'
<1> SUFFICES ASSUME TypeOK, RunnerShape, [Next]_vars PROVE RunnerShape'
  OBVIOUS
<1> USE DEF tableVars, progVars, wakeVars, ghostVars, runnerVars, threadVars, sceneFlags
<1>1. ASSUME NEW a \in Threads, PollPending(a) \/ PollReady(a) PROVE RunnerShape'
  <2>1. /\ stack[a] # <<>> /\ stack' = [stack EXCEPT ![a] = Tail(@)]
        /\ UNCHANGED <<runner, lookup>>
    BY <1>1 DEF PollPending, PollReady, EndPoll
  <2>2. stack[a] \in Seq(Frame)
    BY DEF TypeOK
  <2>3. /\ Len(stack[a]) \in Nat /\ Len(Tail(stack[a])) = Len(stack[a]) - 1
        /\ \A i \in 1..Len(stack[a])-1 : Tail(stack[a])[i] = stack[a][i+1]
    BY <2>1, <2>2, TailProperties
  <2>4. stack'[a] = Tail(stack[a]) /\ \A b \in Threads : b # a => stack'[b] = stack[b]
    BY <2>1 DEF TypeOK
  <2>5. ASSUME NEW b \in Threads, NEW i \in 1..Len(stack'[b]), ~stack'[b][i].stolen
        PROVE  b \in Runners
    <3>1. CASE b = a
      <4>1. i \in 1..Len(stack[a])-1
        BY <2>3, <2>4, <3>1
      <4>2. i+1 \in 1..Len(stack[a]) /\ stack'[a][i] = stack[a][i+1]
        BY <2>3, <2>4, <4>1
      <4> QED BY <2>5, <3>1, <4>2 DEF RunnerShape
    <3>2. CASE b # a
      BY <2>4, <2>5, <3>2 DEF RunnerShape
    <3> QED BY <3>1, <3>2
  <2>6. \A t \in Runners : t \in Threads
    BY DEF Threads
  <2>7. ASSUME NEW t \in Runners, runner'[t] # "loop"
        PROVE  stack'[t] = <<>> /\ lookup'[t] = None
    BY <2>1, <2>4, <2>6, <2>7 DEF RunnerShape
  <2> QED BY <2>5, <2>7 DEF RunnerShape
<1>2. ASSUME NEW a \in Threads, NEW p \in Slots, NEW stolen \in BOOLEAN, BeginPoll(a, p, stolen),
             a \in Runners => runner[a] = "loop", ~stolen => a \in Runners,
             UNCHANGED runner, \A t \in Runners : t # a => lookup'[t] = lookup[t]
      PROVE  RunnerShape'
  <2> DEFINE f == [proc |-> p, stolen |-> stolen]
  <2>1. f \in Frame /\ f.stolen = stolen
    BY DEF Frame
  <2>2. /\ stack'[a] = Push(f, stack[a]) /\ stack[a] \in Seq(Frame)
        /\ \A b \in Threads : b # a => stack'[b] = stack[b]
    BY <1>2 DEF BeginPoll, TypeOK
  <2> HIDE DEF f
  <2>3. /\ Push(f, stack[a]) \in Seq(Frame) /\ Len(stack[a]) \in Nat
        /\ Len(Push(f, stack[a])) = Len(stack[a]) + 1
        /\ Push(f, stack[a])[1] = f
        /\ \A i \in 2..Len(stack[a])+1 : Push(f, stack[a])[i] = stack[a][i-1]
    <3>1. \A g \in Frame, s \in Seq(Frame) :
             /\ Push(g, s) \in Seq(Frame)
             /\ Len(Push(g, s)) = Len(s) + 1
             /\ Push(g, s)[1] = g
             /\ \A i \in 2..Len(s)+1 : Push(g, s)[i] = s[i-1]
      BY PushProperties
    <3>2. stack[a] \in Seq(Frame) /\ Len(stack[a]) \in Nat
      BY <2>2
    <3> QED BY <2>1, <3>1, <3>2, Zenon
  <2>4. ASSUME NEW b \in Threads, NEW i \in 1..Len(stack'[b]), ~stack'[b][i].stolen
        PROVE  b \in Runners
    <3>1. CASE b # a
      BY <2>2, <2>4, <3>1 DEF RunnerShape
    <3>2. CASE b = a /\ i = 1
      BY <1>2, <2>1, <2>2, <2>3, <2>4, <3>2
    <3>3. CASE b = a /\ i # 1
      <4>1. /\ i-1 \in 1..Len(stack[a]) /\ stack'[a][i] = stack[a][i-1]
        BY <2>2, <2>3, <3>3
      <4> QED BY <2>4, <3>3, <4>1 DEF RunnerShape
    <3> QED BY <3>1, <3>2, <3>3
  <2>5. \A t \in Runners : t \in Threads
    BY DEF Threads
  <2>6. ASSUME NEW t \in Runners, runner'[t] # "loop"
        PROVE  stack'[t] = <<>> /\ lookup'[t] = None
    BY <1>2, <2>2, <2>5, <2>6 DEF RunnerShape
  <2> QED BY <2>4, <2>6 DEF RunnerShape
<1>3. ASSUME NEW a \in Threads, StealTake(a) PROVE RunnerShape'
  <2> DEFINE p == process_id[lookup[a]]
  <2>1. /\ lookup[a] \in Programs /\ lookup[a] # None /\ UNCHANGED runner
        /\ lookup' = [lookup EXCEPT ![a] = None]
    BY <1>3 DEF StealTake, TypeOK
  <2>2. /\ a \in Runners => runner[a] = "loop"
        /\ \A t \in Runners : t # a => lookup'[t] = lookup[t]
    BY <2>1 DEF RunnerShape, TypeOK, Threads
  <2>3. CASE p # None /\ future[p] = Waiting
    <3>1. p \in Slots /\ BeginPoll(a, p, TRUE)
      BY <1>3, <2>1, <2>3 DEF StealTake, TypeOK
    <3> QED BY <1>2, <2>1, <2>2, <3>1
  <2>4. CASE ~(p # None /\ future[p] = Waiting)
    <3>1. UNCHANGED stack
      BY <1>3, <2>4 DEF StealTake
    <3> QED BY <2>1, <2>2, <3>1 DEF RunnerShape
  <2> QED BY <2>3, <2>4
<1>4. ASSUME NEW t \in Runners, RunnerPops(t) PROVE RunnerShape'
  <2> DEFINE p == Head(awake_processes)
  <2>1. /\ p \in Slots /\ t \in Threads /\ runner[t] = "loop" /\ UNCHANGED <<runner, lookup>>
    BY <1>4, TailProperties DEF RunnerPops, AtLoop, TypeOK, Threads
  <2>2. CASE Runnable(p)
    <3>1. BeginPoll(t, p, FALSE)
      BY <1>4, <2>2 DEF RunnerPops
    <3> QED BY <1>2, <2>1, <3>1
  <2>3. CASE ~Runnable(p)
    <3>1. UNCHANGED stack
      BY <1>4, <2>3 DEF RunnerPops
    <3> QED BY <2>1, <3>1 DEF RunnerShape
  <2> QED BY <2>2, <2>3
<1>5. ASSUME NEW a \in Threads, NEW g \in Programs, StealLookup(a, g) PROVE RunnerShape'
  <2>1. /\ lookup' = [lookup EXCEPT ![a] = g] /\ UNCHANGED <<stack, runner>>
        /\ stack[a] = <<>> => a \in Outside
    BY <1>5 DEF StealLookup, InCode
  <2>2. \A t \in Runners : t \in Threads /\ t \notin Outside
    BY SchedulerAssumption DEF Threads
  <2>3. ASSUME NEW t \in Runners, runner[t] # "loop"
        PROVE  stack[t] = <<>> /\ lookup'[t] = None
    BY <2>1, <2>2, <2>3 DEF RunnerShape, TypeOK
  <2> QED BY <2>1, <2>3 DEF RunnerShape
<1>6. ASSUME NEW t \in Runners, RunCoreStep(t) \/ ExecutorStep(t) \/ RunnerPolledAnyway(t),
             ~RunnerPops(t)
      PROVE  RunnerShape'
  <2>1. UNCHANGED <<stack, lookup>> /\ \E v : runner' = [runner EXCEPT ![t] = v]
    BY <1>6 DEF RunCoreStep, ExecutorStep, RunnerEnds, RunnerParks, IdleNotified, RunnerPending,
                RunnerResumes, RunnerDropped, RunnerPolledAnyway
  <2>2. runner'[t] # "loop" => stack[t] = <<>> /\ lookup[t] = None
    BY <1>6 DEF RunCoreStep, ExecutorStep, RunnerEnds, RunnerParks, IdleNotified, RunnerPending,
                RunnerResumes, RunnerDropped, RunnerPolledAnyway, AtLoop, AtRest, RunnerShape, TypeOK
  <2>3. \A u \in Runners : u # t => runner'[u] = runner[u]
    BY <2>1 DEF TypeOK
  <2> QED BY <2>1, <2>2, <2>3 DEF RunnerShape
<1>7. CASE UNCHANGED <<stack, lookup, runner>>
  BY <1>7 DEF RunnerShape
<1>8. ASSUME NEW a \in Threads, CodeStep(a), ~ \E g \in Programs : StealLookup(a, g)
      PROVE  UNCHANGED <<stack, lookup, runner>>
  BY <1>8 DEF CodeStep, Wake, StaleWake, StartProgram, StartBackground, Stop, NotifyOnNextIdle
<1>9. ASSUME NEW a \in Threads, PollReturns(a), ~(PollPending(a) \/ PollReady(a))
      PROVE  UNCHANGED <<stack, lookup, runner>>
  BY <1>9 DEF PollReturns, RemoveProgram, ClearProcessId
<1>10. ASSUME NEW a \in Threads, SchedulerStep(a), ~StealTake(a)
      PROVE  UNCHANGED <<stack, lookup, runner>>
  BY <1>10 DEF SchedulerStep, Rewake, NotifyThread
<1>11. CASE UNCHANGED vars
  BY <1>7, <1>11 DEF vars
<1> QED BY <1>1, <1>3, <1>4, <1>5, <1>6, <1>7, <1>8, <1>9, <1>10, <1>11 DEF Next

\* Taking a thread waker keeps sleeping runners reachable, and makes some runner
\* look at the awake list, unless one has finished.
LEMMA TakeThreadWakerKeeps ==
    ASSUME TypeOK, Parked, NEW a \in Threads, notify[a] = {}, TakeThreadWaker(a),
           UNCHANGED woken, runner' \in [Runners -> {"loop", "idle_check", "pending", "done"}],
           \A u \in Runners : runner'[u] = "loop" \/ runner'[u] = runner[u]
    PROVE  Parked' /\ SomeRunnerWillLook'
<1>1. /\ \A t \in Runners : thread_wakers[t] => thread_wakers'[t] \/ t \in notify'[a]
      /\ \A b \in Threads : notify[b] \subseteq notify'[b]
      /\ \/ \A t \in Runners : ~thread_wakers[t]
         \/ \E t \in Runners : t \in notify'[a]
  BY TakeThreadWakerEffect
<1>2. Parked'
  <2> SUFFICES ASSUME NEW t \in Runners, runner'[t] \in {"idle_check", "pending"}
               PROVE  thread_wakers'[t] \/ woken[t] \/ \E b \in Threads : t \in notify'[b]
    BY DEF Parked
  <2>1. runner'[t] = runner[t]
    OBVIOUS
  <2> QED BY <1>1, <2>1 DEF Parked
<1>3. CASE \A t \in Runners : ~thread_wakers[t]
  <2>1. 1 \in Runners
    BY SchedulerAssumption DEF Runners
  <2>2. runner'[1] \in {"idle_check", "pending"} =>
           woken[1] \/ \E b \in Threads : 1 \in notify'[b]
    BY <1>1, <1>3, <2>1 DEF Parked
  <2> QED BY <1>2, <2>1, <2>2 DEF SomeRunnerWillLook, WillLook
<1>4. CASE \E t \in Runners : t \in notify'[a]
  BY <1>2, <1>4 DEF SomeRunnerWillLook, WillLook
<1> QED BY <1>1, <1>3, <1>4

\* Every action keeps sleeping runners reachable, and some runner looking at the
\* awake list while there is anything in it.
LEMMA LookStep ==
    TypeOK /\ TypeOK' /\ TableInv /\ RunnerShape /\ Parked /\ SomeRunnerWillLook /\ [Next]_vars
    => Parked' /\ SomeRunnerWillLook'
<1> SUFFICES ASSUME TypeOK, TypeOK', TableInv, RunnerShape, Parked, SomeRunnerWillLook, [Next]_vars
             PROVE  Parked' /\ SomeRunnerWillLook'
  OBVIOUS
<1> USE DEF tableVars, progVars, wakeVars, ghostVars, runnerVars, threadVars, sceneFlags
<1>0. runner' \in [Runners -> {"loop", "idle_check", "pending", "done"}]
  BY DEF TypeOK
<1>1. ASSUME NEW a \in Threads, TakeThreadWaker(a), notify[a] = {}, UNCHANGED runnerVars
      PROVE  Parked' /\ SomeRunnerWillLook'
  BY <1>0, <1>1, TakeThreadWakerKeeps
<1>2. CASE /\ UNCHANGED <<runner, woken, notify, thread_wakers>>
           /\ awake_processes = <<>> => awake_processes' = <<>>
  BY <1>2 DEF Parked, SomeRunnerWillLook, WillLook
<1>3. ASSUME NEW a \in Threads, NEW p \in Slots, Wake(a, p) PROVE Parked' /\ SomeRunnerWillLook'
  <2>1. notify[a] = {} /\ UNCHANGED runnerVars /\ InvokeWaker(a, p)
    BY <1>3 DEF Wake, InCode, AtRest
  <2>2. CASE waker[p] = "scene"
    BY <1>1, <2>1, <2>2 DEF InvokeWaker, SceneWake
  <2>3. CASE waker[p] # "scene"
    BY <1>2, <2>1, <2>3 DEF InvokeWaker
  <2> QED BY <2>2, <2>3
<1>4. ASSUME NEW a \in Threads, NEW p \in Slots, StaleWake(a, p) PROVE Parked' /\ SomeRunnerWillLook'
  BY <1>1, <1>4 DEF StaleWake, InCode, AtRest, SceneWake
<1>5. ASSUME NEW a \in Threads, Rewake(a) PROVE Parked' /\ SomeRunnerWillLook'
  BY <1>1, <1>5 DEF Rewake, SceneWake
<1>6. ASSUME NEW a \in Threads, NEW g \in Programs, StartProgram(a, g)
      PROVE  Parked' /\ SomeRunnerWillLook'
  BY <1>1, <1>6 DEF StartProgram, InCode, AtRest, StartProcess
<1>7. ASSUME NEW a \in Threads, StartBackground(a) PROVE Parked' /\ SomeRunnerWillLook'
  BY <1>1, <1>7 DEF StartBackground, InCode, AtRest, StartProcess
<1>8. ASSUME NEW t \in Runners, IdleNotified(t) PROVE Parked' /\ SomeRunnerWillLook'
  <2>1. /\ t \in Threads /\ notify[t] = {} /\ UNCHANGED woken
        /\ runner' = [runner EXCEPT ![t] = "loop"]
    BY <1>8 DEF IdleNotified, AtRest, Threads
  <2>2. runner'[t] = "loop" /\ \A u \in Runners : u # t => runner'[u] = runner[u]
    BY <2>1 DEF TypeOK
  <2>3. SomeRunnerWillLook'
    BY <2>2 DEF SomeRunnerWillLook, WillLook
  <2>4. CASE \E p \in Slots : waker[p] = "scene" /\ InvokeWaker(t, p)
    BY <1>0, <2>1, <2>2, <2>4, TakeThreadWakerKeeps DEF InvokeWaker, SceneWake
  <2>5. CASE UNCHANGED <<thread_wakers, notify>>
    BY <2>1, <2>2, <2>3, <2>5 DEF Parked
  <2>6. ASSUME NEW p \in Slots, InvokeWaker(t, p), waker[p] # "scene"
        PROVE  UNCHANGED <<thread_wakers, notify>>
    BY <2>6 DEF InvokeWaker
  <2> QED BY <1>8, <2>4, <2>5, <2>6 DEF IdleNotified
<1>9. ASSUME NEW a \in Threads, NEW t \in Runners, NotifyThread(a, t)
      PROVE  Parked' /\ SomeRunnerWillLook'
  <2>1. /\ woken'[t] /\ \A u \in Runners : woken[u] => woken'[u]
        /\ \A b \in Threads, u \in Runners : u # t /\ u \in notify[b] => u \in notify'[b]
        /\ UNCHANGED <<runner, thread_wakers, awake_processes>>
    BY <1>9 DEF NotifyThread, TypeOK
  <2>2. Parked'
    BY <2>1 DEF Parked
  <2>3. \A u \in Runners : WillLook(u) => WillLook(u)'
    BY <2>1 DEF WillLook
  <2> QED BY <2>1, <2>2, <2>3 DEF SomeRunnerWillLook
<1>10. ASSUME NEW a \in Threads, Stop(a) PROVE Parked' /\ SomeRunnerWillLook'
  <2>1. /\ notify[a] = {} /\ UNCHANGED <<runner, woken, awake_processes>>
        /\ notify' = [notify EXCEPT ![a] = StopWakers]
    BY <1>10 DEF Stop, InCode, AtRest
  <2>2. /\ \A u \in Runners : thread_wakers[u] => u \in notify'[a]
        /\ \A b \in Threads, u \in Runners : u \in notify[b] => u \in notify'[b]
    BY <2>1 DEF StopWakers, TypeOK
  <2>3. Parked'
    BY <2>1, <2>2 DEF Parked
  <2>4. \A u \in Runners : WillLook(u) => WillLook(u)'
    BY <2>1, <2>2 DEF WillLook
  <2> QED BY <2>1, <2>3, <2>4 DEF SomeRunnerWillLook
<1>11. ASSUME NEW a \in Threads, PollPending(a) PROVE Parked' /\ SomeRunnerWillLook'
  <2>1. /\ stack[a] # <<>> /\ UNCHANGED <<runner, woken, notify, thread_wakers>>
        /\ RequeueIfAwake(a, Top(a), Head(stack[a]).stolen)
    BY <1>11 DEF PollPending
  <2>2. CASE Head(stack[a]).stolen
    <3>1. UNCHANGED awake_processes
      BY <2>1, <2>2 DEF RequeueIfAwake
    <3> QED BY <1>2, <2>1, <3>1
  <2>3. CASE ~Head(stack[a]).stolen
    <3>1. Head(stack[a]) = stack[a][1] /\ 1 \in 1..Len(stack[a])
      BY <2>1, TopType DEF TypeOK
    <3>2. a \in Runners /\ runner[a] = "loop"
      BY <2>1, <2>3, <3>1 DEF RunnerShape
    <3> QED BY <2>1, <3>2 DEF Parked, SomeRunnerWillLook, WillLook
  <2> QED BY <2>2, <2>3
<1>12. ASSUME NEW a \in Threads, PollReady(a) PROVE Parked' /\ SomeRunnerWillLook'
  <2>1. /\ stack[a] # <<>> /\ UNCHANGED <<runner, woken, notify, thread_wakers>>
        /\ RemoveFromQueue(Top(a)) \/ UNCHANGED awake_processes
    BY <1>12 DEF PollReady
  <2>2. awake_processes = <<>> => awake_processes' = <<>>
    BY <2>1, TopType, RemoveFromQueueProperties DEF TypeOK
  <2> QED BY <1>2, <2>1, <2>2
<1>13. ASSUME NEW t \in Runners, RunnerEnds(t) PROVE Parked' /\ SomeRunnerWillLook'
  BY <1>13 DEF RunnerEnds, Parked, SomeRunnerWillLook, TypeOK
<1>14. ASSUME NEW t \in Runners, RunnerParks(t) PROVE Parked' /\ SomeRunnerWillLook'
  BY <1>14 DEF RunnerParks, Parked, SomeRunnerWillLook, TypeOK
<1>15. ASSUME NEW t \in Runners, RunnerPending(t) PROVE Parked' /\ SomeRunnerWillLook'
  BY <1>15 DEF RunnerPending, Parked, SomeRunnerWillLook, WillLook, TypeOK
<1>16. ASSUME NEW t \in Runners, RunnerPops(t) PROVE Parked' /\ SomeRunnerWillLook'
  BY <1>16 DEF RunnerPops, AtLoop, Parked, SomeRunnerWillLook, WillLook
<1>17. ASSUME NEW t \in Runners, RunnerResumes(t) \/ RunnerPolledAnyway(t)
       PROVE  Parked' /\ SomeRunnerWillLook'
  <2>1. /\ runner'[t] = "loop" /\ \A u \in Runners : u # t => runner'[u] = runner[u]
        /\ \A u \in Runners : u # t => woken'[u] = woken[u]
        /\ UNCHANGED <<notify, thread_wakers>>
    BY <1>17 DEF RunnerResumes, RunnerPolledAnyway, TypeOK
  <2> QED BY <2>1 DEF Parked, SomeRunnerWillLook, WillLook
<1>18. ASSUME NEW t \in Runners, RunnerDropped(t) PROVE Parked' /\ SomeRunnerWillLook'
  BY <1>18 DEF RunnerDropped, Parked, SomeRunnerWillLook, TypeOK
<1>19. ASSUME NEW a \in Threads,
              \/ \E g \in Programs : \/ StealLookup(a, g) \/ RemoveProgram(a, g)
                                     \/ ClearProcessId(a, g)
              \/ NotifyOnNextIdle(a) \/ StealTake(a)
       PROVE  Parked' /\ SomeRunnerWillLook'
  BY <1>2, <1>19 DEF StealLookup, RemoveProgram, ClearProcessId, NotifyOnNextIdle, StealTake
<1>20. CASE UNCHANGED vars
  BY <1>2, <1>20 DEF vars
<1> QED
  BY <1>3, <1>4, <1>5, <1>6, <1>7, <1>8, <1>9, <1>10, <1>11, <1>12, <1>13, <1>14, <1>15,
     <1>16, <1>17, <1>18, <1>19, <1>20
  DEF Next, CodeStep, PollReturns, SchedulerStep, RunCoreStep, ExecutorStep

(***************************************************************************)
(* The theorems                                                            *)
(***************************************************************************)
\* The inductive invariant holds in every reachable state.
THEOREM InvariantIsInductive == Spec => []IInv
<1>1. Init => IInv
  BY TypeInit, TableInit, WakeInit, RunnerInit DEF IInv, TableInv
<1>2. IInv /\ [Next]_vars => IInv'
  BY TypeStep, TableStep, WakeStep, RunnerShapeStep, LookStep DEF IInv, TableInv
<1> QED BY <1>1, <1>2, PTL DEF Spec

\* The variables keep their types.
THEOREM TypeCorrect == Spec => []TypeOK
BY InvariantIsInductive, PTL DEF IInv

\* A process is polled by one thread at a time, re-entrant polls included, and
\* stays in its slot until that poll returns.
THEOREM PollsAreExclusive == Spec => []PollExclusion
BY InvariantIsInductive, PTL DEF IInv

\* start_process always takes the lowest free slot.
THEOREM SlotsAreReused == Spec => []NextProcessIsLowestFree
BY InvariantIsInductive, PTL DEF IInv

\* steal_thread_for_program polls the process of the program it fetched.
THEOREM StealsPollTheirProgram == Spec => []ProcessIdIsOwn
BY InvariantIsInductive, PTL DEF IInv

\* The process table stays sound.
THEOREM ProcessTableIsAlwaysSound == Spec => []ProcessTableIsSound
BY TypeCorrect, SlotsAreReused, StealsPollTheirProgram, PTL DEF ProcessTableIsSound

\* A woken process that is not being polled is scheduled to be polled.
THEOREM NoWakeIsLost == Spec => []WokenIsScheduled
<1>1. IInv => WokenIsScheduled
  BY DEF IInv, WakeInv, WokenIsScheduled, Scheduled, Rewaking
<1> QED BY <1>1, InvariantIsInductive, PTL

\* While a process is queued, and until the scene ends on some runner, a runner
\* is going to look at the queue.
THEOREM NoThreadWakeIsLost == Spec => []SomeRunnerWillLook
BY InvariantIsInductive, PTL DEF IInv
=============================================================================
