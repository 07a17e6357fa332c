--------------------------- MODULE SceneScheduler ---------------------------
(***************************************************************************)
(* The cooperative scheduler of a scene (scene_core.rs, process_core.rs,   *)
(* thread_stealer.rs and Scene::run_scene_with_threads).                   *)
(*                                                                         *)
(* A scene owns a table of processes (boxed futures).  Any number of       *)
(* runner threads poll the future `run_core', which pops process indexes   *)
(* from `awake_processes' and polls the process found there.  While a      *)
(* process is being polled its code can wake other processes, start new    *)
(* ones, stop the scene, or `steal' the thread it is running on to poll    *)
(* another program re-entrantly (OutputSink::send_immediate does this).    *)
(* Threads that run no scene can do all of that as well.                   *)
(*                                                                         *)
(* Every action is one critical section of the scene core's mutex (or one  *)
(* call made outside of it), so all interleavings of the threads between   *)
(* two critical sections are explored.                                     *)
(***************************************************************************)
EXTENDS Integers, Sequences, FiniteSets

CONSTANTS NumRunners,   \* how many run_core futures there are
          Main,         \* the runner awaited by run_scene_with_threads' caller
          Outside,      \* threads that call into the scene but run no run_core
          MaxProcesses, \* bound: size of the process table
          Programs,     \* sub-programs that may be started (each once)
          Background,   \* marks a process that belongs to no program
          Finishing,    \* marks a program's process after its last await
          Empty,        \* the slot holds no process
          Waiting,      \* SceneProcessFuture::Waiting
          None          \* Rust's None, for slots, programs and threads

Runners == 1..NumRunners
Slots   == 0..MaxProcesses-1
Threads == Runners \cup Outside

ASSUME SchedulerAssumption ==
    /\ NumRunners \in Nat \ {0} /\ Main \in Runners
    /\ MaxProcesses \in Nat \ {0}
    /\ Outside \cap Runners = {}
    /\ None \notin Int \cup Programs
    /\ Background # Finishing
    /\ {Background, Finishing} \cap (Programs \cup {None}) = {}
    /\ Empty # Waiting /\ {Empty, Waiting} \cap Threads = {}

VARIABLES
    future,          \* per slot: Empty, Waiting, or the thread polling it
    is_awake,        \* SceneProcess::is_awake
    job,             \* what the (last) future of the slot is: program, background...
    next_process,    \* SceneCore::next_process
    awake_processes, \* SceneCore::awake_processes
    thread_wakers,   \* per runner: is its entry of thread_wakers Some?
    stopped,         \* SceneCore::stopped
    notify_when_idle,\* SceneCore::notify_when_idle
    program,         \* life of a sub-program: its entry of sub_programs
    process_id,      \* SubProgramCore::process_id
    waker,           \* kind of waker given to the slot's last poll
    needs_poll,      \* history: the last poll's waker was invoked since
    runner,          \* where each run_core future is
    woken,           \* the executor of the runner has been told to poll it again
    stack,           \* per thread: the polls it is inside of, innermost first
    notify,          \* per thread: thread wakers it has taken and must invoke
    rewake,          \* per thread: slot whose SceneCoreWaker it is about to invoke
    lookup           \* per thread: program whose process it is about to steal

tableVars  == <<future, is_awake, job, next_process>>
progVars   == <<program, process_id>>
wakeVars   == <<awake_processes, thread_wakers>>
ghostVars  == <<waker, needs_poll>>
runnerVars == <<runner, woken>>
threadVars == <<stack, notify, rewake, lookup>>
sceneFlags == <<stopped, notify_when_idle>>
vars == <<tableVars, progVars, wakeVars, ghostVars, runnerVars, threadVars, sceneFlags>>

Frame == [proc : Slots, stolen : BOOLEAN]

(***************************************************************************)
(* The one type invariant.                                                 *)
(***************************************************************************)
TypeOK ==
    /\ future \in [Slots -> {Empty, Waiting} \cup Threads]
    /\ is_awake \in [Slots -> BOOLEAN]
    /\ job \in [Slots -> Programs \cup {Background, Finishing, None}]
    /\ next_process \in 0..MaxProcesses
    /\ awake_processes \in Seq(Slots)
    /\ thread_wakers \in [Runners -> BOOLEAN]
    /\ stopped \in BOOLEAN
    /\ notify_when_idle \in BOOLEAN
    /\ program \in [Programs -> {"unstarted", "running", "removed", "ended"}]
    /\ process_id \in [Programs -> Slots \cup {None}]
    /\ waker \in [Slots -> {"scene", "armed", "spent"}]
    /\ needs_poll \in [Slots -> BOOLEAN]
    /\ runner \in [Runners -> {"loop", "idle_check", "pending", "done"}]
    /\ woken \in [Runners -> BOOLEAN]
    /\ stack \in [Threads -> Seq(Frame)]
    /\ notify \in [Threads -> SUBSET Runners]
    /\ rewake \in [Threads -> Slots \cup {None}]
    /\ lookup \in [Threads -> Programs \cup {None}]

(***************************************************************************)
(* Helpers                                                                 *)
(***************************************************************************)
InQueue(p) == \E i \in 1..Len(awake_processes) : awake_processes[i] = p
Top(a)     == Head(stack[a]).proc
Push(f, s) == <<f>> \o s

\* The awake list with p at its end, unless it is there already.
PushIfAbsent(p) == IF InQueue(p) THEN awake_processes ELSE Append(awake_processes, p)

\* awake_processes.retain(|pid| pid != p): the other entries stay, in their order.
RemoveFromQueue(p) ==
    \E n \in 0..Len(awake_processes) : \E keep \in [1..n -> 1..Len(awake_processes)] :
        /\ \A i, j \in 1..n : i < j => keep[i] < keep[j]
        /\ {keep[i] : i \in 1..n} = {k \in 1..Len(awake_processes) : awake_processes[k] # p}
        /\ awake_processes' = [i \in 1..n |-> awake_processes[keep[i]]]

\* Not in the middle of waking a thread, invoking a waker, or stealing.
AtRest(a) == notify[a] = {} /\ rewake[a] = None /\ lookup[a] = None

\* Thread a is executing code of its own: code outside of the scene or the
\* code of the process it polls.  Between taking a program out of the scene
\* and clearing its process_id, start_subprogram's closing code calls nothing.
InCode(a) ==
    /\ AtRest(a)
    /\ IF stack[a] = <<>>
       THEN a \in Outside
       ELSE \A g \in Programs : job[Top(a)] = g => program[g] # "removed"

\* Mutant: the waker is taken out of the core and dropped.
TakeThreadWaker_Dropped(a) ==
    /\ thread_wakers' = [t \in Runners |->
           thread_wakers[t] /\ \E u \in Runners : u < t /\ thread_wakers[u]]
    /\ UNCHANGED notify

\* The first entry of thread_wakers that is Some is taken; the caller invokes
\* it after releasing the lock.
TakeThreadWaker(a) ==
    \/ /\ \A t \in Runners : ~thread_wakers[t]
       /\ UNCHANGED <<thread_wakers, notify>>
    \/ \E t \in Runners :
          /\ thread_wakers[t]
          /\ \A u \in Runners : u < t => ~thread_wakers[u]
          /\ thread_wakers' = [thread_wakers EXCEPT ![t] = FALSE]
          /\ notify' = [notify EXCEPT ![a] = {t}]


(***************************************************************************)
(* SceneCoreWaker::wake_by_ref for slot p, called by thread a: the locked   *)
(* part.  A thread waker is taken whether or not the process still exists. *)
(***************************************************************************)
SceneWake(a, p) ==
    /\ TakeThreadWaker(a)
    /\ IF future[p] # Empty
       THEN /\ is_awake' = [is_awake EXCEPT ![p] = TRUE]
            /\ awake_processes' = PushIfAbsent(p)
       ELSE UNCHANGED <<is_awake, awake_processes>>

\* A waker of slot p's last poll is invoked.  A poll made by a runner was given
\* a SceneCoreWaker; a stolen poll was given a one-shot Reawakener, which
\* forwards its first wake to a SceneCoreWaker and ignores the others.
InvokeWaker(a, p) ==
    /\ needs_poll' = [needs_poll EXCEPT ![p] = TRUE]
    /\ \/ /\ waker[p] = "scene"
          /\ SceneWake(a, p)
          /\ UNCHANGED <<waker, rewake>>
       \/ /\ waker[p] = "armed"
          /\ waker' = [waker EXCEPT ![p] = "spent"]
          /\ rewake' = [rewake EXCEPT ![a] = p]
          /\ UNCHANGED <<is_awake, wakeVars, notify>>
       \/ /\ waker[p] = "spent"
          /\ UNCHANGED <<waker, rewake, is_awake, wakeVars, notify>>

Wake(a, p) ==
    /\ InCode(a) /\ future[p] # Empty
    /\ InvokeWaker(a, p)
    /\ UNCHANGED <<future, job, next_process, progVars, runnerVars, stack, lookup, sceneFlags>>

\* A SceneCoreWaker left over from an older poll of the slot, possibly of a
\* process that has ended since, is invoked.
StaleWake(a, p) ==
    /\ InCode(a) /\ job[p] # None
    /\ SceneWake(a, p)
    /\ UNCHANGED <<future, job, next_process, progVars, ghostVars, runnerVars,
                   stack, rewake, lookup, sceneFlags>>

\* The SceneCoreWaker behind a Reawakener, or the one that a thief invokes
\* when the process it returns has been woken meanwhile.
Rewake(a) ==
    /\ rewake[a] # None /\ notify[a] = {}
    /\ SceneWake(a, rewake[a])
    /\ rewake' = [rewake EXCEPT ![a] = None]
    /\ UNCHANGED <<future, job, next_process, progVars, ghostVars, runnerVars,
                   stack, lookup, sceneFlags>>

\* A taken thread waker is invoked, outside of the lock: the executor of that
\* runner will poll it (again).
NotifyThread(a, t) ==
    /\ t \in notify[a]
    /\ notify' = [notify EXCEPT ![a] = @ \ {t}]
    /\ woken' = [woken EXCEPT ![t] = TRUE]
    /\ UNCHANGED <<tableVars, progVars, wakeVars, ghostVars, runner, stack,
                   rewake, lookup, sceneFlags>>

(***************************************************************************)
(* SceneCore::start_process: the process goes to slot next_process, which  *)
(* moves up to the next slot not in use; the index is queued even if a     *)
(* stale copy of it is queued already.                                     *)
(***************************************************************************)
StartProcess(a, j) ==
    LET p == next_process IN
    /\ p \in Slots
    /\ future' = [future EXCEPT ![p] = Waiting]
    /\ is_awake' = [is_awake EXCEPT ![p] = TRUE]
    /\ job' = [job EXCEPT ![p] = j]
    /\ \E n \in p+1..MaxProcesses :
          /\ n \in Slots => future[n] = Empty
          /\ \A m \in p+1..n-1 : future[m] # Empty
          /\ next_process' = n
    /\ awake_processes' = Append(awake_processes, p)
    /\ waker' = [waker EXCEPT ![p] = "scene"]
    /\ needs_poll' = [needs_poll EXCEPT ![p] = TRUE]
    /\ TakeThreadWaker(a)

\* SceneCore::start_subprogram; ids are never used twice here (see SubProgramTable).
StartProgram(a, g) ==
    /\ InCode(a) /\ program[g] = "unstarted"
    /\ StartProcess(a, g)
    /\ program' = [program EXCEPT ![g] = "running"]
    /\ process_id' = [process_id EXCEPT ![g] = next_process]
    /\ UNCHANGED <<runnerVars, stack, rewake, lookup, sceneFlags>>

\* A process that is no program: a stream filter's sender (filter.rs).
StartBackground(a) ==
    /\ InCode(a)
    /\ StartProcess(a, Background)
    /\ UNCHANGED <<progVars, runnerVars, stack, rewake, lookup, sceneFlags>>

\* Mutant: the wakers are taken out of the core and dropped.
StopWakers_Dropped == {}

\* The runners whose wakers SceneCore::stop hands to its caller.
StopWakers == {t \in Runners : thread_wakers[t]}

\* SceneCore::stop takes every thread waker, and its caller invokes them.
Stop(a) ==
    /\ InCode(a) /\ ~stopped /\ stack[a] # <<>>
    /\ stopped' = TRUE
    /\ notify' = [notify EXCEPT ![a] = StopWakers]
    /\ thread_wakers' = [t \in Runners |-> FALSE]
    /\ UNCHANGED <<tableVars, progVars, awake_processes, ghostVars, runnerVars,
                   stack, rewake, lookup, notify_when_idle>>

\* SceneCore::notify_on_next_idle (without its idle_count).
NotifyOnNextIdle(a) ==
    /\ InCode(a) /\ stack[a] # <<>>
    /\ notify_when_idle' = TRUE
    /\ UNCHANGED <<tableVars, progVars, wakeVars, ghostVars, runnerVars, threadVars, stopped>>

(***************************************************************************)
(* The end of a program's process (the async block of start_subprogram).   *)
(***************************************************************************)
\* The program's entries leave sub_programs, under the core's lock.
RemoveProgram(a, g) ==
    /\ InCode(a) /\ stack[a] # <<>> /\ job[Top(a)] = g
    /\ program' = [program EXCEPT ![g] = "removed"]
    /\ UNCHANGED <<tableVars, process_id, wakeVars, ghostVars, runnerVars, threadVars, sceneFlags>>

\* Mutant: the process_id of a finished program stays set.
ProcessIdAfterEnd_Kept(g) == process_id

ProcessIdAfterEnd(g) == [process_id EXCEPT ![g] = None]

\* With the core unlocked, process_id is cleared.
ClearProcessId(a, g) ==
    /\ AtRest(a) /\ stack[a] # <<>> /\ job[Top(a)] = g /\ program[g] = "removed"
    /\ program' = [program EXCEPT ![g] = "ended"]
    /\ process_id' = ProcessIdAfterEnd(g)
    /\ job' = [job EXCEPT ![Top(a)] = Finishing]
    /\ UNCHANGED <<future, is_awake, next_process, wakeVars, ghostVars, runnerVars,
                   threadVars, sceneFlags>>

(***************************************************************************)
(* Polling                                                                 *)
(***************************************************************************)
\* Thread a begins to poll the process in slot p.
BeginPoll(a, p, stolen) ==
    /\ future' = [future EXCEPT ![p] = a]
    /\ stack' = [stack EXCEPT ![a] = Push([proc |-> p, stolen |-> stolen], @)]
    /\ waker' = [waker EXCEPT ![p] = IF stolen THEN "armed" ELSE "scene"]
    /\ needs_poll' = [needs_poll EXCEPT ![p] = FALSE]

EndPoll(a) == stack' = [stack EXCEPT ![a] = Tail(@)]

\* Mutant: a thief returns the process without looking at is_awake.
RequeueIfAwake_NotThief(a, p, stolen) ==
    /\ awake_processes' = IF is_awake[p] /\ ~stolen THEN PushIfAbsent(p) ELSE awake_processes
    /\ UNCHANGED rewake

\* A process that was woken during its poll is queued again when it is returned:
\* by a runner directly, by a thief through a SceneCoreWaker.
RequeueIfAwake(a, p, stolen) ==
    /\ awake_processes' = IF is_awake[p] /\ ~stolen THEN PushIfAbsent(p) ELSE awake_processes
    /\ rewake' = IF is_awake[p] /\ stolen THEN [rewake EXCEPT ![a] = p] ELSE rewake

\* The poll of the innermost process returned Pending: its future goes back.
PollPending(a) ==
    LET p == Top(a) IN
    /\ InCode(a) /\ stack[a] # <<>> /\ job[p] # Finishing
    /\ future' = [future EXCEPT ![p] = Waiting]
    /\ EndPoll(a)
    /\ RequeueIfAwake(a, p, Head(stack[a]).stolen)
    /\ UNCHANGED <<is_awake, job, next_process, progVars, thread_wakers, ghostVars,
                   runnerVars, notify, lookup, sceneFlags>>

NextAfterEnd(p) == IF p < next_process THEN p ELSE next_process

\* The poll of the innermost process returned Ready: its slot is free again.  A
\* thief also takes the process off the awake list; a runner does not.
PollReady(a) ==
    LET p == Top(a) IN
    /\ InCode(a) /\ stack[a] # <<>> /\ job[p] \in {Background, Finishing}
    /\ future' = [future EXCEPT ![p] = Empty]
    /\ is_awake' = [is_awake EXCEPT ![p] = FALSE]
    /\ needs_poll' = [needs_poll EXCEPT ![p] = FALSE]
    /\ next_process' = NextAfterEnd(p)
    /\ EndPoll(a)
    /\ IF Head(stack[a]).stolen THEN RemoveFromQueue(p) ELSE UNCHANGED awake_processes
    /\ UNCHANGED <<job, progVars, thread_wakers, waker, runnerVars, notify, rewake,
                   lookup, sceneFlags>>

(***************************************************************************)
(* SceneCore::steal_thread_for_program, in two critical sections.          *)
(***************************************************************************)
\* The program's SubProgramCore is fetched from the scene.
StealLookup(a, g) ==
    /\ InCode(a) /\ program[g] = "running"
    /\ lookup' = [lookup EXCEPT ![a] = g]
    /\ UNCHANGED <<tableVars, progVars, wakeVars, ghostVars, runnerVars, stack,
                   notify, rewake, sceneFlags>>

\* Its process, if it still has one that is not being polled, is polled here.
StealTake(a) ==
    LET p == process_id[lookup[a]] IN
    /\ lookup[a] # None
    /\ lookup' = [lookup EXCEPT ![a] = None]
    /\ IF p # None /\ future[p] = Waiting
       THEN BeginPoll(a, p, TRUE)
       ELSE UNCHANGED <<future, stack, ghostVars>>
    /\ UNCHANGED <<is_awake, job, next_process, progVars, wakeVars, runnerVars,
                   notify, rewake, sceneFlags>>

(***************************************************************************)
(* run_core                                                                *)
(***************************************************************************)
AtLoop(t) == runner[t] = "loop" /\ stack[t] = <<>> /\ AtRest(t)

\* The scene has finished: it was stopped, or has no programs and nothing awake.
SceneOver == \/ stopped
             \/ /\ \A g \in Programs : program[g] # "running"
                /\ awake_processes = <<>>

RunnerEnds(t) ==
    /\ AtLoop(t) /\ SceneOver
    /\ runner' = [runner EXCEPT ![t] = "done"]
    /\ UNCHANGED <<tableVars, progVars, wakeVars, ghostVars, woken, threadVars, sceneFlags>>

\* Nothing is awake: store this runner's waker, then look for idleness unlocked.
RunnerParks(t) ==
    /\ AtLoop(t) /\ ~SceneOver /\ awake_processes = <<>>
    /\ thread_wakers' = [thread_wakers EXCEPT ![t] = TRUE]
    /\ runner' = [runner EXCEPT ![t] = "idle_check"]
    /\ UNCHANGED <<tableVars, progVars, awake_processes, ghostVars, woken, threadVars, sceneFlags>>

\* check_if_idle sent a notification, which woke the process waiting for it (or
\* found its channel full): the runner goes round its loop again.
IdleNotified(t) ==
    /\ runner[t] = "idle_check" /\ AtRest(t) /\ notify_when_idle
    /\ notify_when_idle' = FALSE
    /\ runner' = [runner EXCEPT ![t] = "loop"]
    /\ \/ \E p \in Slots : future[p] # Empty /\ InvokeWaker(t, p)
       \/ UNCHANGED <<is_awake, wakeVars, ghostVars, notify, rewake>>
    /\ UNCHANGED <<future, job, next_process, progVars, woken, stack, lookup, stopped>>

\* check_if_idle returned false: run_core returns Pending.
RunnerPending(t) ==
    /\ runner[t] = "idle_check" /\ AtRest(t)
    /\ runner' = [runner EXCEPT ![t] = "pending"]
    /\ UNCHANGED <<tableVars, progVars, wakeVars, ghostVars, woken, threadVars, sceneFlags>>

\* Mutant: a process that another thread is polling is not told apart.
Runnable_Awake(p) == future[p] # Empty /\ is_awake[p]

\* A queued process is polled only if it is awake and nobody is polling it.
Runnable(p) == future[p] = Waiting /\ is_awake[p]

RunnerPops(t) ==
    LET p == Head(awake_processes) IN
    /\ AtLoop(t) /\ ~SceneOver /\ awake_processes # <<>>
    /\ awake_processes' = Tail(awake_processes)
    /\ IF Runnable(p)
       THEN /\ is_awake' = [is_awake EXCEPT ![p] = FALSE]
            /\ BeginPoll(t, p, FALSE)
       ELSE UNCHANGED <<is_awake, future, stack, ghostVars>>
    /\ UNCHANGED <<job, next_process, progVars, thread_wakers, runnerVars, notify,
                   rewake, lookup, sceneFlags>>

(***************************************************************************)
(* The executors of the runners (futures::executor::block_on, or the task  *)
(* that awaits the scene), and run_scene_with_threads' shutdown.           *)
(***************************************************************************)
RunnerResumes(t) ==
    /\ runner[t] = "pending" /\ woken[t]
    /\ runner' = [runner EXCEPT ![t] = "loop"]
    /\ woken' = [woken EXCEPT ![t] = FALSE]
    /\ UNCHANGED <<tableVars, progVars, wakeVars, ghostVars, threadVars, sceneFlags>>

\* The task that contains run_core is polled for another reason.
RunnerPolledAnyway(t) ==
    /\ runner[t] = "pending"
    /\ runner' = [runner EXCEPT ![t] = "loop"]
    /\ UNCHANGED <<tableVars, progVars, wakeVars, ghostVars, woken, threadVars, sceneFlags>>

\* The Dropper of run_scene_with_threads: once the main runner has finished, the
\* other runners are dropped when they next return to their executor.
RunnerDropped(t) ==
    /\ t # Main /\ runner[Main] = "done" /\ runner[t] = "pending"
    /\ runner' = [runner EXCEPT ![t] = "done"]
    /\ UNCHANGED <<tableVars, progVars, wakeVars, ghostVars, woken, threadVars, sceneFlags>>

(***************************************************************************)
(* The specification                                                       *)
(***************************************************************************)
Init ==
    /\ future = [p \in Slots |-> Empty]
    /\ is_awake = [p \in Slots |-> FALSE]
    /\ job = [p \in Slots |-> None]
    /\ next_process = 0
    /\ awake_processes = <<>>
    /\ thread_wakers = [t \in Runners |-> FALSE]
    /\ stopped = FALSE
    /\ notify_when_idle = FALSE
    /\ program = [g \in Programs |-> "unstarted"]
    /\ process_id = [g \in Programs |-> None]
    /\ waker = [p \in Slots |-> "scene"]
    /\ needs_poll = [p \in Slots |-> FALSE]
    /\ runner = [t \in Runners |-> "pending"]
    /\ woken = [t \in Runners |-> TRUE]
    /\ stack = [a \in Threads |-> <<>>]
    /\ notify = [a \in Threads |-> {}]
    /\ rewake = [a \in Threads |-> None]
    /\ lookup = [a \in Threads |-> None]

\* What the code that a thread is running may do to the scene.
CodeStep(a) ==
    \/ \E p \in Slots : Wake(a, p) \/ StaleWake(a, p)
    \/ \E g \in Programs : StartProgram(a, g) \/ StealLookup(a, g)
    \/ StartBackground(a)
    \/ Stop(a) \/ NotifyOnNextIdle(a)

\* How the poll of a process comes to its end.
PollReturns(a) ==
    \/ PollPending(a)
    \/ PollReady(a)
    \/ \E g \in Programs : RemoveProgram(a, g) \/ ClearProcessId(a, g)

\* Scheduler code that thread a runs through without waiting for anything.
SchedulerStep(a) ==
    \/ Rewake(a)
    \/ \E t \in Runners : NotifyThread(a, t)
    \/ StealTake(a)

RunCoreStep(t) ==
    \/ RunnerEnds(t) \/ RunnerParks(t) \/ RunnerPops(t)
    \/ IdleNotified(t) \/ RunnerPending(t)

ExecutorStep(t) == RunnerResumes(t) \/ RunnerDropped(t)

Next ==
    \/ \E a \in Threads : CodeStep(a) \/ PollReturns(a) \/ SchedulerStep(a)
    \/ \E t \in Runners : RunCoreStep(t) \/ ExecutorStep(t) \/ RunnerPolledAnyway(t)

Spec == Init /\ [][Next]_vars

\* Runners and the code of the scheduler never stop half way; the executor of a
\* runner polls it again once told to; and the poll of each process returns, however
\* many calls it makes first (a future must not block its thread).
Fairness ==
    /\ \A a \in Threads : WF_vars(SchedulerStep(a))
    /\ \A a \in Threads, p \in Slots :
          SF_vars(stack[a] # <<>> /\ Top(a) = p /\ PollReturns(a))
    /\ \A t \in Runners : WF_vars(RunCoreStep(t)) /\ WF_vars(ExecutorStep(t))

FairSpec == Spec /\ Fairness

(***************************************************************************)
(* Properties                                                              *)
(***************************************************************************)

\* The process of every poll in progress is still in its slot, marked as running
\* on the polling thread, and no two polls in progress, of one thread or of two,
\* are of the same process: what run_core's expect("Process should not go away
\* while we're polling it") relies on.
PollExclusion ==
    \A a \in Threads : \A i \in 1..Len(stack[a]) :
        /\ future[stack[a][i].proc] = a
        /\ \A j \in 1..Len(stack[a]) : stack[a][i].proc = stack[a][j].proc => i = j

\* next_process is the lowest slot that is not in use: start_process neither
\* overwrites a live process nor lets the table grow while a slot is free.
NextProcessIsLowestFree ==
    /\ next_process \in Slots => future[next_process] = Empty
    /\ \A p \in Slots : p < next_process => future[p] # Empty

\* A program's process_id never names a slot that has passed on to another
\* process, so steal_thread_for_program polls the program it fetched.
ProcessIdIsOwn ==
    \A g \in Programs : process_id[g] # None =>
        job[process_id[g]] = g /\ future[process_id[g]] # Empty

\* The process table through every order of starts, ends and steals: well typed, the
\* lowest slot free, and no program's process_id left pointing into another's slot.
ProcessTableIsSound == TypeOK /\ NextProcessIsLowestFree /\ ProcessIdIsOwn

\* Process p will come up for a poll: it is marked awake and its index is in the
\* awake list, or some thread is about to invoke its SceneCoreWaker.
Scheduled(p) == \/ is_awake[p] /\ InQueue(p)
                \/ \E a \in Threads : rewake[a] = p

\* No wake is lost by the process table: a process woken since its last poll
\* began is, as soon as that poll has returned, scheduled for another one,
\* whether it was polled by a runner or by a thief, and whatever wakes raced it.
WokenIsScheduled ==
    \A p \in Slots : needs_poll[p] /\ future[p] = Waiting => Scheduled(p)

\* Runner t is going to look at the awake list: it is in its loop or inside a poll,
\* or its executor has been, or is about to be, told to poll it.
WillLook(t) == \/ runner[t] = "loop"
               \/ /\ runner[t] \in {"idle_check", "pending"}
                  /\ woken[t] \/ \E a \in Threads : t \in notify[a]

\* No wake is lost between the threads: while something is in the awake list the
\* runners are never all asleep, although a runner stores its thread waker before
\* it goes to sleep and each wake takes only one of them.  (Until the scene ends
\* on some runner: a finished runner's waker can be left behind.)
SomeRunnerWillLook ==
    \/ awake_processes = <<>>
    \/ \E t \in Runners : runner[t] = "done"
    \/ \E t \in Runners : WillLook(t)

\* A process that has been woken is polled (or ends), unless the scene ends.
WokenIsPolled ==
    \A p \in Slots :
        needs_poll[p] ~> (~needs_poll[p] \/ \E t \in Runners : runner[t] = "done")

\* Once the control program has stopped the scene, every runner finishes.
StopEndsRunners == stopped ~> \A t \in Runners : runner[t] = "done"
=============================================================================
